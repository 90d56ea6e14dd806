---------------------------- MODULE WriterProofs ----------------------------
(***************************************************************************)
(* Proofs about module Writer: its type invariant, the control flow of the *)
(* main thread, the safety of the page buffer pool and the layout of the   *)
(* segments of the file, for every number of columns, row groups and rows, *)
(* every assignment of values to rows and every sequence of calls.         *)
(*                                                                         *)
(* The first part has the lemmas on the methods of ColumnWriter, and on    *)
(* the recursive operators on sequences that they and the properties use;  *)
(* the part on the writer begins with the lemma TypeInit.                  *)
(***************************************************************************)
EXTENDS Writer, FiniteSetTheorems, SequencesExt, SequenceTheorems, WellFoundedInduction, TLAPS

-----------------------------------------------------------------------------
(* Induction over data, from the least element of a set of naturals.       *)

LessOnNat == {p \in Nat \X Nat : p[1] < p[2]}

\* Every nonempty set of naturals has a least element.
LEMMA LeastElement ==
  ASSUME NEW T \in SUBSET Nat, T # {}
  PROVE  \E x \in T : \A y \in T : x <= y
  <1>1. IsWellFoundedOn(LessOnNat, Nat)
    BY NatLessThanWellFounded DEF LessOnNat, OpToRel
  <1>2. PICK x \in T : \A y \in T : ~ (<<y, x>> \in LessOnNat)
    BY <1>1, WFMin
  <1>3. \A y \in T : ~(y < x)
    <2> TAKE y \in T
    <2>1. <<y, x>> \in Nat \X Nat /\ <<y, x>>[1] = y /\ <<y, x>>[2] = x
      OBVIOUS
    <2> QED BY <1>2, <2>1 DEF LessOnNat
  <1>4. \A y \in T : x <= y
    BY <1>3
  <1> QED BY <1>4

\* A set of naturals with 0 and the successor of each of its elements.
LEMMA SetInduction ==
  ASSUME NEW S \in SUBSET Nat, 0 \in S, \A n \in S : n + 1 \in S
  PROVE  \A n \in Nat : n \in S
  <1> SUFFICES ASSUME Nat \ S # {} PROVE FALSE
    OBVIOUS
  <1>1. PICK m \in Nat \ S : \A y \in Nat \ S : m <= y
    BY LeastElement
  <1>2. m # 0 /\ m - 1 \in Nat
    BY <1>1
  <1>3. m - 1 \in S
    BY <1>1, <1>2
  <1>4. (m - 1) + 1 \in S
    BY <1>3
  <1> QED BY <1>1, <1>4

\* The recursion of FlattenSeq has a solution.
LEMMA FlattenExists ==
  ASSUME NEW T, NEW s \in Seq(Seq(T))
  PROVE  \E f \in [1..Len(s) -> Seq(T)] :
            \A i \in 1..Len(s) : f[i] = IF i = 1 THEN s[i] ELSE f[i-1] \o s[i]
  <1> DEFINE P(n) == n <= Len(s) =>
               \E f \in [1..n -> Seq(T)] :
                 \A i \in 1..n : f[i] = IF i = 1 THEN s[i] ELSE f[i-1] \o s[i]
             S == {n \in Nat : P(n)}
  <1>1. P(0)
    <2>1. << >> \in Seq(T) /\ 1..0 = {}
      OBVIOUS
    <2>2. [i \in 1..0 |-> << >>] \in [1..0 -> Seq(T)]
      BY <2>1
    <2> QED BY <2>1, <2>2
  <1>2. ASSUME NEW n \in Nat, P(n) PROVE P(n + 1)
    <2>1. n \in Nat /\ P(n)
      BY <1>2
    <2>2. SUFFICES ASSUME n + 1 <= Len(s)
                   PROVE  \E f \in [1..(n + 1) -> Seq(T)] :
                            \A i \in 1..(n + 1) : f[i] = IF i = 1 THEN s[i] ELSE f[i-1] \o s[i]
      OBVIOUS
    <2>3. PICK f \in [1..n -> Seq(T)] :
            \A i \in 1..n : f[i] = IF i = 1 THEN s[i] ELSE f[i-1] \o s[i]
      BY <2>1, <2>2
    <2> DEFINE last == IF n = 0 THEN s[1] ELSE f[n] \o s[n + 1]
               h == [i \in 1..(n + 1) |-> IF i = n + 1 THEN last ELSE f[i]]
    <2>4. s[n + 1] \in Seq(T) /\ s[1] \in Seq(T)
      BY <2>1, <2>2
    <2>5. last \in Seq(T)
      <3>1. CASE n = 0
        BY <2>4, <3>1
      <3>2. CASE n # 0
        <4>1. f[n] \in Seq(T)
          BY <2>1, <3>2
        <4>2. f[n] \o s[n + 1] \in Seq(T)
          BY <2>4, <4>1
        <4> QED BY <3>2, <4>2
      <3> QED BY <3>1, <3>2
    <2>6. h \in [1..(n + 1) -> Seq(T)]
      <3> HIDE DEF last
      <3> QED BY <2>1, <2>5
    <2>7. ASSUME NEW i \in 1..(n + 1)
          PROVE  h[i] = IF i = 1 THEN s[i] ELSE h[i-1] \o s[i]
      <3>1. CASE i = n + 1
        BY <2>1, <3>1
      <3>2. CASE i # n + 1
        <4>1. i \in 1..n /\ h[i] = f[i] /\ (i # 1 => i - 1 \in 1..n /\ h[i-1] = f[i-1])
          <5> HIDE DEF last
          <5> QED BY <2>1, <3>2
        <4> QED BY <2>3, <4>1
      <3> QED BY <3>1, <3>2
    <2> HIDE DEF h
    <2> QED BY <2>6, <2>7
  <1> HIDE DEF P
  <1>3. S \in SUBSET Nat /\ 0 \in S /\ \A n \in S : n + 1 \in S
    BY <1>1, <1>2
  <1> HIDE DEF S
  <1>4. \A n \in Nat : n \in S
    BY <1>3, SetInduction
  <1>5. P(Len(s))
    BY <1>4 DEF S
  <1> QED BY <1>5 DEF P

\* The sequences FlattenSeq goes through on its way to its result.
Flattens(s, f) == f = [i \in 1..Len(s) |-> IF i = 1 THEN s[i] ELSE f[i-1] \o s[i]]

\* FlattenSeq is the last of them.
LEMMA FlattenSeqUnfolds ==
  ASSUME NEW T, NEW s \in Seq(Seq(T))
  PROVE  \E f : Flattens(s, f) /\ FlattenSeq(s) = IF s = << >> THEN << >> ELSE f[Len(s)]
  <1>1. PICK f \in [1..Len(s) -> Seq(T)] :
            \A i \in 1..Len(s) : f[i] = IF i = 1 THEN s[i] ELSE f[i-1] \o s[i]
    BY FlattenExists
  <1>2. Flattens(s, f)
    BY <1>1 DEF Flattens
  <1> DEFINE g == CHOOSE h : h = [i \in 1..Len(s) |-> IF i = 1 THEN s[i] ELSE h[i-1] \o s[i]]
  <1>3. Flattens(s, g)
    BY <1>2 DEF Flattens
  <1>4. FlattenSeq(s) = IF Len(s) = 0 THEN s ELSE g[Len(s)]
    BY DEF FlattenSeq
  <1>5. Len(s) = 0 <=> s = << >>
    OBVIOUS
  <1> HIDE DEF g
  <1> QED BY <1>3, <1>4, <1>5

\* Two such sequences agree on the part of s that they share.
LEMMA FlattensAgree ==
  ASSUME NEW T, NEW s \in Seq(Seq(T)), NEW t \in Seq(Seq(T)), NEW f, NEW g,
         Flattens(s, f), Flattens(t, g),
         Len(t) <= Len(s), \A i \in 1 .. Len(t) : t[i] = s[i]
  PROVE  \A i \in 1 .. Len(t) : f[i] = g[i] /\ f[i] \in Seq(T)
  <1> DEFINE P(n) == \A i \in 1 .. Len(t) : i <= n => f[i] = g[i] /\ f[i] \in Seq(T)
             S == {n \in Nat : P(n)}
  <1>1. P(0)
    OBVIOUS
  <1>2. ASSUME NEW n \in Nat, P(n) PROVE P(n + 1)
    <2>1. SUFFICES ASSUME n + 1 \in 1 .. Len(t)
                   PROVE  f[n + 1] = g[n + 1] /\ f[n + 1] \in Seq(T)
      BY <1>2
    <2>2. /\ n + 1 \in 1 .. Len(s) /\ s[n + 1] = t[n + 1] /\ s[n + 1] \in Seq(T)
          /\ (n + 1) - 1 = n
      BY <2>1
    <2>3. f[n + 1] = IF n + 1 = 1 THEN s[n + 1] ELSE f[n] \o s[n + 1]
      BY <2>2 DEF Flattens
    <2>4. g[n + 1] = IF n + 1 = 1 THEN t[n + 1] ELSE g[n] \o t[n + 1]
      BY <2>1, <2>2 DEF Flattens
    <2>5. CASE n = 0
      BY <2>2, <2>3, <2>4, <2>5
    <2>6. CASE n # 0
      <3>1. f[n] = g[n] /\ f[n] \in Seq(T)
        BY <1>2, <2>1, <2>6
      <3>2. f[n] \o s[n + 1] \in Seq(T)
        BY <2>2, <3>1
      <3> QED BY <2>2, <2>3, <2>4, <2>6, <3>1, <3>2
    <2> QED BY <2>5, <2>6
  <1> HIDE DEF P
  <1>3. S \in SUBSET Nat /\ 0 \in S /\ \A n \in S : n + 1 \in S
    BY <1>1, <1>2
  <1> HIDE DEF S
  <1>4. \A n \in Nat : n \in S
    BY <1>3, SetInduction
  <1>5. P(Len(t))
    BY <1>4 DEF S
  <1> QED BY <1>5 DEF P

\* The recursion of FlattenSeq, without the functions.
LEMMA FlattenSeqRecursion ==
  ASSUME NEW T
  PROVE  /\ FlattenSeq(<< >>) = << >>
         /\ \A s \in Seq(Seq(T)) : FlattenSeq(s) \in Seq(T)
         /\ \A s \in Seq(Seq(T)), x \in Seq(T) :
              FlattenSeq(Append(s, x)) = FlattenSeq(s) \o x
  <1>1. FlattenSeq(<< >>) = << >>
    <2>1. << >> \in Seq(Seq(T))
      OBVIOUS
    <2> QED BY <2>1, FlattenSeqUnfolds
  <1>2. ASSUME NEW s \in Seq(Seq(T)) PROVE FlattenSeq(s) \in Seq(T)
    <2>1. PICK f : Flattens(s, f) /\ FlattenSeq(s) = IF s = << >> THEN << >> ELSE f[Len(s)]
      BY FlattenSeqUnfolds
    <2>2. CASE s = << >>
      BY <2>1, <2>2
    <2>3. CASE s # << >>
      <3>1. Len(s) \in 1 .. Len(s)
        BY <2>3
      <3>2. f[Len(s)] \in Seq(T)
        BY <2>1, <3>1, FlattensAgree
      <3> QED BY <2>1, <2>3, <3>2
    <2> QED BY <2>2, <2>3
  <1>3. ASSUME NEW s \in Seq(Seq(T)), NEW x \in Seq(T)
        PROVE  FlattenSeq(Append(s, x)) = FlattenSeq(s) \o x
    <2> DEFINE t == Append(s, x)
    <2>1. /\ t \in Seq(Seq(T)) /\ Len(t) = Len(s) + 1 /\ t[Len(t)] = x /\ t # << >>
          /\ \A i \in 1 .. Len(s) : t[i] = s[i]
      BY AppendProperties
    <2> HIDE DEF t
    <2>2. PICK f : Flattens(s, f) /\ FlattenSeq(s) = IF s = << >> THEN << >> ELSE f[Len(s)]
      BY FlattenSeqUnfolds
    <2>3. PICK g : Flattens(t, g) /\ FlattenSeq(t) = IF t = << >> THEN << >> ELSE g[Len(t)]
      BY <2>1, FlattenSeqUnfolds
    <2>4. \A i \in 1 .. Len(s) : g[i] = f[i] /\ g[i] \in Seq(T)
      <3>1. Len(s) <= Len(t)
        BY <2>1
      <3>2. \A i \in 1 .. Len(s) : s[i] = t[i]
        BY <2>1
      <3> QED BY <2>1, <2>2, <2>3, <3>1, <3>2, FlattensAgree
    <2>5. FlattenSeq(t) = g[Len(t)]
      BY <2>1, <2>3
    <2>6. g[Len(t)] = IF Len(t) = 1 THEN x ELSE g[Len(t) - 1] \o x
      <3>1. Len(t) \in 1 .. Len(t)
        BY <2>1
      <3> QED BY <2>1, <2>3, <3>1 DEF Flattens
    <2>7. CASE s = << >>
      BY <2>1, <2>2, <2>5, <2>6, <2>7, ConcatEmptySeq DEF t
    <2>8. CASE s # << >>
      <3>1. Len(s) \in 1 .. Len(s) /\ Len(t) # 1 /\ Len(t) - 1 = Len(s)
        BY <2>1, <2>8
      <3> QED BY <2>2, <2>4, <2>5, <2>6, <2>8, <3>1 DEF t
    <2> QED BY <2>7, <2>8
  <1> QED BY <1>1, <1>2, <1>3

\* A nonempty sequence is its front with its last element appended.
LEMMA FrontAndLast ==
  ASSUME NEW T, NEW s \in Seq(T), s # << >>
  PROVE  /\ SubSeq(s, 1, Len(s) - 1) \in Seq(T) /\ s[Len(s)] \in T
         /\ s = Append(SubSeq(s, 1, Len(s) - 1), s[Len(s)])
  <1>1. Len(s) \in Nat \ {0} /\ s[Len(s)] \in T
    BY EmptySeq
  <1> DEFINE n == Len(s) - 1
             f == SubSeq(s, 1, n)
  <1>2. n \in Nat /\ n + 1 = Len(s)
    BY <1>1
  <1>3. f \in Seq(T) /\ Len(f) = n /\ \A i \in 1 .. n : f[i] = s[i]
    <2> HIDE DEF n
    <2>1. \A i \in 1 .. n : s[i] \in T
      BY <1>2
    <2> QED BY <1>2, <2>1, SubSeqProperties
  <1>4. Append(f, s[Len(s)]) = s
    <2> DEFINE t == Append(f, s[Len(s)])
    <2>1. /\ t \in Seq(T) /\ Len(t) = n + 1
          /\ \A i \in 1 .. n + 1 : t[i] = IF i <= n THEN f[i] ELSE s[Len(s)]
      <3> HIDE DEF f, n
      <3> QED BY <1>1, <1>2, <1>3, AppendProperties
    <2>2. \A i \in 1 .. Len(t) : t[i] = s[i]
      <3> HIDE DEF t, f, n
      <3> QED BY <1>2, <1>3, <2>1
    <2> HIDE DEF t, f, n
    <2>3. t = s
      BY <1>2, <2>1, <2>2, SeqEqual
    <2> QED BY <2>3 DEF t
  <1> QED BY <1>1, <1>3, <1>4

\* A set of sequences with the empty one and whatever is made from one of its
\* sequences by appending an element has all sequences.
LEMMA SequenceInduction ==
  ASSUME NEW T, NEW G, << >> \in G,
         \A s \in Seq(T), x \in T : s \in G => Append(s, x) \in G
  PROVE  \A s \in Seq(T) : s \in G
  <1> DEFINE P(n) == \A s \in Seq(T) : Len(s) = n => s \in G
             S == {n \in Nat : P(n)}
  <1>1. P(0)
    BY EmptySeq
  <1>2. ASSUME NEW n \in Nat, P(n) PROVE P(n + 1)
    <2> TAKE s \in Seq(T)
    <2> HAVE Len(s) = n + 1
    <2>1. s # << >> /\ Len(s) - 1 = n
      OBVIOUS
    <2> DEFINE f == SubSeq(s, 1, n)
    <2>2. f \in Seq(T) /\ s[Len(s)] \in T /\ s = Append(f, s[Len(s)])
      BY <2>1, FrontAndLast
    <2>3. Len(f) = n
      BY SubSeqProperties
    <2> QED BY <1>2, <2>2, <2>3
  <1> HIDE DEF P
  <1>3. S \in SUBSET Nat /\ 0 \in S /\ \A n \in S : n + 1 \in S
    BY <1>1, <1>2
  <1> HIDE DEF S
  <1>4. \A n \in Nat : P(n)
    BY <1>3, SetInduction DEF S
  <1> QED BY <1>4, LenProperties DEF P

\* A property of every element of every sequence holds of the whole.
LEMMA FlattenSeqElements ==
  ASSUME NEW T, NEW U, NEW s \in Seq(Seq(T)),
         \A i \in 1 .. Len(s) : \A j \in 1 .. Len(s[i]) : s[i][j] \in U
  PROVE  \A j \in 1 .. Len(FlattenSeq(s)) : FlattenSeq(s)[j] \in U
  <1> DEFINE In(t) == \A j \in 1 .. Len(t) : t[j] \in U
             G == {t \in Seq(Seq(T)) : (\A i \in 1 .. Len(t) : In(t[i])) => In(FlattenSeq(t))}
  <1>1. << >> \in G
    BY FlattenSeqRecursion
  <1>2. ASSUME NEW t \in Seq(Seq(T)), NEW x \in Seq(T), t \in G PROVE Append(t, x) \in G
    <2> DEFINE r == Append(t, x)
    <2>1. /\ r \in Seq(Seq(T)) /\ Len(r) = Len(t) + 1
          /\ \A i \in 1 .. Len(t) : r[i] = t[i]
          /\ r[Len(t) + 1] = x
      BY AppendProperties
    <2>2. FlattenSeq(r) = FlattenSeq(t) \o x /\ FlattenSeq(t) \in Seq(T)
      BY FlattenSeqRecursion
    <2> HIDE DEF r
    <2>3. SUFFICES ASSUME \A i \in 1 .. Len(r) : In(r[i]) PROVE In(FlattenSeq(r))
      BY <2>1 DEF r
    <2>4. In(x)
      <3>1. Len(t) + 1 \in 1 .. Len(r)
        BY <2>1
      <3> HIDE DEF In
      <3> QED BY <2>1, <2>3, <3>1
    <2>5. \A i \in 1 .. Len(t) : In(t[i])
      <3>1. \A i \in 1 .. Len(t) : i \in 1 .. Len(r)
        BY <2>1
      <3> HIDE DEF In
      <3> QED BY <2>1, <2>3, <3>1
    <2>6. In(FlattenSeq(t))
      <3> HIDE DEF In
      <3> QED BY <1>2, <2>5
    <2>7. /\ Len(FlattenSeq(r)) = Len(FlattenSeq(t)) + Len(x)
          /\ \A j \in 1 .. Len(FlattenSeq(r)) : FlattenSeq(r)[j] =
               IF j <= Len(FlattenSeq(t)) THEN FlattenSeq(t)[j] ELSE x[j - Len(FlattenSeq(t))]
      BY <2>2, ConcatProperties
    <2>8. Len(FlattenSeq(t)) \in Nat /\ Len(x) \in Nat
      BY <2>2, LenProperties
    <2> DEFINE a == FlattenSeq(t)
               b == FlattenSeq(r)
    <2>9. ASSUME NEW j \in 1 .. Len(b) PROVE b[j] \in U
      <3>1. CASE j <= Len(a)
        BY <2>6, <2>7, <2>8, <3>1
      <3>2. CASE ~(j <= Len(a))
        <4> DEFINE m == j - Len(a)
        <4>1. m \in 1 .. Len(x) /\ b[j] = x[m]
          <5> HIDE DEF a, b
          <5> QED BY <2>7, <2>8, <3>2 DEF a, b
        <4> HIDE DEF m
        <4> QED BY <2>4, <4>1
      <3> QED BY <3>1, <3>2
    <2> QED BY <2>9
  <1> HIDE DEF G
  <1>3. \A t \in Seq(Seq(T)) : t \in G
    BY <1>1, <1>2, SequenceInduction
  <1> QED BY <1>3 DEF G

\* A prefix does not see what is appended.
LEMMA PrefixOfAppend ==
  ASSUME NEW T, NEW s \in Seq(T), NEW x \in T, NEW n \in 0 .. Len(s)
  PROVE  SubSeq(Append(s, x), 1, n) = SubSeq(s, 1, n)
  <1> DEFINE r == Append(s, x)
             p == SubSeq(r, 1, n)
             q == SubSeq(s, 1, n)
  <1>1. r \in Seq(T) /\ Len(r) = Len(s) + 1 /\ \A i \in 1 .. Len(s) : r[i] = s[i]
    BY AppendProperties
  <1>2. n \in Nat /\ n <= Len(s)
    OBVIOUS
  <1> HIDE DEF r
  <1>3. p \in Seq(T) /\ Len(p) = n /\ \A i \in 1 .. n : p[i] = r[i]
    BY <1>1, <1>2
  <1>4. q \in Seq(T) /\ Len(q) = n /\ \A i \in 1 .. n : q[i] = s[i]
    BY <1>2
  <1> HIDE DEF p, q
  <1>5. \A i \in 1 .. Len(p) : p[i] = q[i]
    BY <1>1, <1>2, <1>3, <1>4
  <1>6. p = q
    BY <1>3, <1>4, <1>5, SeqEqual
  <1> QED BY <1>6 DEF p, q, r

-----------------------------------------------------------------------------
(* The types of what the methods return. *)

\* The values of rows in a column are values.
LEMMA ValuesOfType ==
  ASSUME NEW k \in Columns, NEW rows \in Seq(Row)
  PROVE  ValuesOf(k, rows) \in SUBSET Value
  BY ValueAssumption DEF ValuesOf

\* The size of a dictionary is a natural number.
LEMMA DictionaryBytesType ==
  ASSUME NEW c \in ColumnWriterState
  PROVE  DictionaryBytes(c) \in Nat
  BY ValueAssumption, FS_Subset, FS_CardinalityType DEF ColumnWriterState, DictionaryBytes

\* The current buffer is a sequence of rows.
LEMMA BufferedType ==
  ASSUME NEW c \in ColumnWriterState
  PROVE  /\ Buffered(c) \in Seq(Row)
         /\ BufferBytes(c) \in Nat
         /\ totalRowCount(c) \in Nat
  BY DEF Buffered, ColumnWriterState, BufferBytes, totalRowCount

\* Writing values keeps the type and does not touch the page buffer.
LEMMA WriteValuesType ==
  ASSUME NEW c \in ColumnWriterState, NEW k \in Columns, NEW rows \in Seq(Row)
  PROVE  /\ WriteValues(c, k, rows) \in ColumnWriterState
         /\ WriteValues(c, k, rows).pageBuffer = c.pageBuffer
  <1>1. ValuesOf(k, rows) \in SUBSET Value
    BY ValuesOfType
  <1>2. c.plain \o rows \in Seq(Row) /\ c.original \o rows \in Seq(Row)
    BY DEF ColumnWriterState
  <1> QED BY <1>1, <1>2 DEF WriteValues, ColumnWriterState

\* Encoding a page keeps the type; it takes the buffer offered only if the
\* column has none.
LEMMA WriteDataPageType ==
  ASSUME NEW c \in ColumnWriterState, NEW k \in Columns, NEW rows \in Seq(Row), NEW id \in Nat
  PROVE  /\ writeDataPage(c, k, rows, id) \in ColumnWriterState
         /\ writeDataPage(c, k, rows, id).pageBuffer = IF c.pageBuffer = 0 THEN id ELSE c.pageBuffer
  <1> DEFINE page == [rows |-> rows, encoding |-> PageEncoding(c, k),
                      at |-> c.pageBytes, size |-> PageSize(rows)]
             loc == [offset |-> c.totalCompressedSize, size |-> PageSize(rows),
                     firstRow |-> c.numRows]
             b == IF c.pageBuffer = 0 THEN id ELSE c.pageBuffer
             ps == Append(c.pages, page)
             ls == Append(c.locations, loc)
             f == writePageToFilter(c, k, rows)
             bytes == c.pageBytes + PageSize(rows)
             total == c.totalCompressedSize + PageSize(rows)
             num == c.numRows + Len(rows)
  <1>1. PageSize(rows) \in Nat
    BY ColumnAssumption DEF PageSize
  <1>2. page \in Page
    BY <1>1 DEF Page, PageEncoding, ColumnWriterState
  <1>3. loc \in PageLocation
    BY <1>1 DEF PageLocation, ColumnWriterState
  <1>4. ps \in Seq(Page) /\ ls \in Seq(PageLocation)
    <2> HIDE DEF page, loc
    <2> QED BY <1>2, <1>3 DEF ColumnWriterState
  <1>5. f \in Filter
    BY ValuesOfType DEF writePageToFilter, Filter, ColumnWriterState
  <1>6. b \in Nat
    BY DEF ColumnWriterState
  <1>7. bytes \in Nat /\ total \in Nat /\ num \in Nat
    BY <1>1 DEF ColumnWriterState
  <1> DEFINE r == [c EXCEPT !.pageBuffer = b, !.pages = ps, !.pageBytes = bytes,
                            !.locations = ls, !.numRows = num,
                            !.totalCompressedSize = total, !.filter = f]
  <1>8. writeDataPage(c, k, rows, id) = r
    BY DEF writeDataPage
  <1>9. r \in ColumnWriterState /\ r.pageBuffer = b
    <2> HIDE DEF b, ps, ls, f, bytes, total, num
    <2> QED BY <1>4, <1>5, <1>6, <1>7 DEF ColumnWriterState
  <1> HIDE DEF r
  <1> QED BY <1>8, <1>9

\* Emptying a buffer keeps the type and the page buffer.
LEMMA ResetBufferType ==
  ASSUME NEW c \in ColumnWriterState
  PROVE  /\ ResetBuffer(c) \in ColumnWriterState
         /\ ResetBuffer(c).pageBuffer = c.pageBuffer
  <1>1. << >> \in Seq(Row)
    OBVIOUS
  <1> QED BY <1>1 DEF ResetBuffer, ColumnWriterState

\* Flush keeps the type; the column ends with the buffer offered exactly if it
\* needed one.
LEMMA FlushColumnType ==
  ASSUME NEW c \in ColumnWriterState, NEW k \in Columns, NEW id \in Nat
  PROVE  /\ FlushColumn(c, k, id) \in ColumnWriterState
         /\ FlushColumn(c, k, id).pageBuffer = IF NeedsPageBuffer(c) THEN id ELSE c.pageBuffer
  <1> DEFINE w == ResetBuffer(writeDataPage(c, k, Buffered(c), id))
  <1>1. Buffered(c) \in Seq(Row)
    BY BufferedType
  <1>2. /\ w \in ColumnWriterState
        /\ w.pageBuffer = IF c.pageBuffer = 0 THEN id ELSE c.pageBuffer
    BY <1>1, WriteDataPageType, ResetBufferType
  <1>3. FlushColumn(c, k, id) = IF Buffered(c) = << >> THEN c
                                ELSE IF DictionaryTooLarge(c, k) THEN fallbackDictionaryToPlain(w)
                                ELSE w
    BY DEF FlushColumn
  <1> HIDE DEF w
  <1>4. /\ fallbackDictionaryToPlain(w) \in ColumnWriterState
        /\ fallbackDictionaryToPlain(w).pageBuffer = w.pageBuffer
    BY <1>2 DEF fallbackDictionaryToPlain, ColumnWriterState
  <1> QED BY <1>2, <1>3, <1>4 DEF NeedsPageBuffer

\* A Flush that fails empties the buffer; the column is left without the page
\* buffer taken for the page.
LEMMA FlushColumnFailsIs ==
  ASSUME NEW c \in ColumnWriterState, NEW k \in Columns, NEW id
  PROVE  FlushColumnFails(c, k, id) =
           ResetBuffer([c EXCEPT !.filter = writePageToFilter(c, k, Buffered(c))])
  <1> DEFINE f == writePageToFilter(c, k, Buffered(c))
             d == [c EXCEPT !.filter = f]
             dropped == ResetBuffer(d)
  <1>1. f \in Filter
    BY BufferedType, ValuesOfType DEF writePageToFilter, Filter, ColumnWriterState
  <1> HIDE DEF f
  <1>2. d \in ColumnWriterState /\ d.pageBuffer = c.pageBuffer
    BY <1>1 DEF ColumnWriterState
  <1> HIDE DEF d
  <1>3. dropped \in ColumnWriterState /\ dropped.pageBuffer = c.pageBuffer
    BY <1>2, ResetBufferType
  <1>4. FlushColumnFails(c, k, id) =
          IF c.pageBuffer = 0
            THEN [[dropped EXCEPT !.pageBuffer = id] EXCEPT !.pageBuffer = 0] ELSE dropped
    BY DEF FlushColumnFails, dropPageBuffer, d, f
  <1> HIDE DEF dropped
  <1>5. c.pageBuffer = 0 =>
          [[dropped EXCEPT !.pageBuffer = id] EXCEPT !.pageBuffer = 0] = dropped
    BY <1>3 DEF ColumnWriterState
  <1> QED BY <1>4, <1>5 DEF dropped, d, f

\* A Flush that fails keeps the type and the page buffer the column had.
LEMMA FlushColumnFailsType ==
  ASSUME NEW c \in ColumnWriterState, NEW k \in Columns, NEW id
  PROVE  /\ FlushColumnFails(c, k, id) \in ColumnWriterState
         /\ FlushColumnFails(c, k, id).pageBuffer = c.pageBuffer
  <1> DEFINE f == writePageToFilter(c, k, Buffered(c))
             d == [c EXCEPT !.filter = f]
  <1>1. f \in Filter
    BY BufferedType, ValuesOfType DEF writePageToFilter, Filter, ColumnWriterState
  <1>2. FlushColumnFails(c, k, id) = ResetBuffer(d)
    BY FlushColumnFailsIs
  <1> HIDE DEF f
  <1>3. d \in ColumnWriterState /\ d.pageBuffer = c.pageBuffer
    BY <1>1 DEF ColumnWriterState
  <1> QED BY <1>2, <1>3, ResetBufferType

\* Completing or sizing the filter keeps the type and the page buffer.
LEMMA FilterType ==
  ASSUME NEW c \in ColumnWriterState, NEW k \in Columns
  PROVE  /\ flushFilterPages(c, k) \in ColumnWriterState
         /\ flushFilterPages(c, k).pageBuffer = c.pageBuffer
         /\ resizeBloomFilter(c) \in ColumnWriterState
         /\ resizeBloomFilter(c).pageBuffer = c.pageBuffer
  <1> DEFINE all == UNION { ValuesOf(k, c.pages[i].rows) : i \in 1 .. Len(c.pages) }
  <1>1. \A i \in 1 .. Len(c.pages) : c.pages[i].rows \in Seq(Row)
    <2>1. c.pages \in Seq(Page)
      BY DEF ColumnWriterState
    <2>2. \A i \in 1 .. Len(c.pages) : c.pages[i] \in Page
      BY <2>1
    <2> QED BY <2>2 DEF Page
  <1>2. all \in SUBSET Value
    BY <1>1, ValuesOfType
  <1>3. /\ [allocated |-> TRUE, values |-> all] \in Filter
        /\ [allocated |-> TRUE, values |-> c.dictionary] \in Filter
        /\ [allocated |-> TRUE, values |-> {}] \in Filter
    BY <1>2 DEF Filter, ColumnWriterState
  <1>4. ASSUME NEW f \in Filter
        PROVE  [c EXCEPT !.filter = f] \in ColumnWriterState
               /\ [c EXCEPT !.filter = f].pageBuffer = c.pageBuffer
    BY DEF ColumnWriterState
  <1> HIDE DEF all
  <1> QED BY <1>3, <1>4 DEF flushFilterPages, resizeBloomFilter, all

\* A buffer installed by GenericWriter.Write keeps the type and the page buffer.
LEMMA NewColumnBufferType ==
  ASSUME NEW c \in ColumnWriterState
  PROVE  /\ newColumnBuffer(c) \in ColumnWriterState
         /\ newColumnBuffer(c).pageBuffer = c.pageBuffer
  <1>1. << >> \in Seq(Row)
    OBVIOUS
  <1> QED BY <1>1 DEF newColumnBuffer, ColumnWriterState

\* A new column writer, and one that was reset, have no page buffer.
LEMMA ResetColumnType ==
  /\ NewColumnWriter \in ColumnWriterState /\ NewColumnWriter.pageBuffer = 0
  /\ \A c \in ColumnWriterState :
       resetColumn(c) \in ColumnWriterState /\ resetColumn(c).pageBuffer = 0
  <1>1. << >> \in Seq(Row) /\ << >> \in Seq(Page) /\ << >> \in Seq(PageLocation)
    OBVIOUS
  <1>2. NoFilter \in Filter
    BY DEF NoFilter, Filter
  <1>3. NewColumnWriter \in ColumnWriterState /\ NewColumnWriter.pageBuffer = 0
    BY <1>1, <1>2 DEF NewColumnWriter, ColumnWriterState
  <1>4. ASSUME NEW c \in ColumnWriterState
        PROVE  resetColumn(c) \in ColumnWriterState /\ resetColumn(c).pageBuffer = 0
    <2>1. resetColumnBuffer(c) \in ColumnWriterState
      BY <1>1 DEF resetColumnBuffer, ColumnWriterState
    <2>2. /\ putPageBuffer(resetColumnBuffer(c)) \in ColumnWriterState
          /\ putPageBuffer(resetColumnBuffer(c)).pageBuffer = 0
      <3> HIDE DEF resetColumnBuffer
      <3> QED BY <1>1, <2>1 DEF putPageBuffer, ColumnWriterState
    <2> HIDE DEF resetColumnBuffer, putPageBuffer
    <2> QED BY <1>1, <1>2, <2>2 DEF resetColumn, ColumnWriterState
  <1> QED BY <1>3, <1>4

\* Products and quotients of naturals.
LEMMA NatArithmetic ==
  /\ \A a, b \in Nat : a * b \in Nat
  /\ \A a \in Nat, b \in Nat \ {0} : a \div b \in Nat
  OBVIOUS

\* The pages of a source chunk: each holds rows and starts at a natural.
LEMMA SourcePagesType ==
  ASSUME NEW rows \in Seq(Row), NEW n \in Nat \ {0}
  PROVE  /\ SourcePageCount(rows, n) \in Nat
         /\ \A i \in 1 .. SourcePageCount(rows, n) :
              /\ SourcePageRows(rows, n, i) \in Seq(Row)
              /\ PageSize(SourcePageRows(rows, n, i)) \in Nat
              /\ (i - 1) * (HeaderSize + n) \in Nat
              /\ (i - 1) * n \in Nat
  <1>1. SourcePageCount(rows, n) \in Nat
    BY NatArithmetic DEF SourcePageCount
  <1>2. ASSUME NEW i \in 1 .. SourcePageCount(rows, n)
        PROVE  /\ SourcePageRows(rows, n, i) \in Seq(Row)
               /\ PageSize(SourcePageRows(rows, n, i)) \in Nat
               /\ (i - 1) * (HeaderSize + n) \in Nat
               /\ (i - 1) * n \in Nat
    <2>1. i \in Nat /\ i - 1 \in Nat /\ HeaderSize \in Nat /\ HeaderSize + n \in Nat
      BY <1>1, ColumnAssumption
    <2>2. (i - 1) * n \in Nat /\ (i - 1) * (HeaderSize + n) \in Nat /\ i * n \in Nat
      BY <2>1, NatArithmetic
    <2> DEFINE first == (i - 1) * n + 1
               last == Lesser(i * n, Len(rows))
    <2>3. first \in Nat \ {0} /\ last \in Nat /\ last <= Len(rows)
      BY <2>2 DEF Lesser
    <2>4. SubSeq(rows, first, last) \in Seq(Row)
      <3> HIDE DEF first, last
      <3> QED BY <2>3
    <2>5. SourcePageRows(rows, n, i) \in Seq(Row)
      BY <2>4 DEF SourcePageRows
    <2> QED BY <2>1, <2>2, <2>5 DEF PageSize
  <1> QED BY <1>1, <1>2

\* A chunk staged for a verbatim copy keeps the type and the page buffer.
LEMMA LoadCopiedChunkType ==
  ASSUME NEW c \in ColumnWriterState, NEW k \in Columns, NEW rows \in Seq(Row),
         NEW n \in Nat \ {0}, NEW base \in Nat
  PROVE  /\ loadCopiedChunk(c, k, SourceChunk(k, rows, n, base)) \in ColumnWriterState
         /\ loadCopiedChunk(c, k, SourceChunk(k, rows, n, base)).pageBuffer = c.pageBuffer
  <1> DEFINE src == SourceChunk(k, rows, n, base)
             dict == IF k \in DictionaryColumns
                       THEN HeaderSize + Cardinality(ValuesOf(k, rows)) ELSE 0
             count == SourcePageCount(rows, n)
             encoding == IF k \in DictionaryColumns THEN "RLE_DICTIONARY" ELSE "PLAIN"
             size(i) == PageSize(SourcePageRows(rows, n, i))
             at(i) == (i - 1) * (HeaderSize + n)
             page(i) == [rows |-> SourcePageRows(rows, n, i), encoding |-> encoding,
                         at |-> at(i), size |-> size(i)]
             loc(i) == [offset |-> base + dict + at(i), size |-> size(i),
                        firstRow |-> (i - 1) * n]
             dictLength == IF src.dictionaryPageOffset = 0 THEN 0
                           ELSE src.dataPageOffset - src.dictionaryPageOffset
             locations == RelativeLocations(src)
             filter == IF k \in FilterColumns THEN [allocated |-> TRUE, values |-> src.values]
                       ELSE c.filter
             dictionary == IF dictLength = 0 THEN {} ELSE src.values
             bytes == src.totalCompressedSize - dictLength
  <1>1. dict \in Nat
    BY ValuesOfType, ValueAssumption, FS_Subset, FS_CardinalityType, ColumnAssumption
  <1>2. /\ count \in Nat
        /\ \A i \in 1 .. count : /\ SourcePageRows(rows, n, i) \in Seq(Row)
                                 /\ size(i) \in Nat /\ at(i) \in Nat /\ (i - 1) * n \in Nat
    BY SourcePagesType
  <1>3. count * HeaderSize \in Nat
    BY <1>2, NatArithmetic, ColumnAssumption
  <1>4. /\ src.dictionaryPageOffset = IF dict = 0 THEN 0 ELSE base
        /\ src.dataPageOffset = base + dict
        /\ src.totalCompressedSize = dict + count * HeaderSize + Len(rows)
        /\ src.pages = [i \in 1 .. count |-> page(i)]
        /\ src.locations = [i \in 1 .. count |-> loc(i)]
        /\ src.numRows = Len(rows)
        /\ src.values = ValuesOf(k, rows)
    BY DEF SourceChunk
  <1>5. src.pages \in Seq(Page)
    <2>1. ASSUME NEW i \in 1 .. count PROVE page(i) \in Page
      <3> HIDE DEF size, at, count
      <3> QED BY <1>2 DEF Page
    <2> HIDE DEF page, count
    <2> QED BY <1>2, <1>4, <2>1
  <1>6. locations \in Seq(PageLocation)
    <2> DEFINE rel(i) == [loc(i) EXCEPT !.offset = @ - src.dataPageOffset]
    <2>1. ASSUME NEW i \in 1 .. count
          PROVE  rel(i) \in PageLocation
      <3>1. loc(i).offset - src.dataPageOffset = at(i)
        <4> HIDE DEF dict, at, src
        <4> QED BY <1>1, <1>2, <1>4
      <3>2. rel(i) = [offset |-> at(i), size |-> size(i), firstRow |-> (i - 1) * n]
        <4> HIDE DEF dict, at, src, size
        <4> QED BY <3>1
      <3> HIDE DEF rel, loc, at, size, src
      <3> QED BY <1>2, <3>2 DEF PageLocation
    <2>2. locations = [i \in 1 .. count |-> rel(i)]
      <3> HIDE DEF loc, count, src
      <3> QED BY <1>2, <1>4 DEF RelativeLocations
    <2> HIDE DEF rel, count, locations
    <2> QED BY <1>2, <2>1, <2>2
  <1>7. /\ filter \in Filter /\ dictionary \in SUBSET Value
        /\ bytes \in Nat /\ src.totalCompressedSize \in Nat /\ src.numRows \in Nat
    <2>1. src.values \in SUBSET Value
      BY <1>4, ValuesOfType
    <2>2. filter \in Filter
      <3> HIDE DEF src
      <3> QED BY <2>1 DEF Filter, ColumnWriterState
    <2>3. dictLength \in Nat /\ dictLength <= dict
      <3> HIDE DEF src, dict
      <3> QED BY <1>1, <1>4
    <2>4. bytes \in Nat /\ src.totalCompressedSize \in Nat /\ src.numRows \in Nat
      <3> HIDE DEF src, dict, dictLength, count
      <3> QED BY <1>1, <1>3, <1>4, <2>3
    <2> QED BY <2>1, <2>2, <2>4
  <1> DEFINE r == [c EXCEPT !.copied = TRUE, !.pages = src.pages, !.pageBytes = bytes,
                            !.dictionary = dictionary, !.locations = locations,
                            !.numRows = src.numRows,
                            !.totalCompressedSize = src.totalCompressedSize, !.filter = filter]
  <1>8. loadCopiedChunk(c, k, src) = r
    <2> HIDE DEF src
    <2> QED BY DEF loadCopiedChunk
  <1>9. r \in ColumnWriterState /\ r.pageBuffer = c.pageBuffer
    <2> HIDE DEF src, bytes, dictionary, locations, filter
    <2> QED BY <1>5, <1>6, <1>7 DEF ColumnWriterState
  <1> HIDE DEF r
  <1> QED BY <1>8, <1>9

-----------------------------------------------------------------------------
(* What a column writer holds. *)

\* The rows of its encoded pages, then those of its buffer.
PageRows(c) == [j \in 1 .. Len(c.pages) |-> c.pages[j].rows]
EncodedRows(c) == FlattenSeq(PageRows(c))
ColumnRows(c) == EncodedRows(c) \o Buffered(c)

\* The pages follow each other in the page buffer.
LaidOut(c) ==
  \A i \in 1 .. Len(c.pages) :
    /\ c.pages[i].size = PageSize(c.pages[i].rows)
    /\ c.pages[i].at + c.pages[i].size <= c.pageBytes
    /\ \A j \in 1 .. Len(c.pages) : i < j => c.pages[i].at + c.pages[i].size <= c.pages[j].at

\* The offset index describes the pages, and the next entry will too.
Indexed(c) ==
  /\ Len(c.locations) = Len(c.pages)
  /\ \A j \in 1 .. Len(c.pages) :
       /\ c.locations[j].offset = c.pages[j].at
       /\ c.locations[j].size = c.pages[j].size
       /\ c.locations[j].firstRow = Len(FlattenSeq(SubSeq(PageRows(c), 1, j - 1)))
  /\ c.totalCompressedSize = c.pageBytes \/ (c.copied /\ Buffered(c) = << >>)

\* The dictionary has the values of the indexes in pages and in the buffer.
Covered(c, k) ==
  /\ \A j \in 1 .. Len(c.pages) :
       c.pages[j].encoding = "RLE_DICTIONARY" =>
         k \in DictionaryColumns /\ ValuesOf(k, c.pages[j].rows) \subseteq c.dictionary
  /\ (k \in DictionaryColumns /\ c.columnBuffer = "original") =>
       ValuesOf(k, c.original) \subseteq c.dictionary

\* The row count is that of the pages, and the flags tell the state of the buffers.
BuffersFit(c) ==
  /\ c.numRows = Len(EncodedRows(c))
  /\ c.columnBuffer = "nil" => c.original = << >>
  /\ c.columnBuffer = "plain" => c.hasSwitchedToPlain
  /\ c.hasSwitchedToPlain => DictionaryMaxBytes > 0

\* The buffer of the fallback is empty until the fallback.
PlainFits(c) == c.columnBuffer # "plain" => c.plain = << >>

\* A column writer with nothing in it.
Blank(c) ==
  /\ c.pages = << >> /\ c.pageBytes = 0 /\ c.locations = << >> /\ c.numRows = 0
  /\ c.totalCompressedSize = 0 /\ c.dictionary = {} /\ c.original = << >>
  /\ c.columnBuffer # "plain" /\ ~c.hasSwitchedToPlain /\ ~c.copied /\ c.filter = NoFilter

\* d has the pages of c and what describes them.
SamePages(c, d) ==
  /\ d.pages = c.pages /\ d.pageBytes = c.pageBytes /\ d.locations = c.locations
  /\ d.numRows = c.numRows /\ d.totalCompressedSize = c.totalCompressedSize
  /\ d.copied = c.copied

\* d has the buffers of c too.
SameButFilter(c, d) ==
  /\ SamePages(c, d)
  /\ d.columnBuffer = c.columnBuffer /\ d.original = c.original /\ d.plain = c.plain
  /\ d.hasSwitchedToPlain = c.hasSwitchedToPlain /\ d.dictionary = c.dictionary

\* Concatenation of rows.
LEMMA RowsAssociative ==
  \A s, t, u \in Seq(Row) : (s \o t) \o u = s \o (t \o u)
  BY ConcatAssociative

\* The rows of pages.
LEMMA PageRowsType ==
  ASSUME NEW c \in ColumnWriterState
  PROVE  /\ PageRows(c) \in Seq(Seq(Row)) /\ Len(PageRows(c)) = Len(c.pages)
         /\ EncodedRows(c) \in Seq(Row) /\ ColumnRows(c) \in Seq(Row)
         /\ Len(ColumnRows(c)) = Len(EncodedRows(c)) + Len(Buffered(c))
         /\ \A j \in 1 .. Len(c.pages) : c.pages[j] \in Page /\ c.pages[j].rows \in Seq(Row)
  <1>1. c.pages \in Seq(Page) /\ Len(c.pages) \in Nat
    BY DEF ColumnWriterState
  <1>2. \A j \in 1 .. Len(c.pages) : c.pages[j] \in Page /\ c.pages[j].rows \in Seq(Row)
    <2>1. \A j \in 1 .. Len(c.pages) : c.pages[j] \in Page
      BY <1>1
    <2> QED BY <2>1 DEF Page
  <1>3. PageRows(c) \in Seq(Seq(Row)) /\ Len(PageRows(c)) = Len(c.pages)
    BY <1>1, <1>2 DEF PageRows
  <1>4. EncodedRows(c) \in Seq(Row)
    BY <1>3, FlattenSeqRecursion DEF EncodedRows
  <1> QED BY <1>2, <1>3, <1>4, BufferedType, ConcatProperties DEF ColumnRows

\* Predicates on pages do not depend on the rest.
LEMMA SamePagesSame ==
  ASSUME NEW c, NEW d, SamePages(c, d)
  PROVE  /\ PageRows(d) = PageRows(c) /\ EncodedRows(d) = EncodedRows(c)
         /\ LaidOut(c) => LaidOut(d)
         /\ (Indexed(c) /\ (c.copied => Buffered(d) = << >>)) => Indexed(d)
  <1>1. PageRows(d) = PageRows(c)
    BY DEF SamePages, PageRows
  <1>2. LaidOut(c) => LaidOut(d)
    BY DEF SamePages, LaidOut
  <1>3. (Indexed(c) /\ (c.copied => Buffered(d) = << >>)) => Indexed(d)
    BY <1>1 DEF SamePages, Indexed
  <1> QED BY <1>1, <1>2, <1>3 DEF EncodedRows

\* None depends on the filter.
LEMMA SameButFilterSame ==
  ASSUME NEW c, NEW d, NEW k, SameButFilter(c, d)
  PROVE  /\ Buffered(d) = Buffered(c) /\ ColumnRows(d) = ColumnRows(c)
         /\ EncodedRows(d) = EncodedRows(c)
         /\ LaidOut(c) => LaidOut(d)
         /\ Indexed(c) => Indexed(d)
         /\ Covered(c, k) => Covered(d, k)
         /\ BuffersFit(c) => BuffersFit(d)
         /\ PlainFits(c) => PlainFits(d)
  <1>1. SamePages(c, d) /\ Buffered(d) = Buffered(c)
    BY DEF SameButFilter, Buffered
  <1>2. PageRows(d) = PageRows(c) /\ EncodedRows(d) = EncodedRows(c)
    BY <1>1, SamePagesSame
  <1>3. Covered(c, k) => Covered(d, k)
    BY DEF SameButFilter, SamePages, Covered
  <1>4. (BuffersFit(c) => BuffersFit(d)) /\ (PlainFits(c) => PlainFits(d))
    BY <1>2 DEF SameButFilter, SamePages, BuffersFit, PlainFits
  <1>5. Indexed(c) => Indexed(d)
    BY <1>1, <1>2 DEF SamePages, Indexed
  <1> QED BY <1>1, <1>2, <1>3, <1>4, <1>5, SamePagesSame DEF ColumnRows

-----------------------------------------------------------------------------
(* What the methods do to the rows. *)

\* Writing values appends the rows to the buffer.
LEMMA WriteValuesRows ==
  ASSUME NEW c \in ColumnWriterState, NEW k \in Columns, NEW rows \in Seq(Row),
         BuffersFit(c)
  PROVE  LET d == WriteValues(c, k, rows)
         IN  /\ SamePages(c, d) /\ d.filter = c.filter
             /\ Buffered(d) = Buffered(c) \o rows
             /\ ColumnRows(d) = ColumnRows(c) \o rows
             /\ EncodedRows(d) = EncodedRows(c)
             /\ LaidOut(c) => LaidOut(d)
             /\ (Indexed(c) /\ ~c.copied) => Indexed(d)
             /\ Covered(c, k) => Covered(d, k)
             /\ BuffersFit(d)
             /\ PlainFits(c) => PlainFits(d)
  <1> DEFINE d == WriteValues(c, k, rows)
  <1>1. c.original \in Seq(Row) /\ c.plain \in Seq(Row) /\ Buffered(c) \in Seq(Row)
    BY BufferedType DEF ColumnWriterState
  <1>2. /\ SamePages(c, d) /\ d.filter = c.filter
        /\ d.hasSwitchedToPlain = c.hasSwitchedToPlain
    BY DEF WriteValues, SamePages, ColumnWriterState
  <1>3. IF c.columnBuffer = "plain"
          THEN /\ d.columnBuffer = "plain" /\ d.plain = c.plain \o rows
               /\ d.original = c.original /\ d.dictionary = c.dictionary
          ELSE /\ d.columnBuffer = "original" /\ d.original = c.original \o rows
               /\ d.plain = c.plain
               /\ d.dictionary = IF k \in DictionaryColumns
                                   THEN c.dictionary \cup ValuesOf(k, rows) ELSE c.dictionary
    BY DEF WriteValues, ColumnWriterState
  <1> HIDE DEF d
  <1>4. Buffered(d) = Buffered(c) \o rows
    <2>1. CASE c.columnBuffer = "plain"
      BY <1>3, <2>1 DEF Buffered
    <2>2. CASE c.columnBuffer = "original"
      BY <1>3, <2>2 DEF Buffered
    <2>3. CASE c.columnBuffer = "nil"
      BY <1>3, <2>3 DEF BuffersFit, Buffered
    <2> QED BY <2>1, <2>2, <2>3 DEF ColumnWriterState
  <1>5. EncodedRows(d) = EncodedRows(c) /\ (LaidOut(c) => LaidOut(d))
    BY <1>2, SamePagesSame
  <1>6. ColumnRows(d) = ColumnRows(c) \o rows
    <2>1. EncodedRows(c) \in Seq(Row)
      BY PageRowsType
    <2>2. (EncodedRows(c) \o Buffered(c)) \o rows = EncodedRows(c) \o (Buffered(c) \o rows)
      BY <1>1, <2>1, RowsAssociative
    <2> QED BY <1>4, <1>5, <2>2 DEF ColumnRows
  <1>7. (Indexed(c) /\ ~c.copied) => Indexed(d)
    BY <1>2, SamePagesSame
  <1>8. Covered(c, k) => Covered(d, k)
    <2>1. SUFFICES ASSUME Covered(c, k) PROVE Covered(d, k)
      OBVIOUS
    <2>2. c.dictionary \subseteq d.dictionary
      BY <1>3
    <2>3. CASE c.columnBuffer = "plain"
      BY <1>2, <1>3, <2>1, <2>3 DEF Covered, SamePages
    <2>4. CASE c.columnBuffer # "plain"
      <3>1. k \in DictionaryColumns => ValuesOf(k, d.original) \subseteq d.dictionary
        <4>1. SUFFICES ASSUME k \in DictionaryColumns
                       PROVE  ValuesOf(k, c.original \o rows) \subseteq c.dictionary \cup ValuesOf(k, rows)
          BY <1>3, <2>4
        <4>2. ValuesOf(k, c.original) \subseteq c.dictionary
          BY <2>1, <2>4, <4>1 DEF Covered, BuffersFit, ColumnWriterState, ValuesOf
        <4>3. ASSUME NEW i \in 1 .. Len(c.original \o rows)
              PROVE  ValueOf(k, (c.original \o rows)[i]) \in ValuesOf(k, c.original) \cup ValuesOf(k, rows)
          <5>1. CASE i <= Len(c.original)
            BY <1>1, <5>1 DEF ValuesOf
          <5>2. CASE ~(i <= Len(c.original))
            <6>1. /\ i - Len(c.original) \in 1 .. Len(rows)
                  /\ (c.original \o rows)[i] = rows[i - Len(c.original)]
              BY <1>1, <5>2
            <6> QED BY <6>1 DEF ValuesOf
          <5> QED BY <5>1, <5>2
        <4> QED BY <4>2, <4>3 DEF ValuesOf
      <3> QED BY <1>2, <2>1, <2>2, <3>1 DEF Covered, SamePages
    <2> QED BY <2>3, <2>4
  <1>9. BuffersFit(d)
    BY <1>2, <1>3, <1>5 DEF BuffersFit, SamePages
  <1>10. PlainFits(c) => PlainFits(d)
    BY <1>3 DEF PlainFits
  <1> QED BY <1>2, <1>4, <1>5, <1>6, <1>7, <1>8, <1>9, <1>10 DEF d

\* The page and the location that writeDataPage adds.
NewPage(c, k, rows) ==
  [rows |-> rows, encoding |-> PageEncoding(c, k), at |-> c.pageBytes, size |-> PageSize(rows)]
NewLocation(c, rows) ==
  [offset |-> c.totalCompressedSize, size |-> PageSize(rows), firstRow |-> c.numRows]

\* What writeDataPage makes of the fields.
LEMMA WriteDataPageFields ==
  ASSUME NEW c \in ColumnWriterState, NEW k \in Columns, NEW rows \in Seq(Row), NEW id \in Nat
  PROVE  LET r == writeDataPage(c, k, rows, id)
         IN  /\ r.pages = Append(c.pages, NewPage(c, k, rows))
             /\ r.locations = Append(c.locations, NewLocation(c, rows))
             /\ r.pageBytes = c.pageBytes + PageSize(rows)
             /\ r.numRows = c.numRows + Len(rows)
             /\ r.totalCompressedSize = c.totalCompressedSize + PageSize(rows)
             /\ r.copied = c.copied /\ r.filter = writePageToFilter(c, k, rows)
             /\ r.columnBuffer = c.columnBuffer /\ r.original = c.original /\ r.plain = c.plain
             /\ r.hasSwitchedToPlain = c.hasSwitchedToPlain /\ r.dictionary = c.dictionary
             /\ PageSize(rows) \in Nat \ {0}
  <1> DEFINE ps == Append(c.pages, NewPage(c, k, rows))
             ls == Append(c.locations, NewLocation(c, rows))
             b == IF c.pageBuffer = 0 THEN id ELSE c.pageBuffer
             bytes == c.pageBytes + PageSize(rows)
             total == c.totalCompressedSize + PageSize(rows)
             num == c.numRows + Len(rows)
             f == writePageToFilter(c, k, rows)
             r == [c EXCEPT !.pageBuffer = b, !.pages = ps, !.pageBytes = bytes,
                            !.locations = ls, !.numRows = num,
                            !.totalCompressedSize = total, !.filter = f]
  <1>1. writeDataPage(c, k, rows, id) = r
    BY DEF writeDataPage, NewPage, NewLocation
  <1>2. /\ r.pages = ps /\ r.locations = ls /\ r.pageBytes = bytes /\ r.numRows = num
        /\ r.totalCompressedSize = total /\ r.copied = c.copied /\ r.filter = f
        /\ r.columnBuffer = c.columnBuffer /\ r.original = c.original /\ r.plain = c.plain
        /\ r.hasSwitchedToPlain = c.hasSwitchedToPlain /\ r.dictionary = c.dictionary
    <2> HIDE DEF ps, ls, b, bytes, total, num, f
    <2> QED BY DEF ColumnWriterState
  <1>3. PageSize(rows) \in Nat \ {0}
    BY ColumnAssumption DEF PageSize
  <1> HIDE DEF r
  <1> QED BY <1>1, <1>2, <1>3

\* A page is encoded: its rows follow those of the earlier pages, its bytes
\* follow theirs, and its location says where.
LEMMA WriteDataPageRows ==
  ASSUME NEW c \in ColumnWriterState, NEW k \in Columns, NEW rows \in Seq(Row), NEW id \in Nat
  PROVE  LET r == writeDataPage(c, k, rows, id)
         IN  /\ EncodedRows(r) = EncodedRows(c) \o rows
             /\ LaidOut(c) => LaidOut(r)
             /\ (Indexed(c) /\ ~c.copied /\ c.numRows = Len(EncodedRows(c))) => Indexed(r)
             /\ c.numRows = Len(EncodedRows(c)) => r.numRows = Len(EncodedRows(r))
  <1> DEFINE r == writeDataPage(c, k, rows, id)
             page == NewPage(c, k, rows)
             loc == NewLocation(c, rows)
             n == Len(c.pages)
  <1>1. /\ r.pages = Append(c.pages, page) /\ r.locations = Append(c.locations, loc)
        /\ r.pageBytes = c.pageBytes + PageSize(rows) /\ r.numRows = c.numRows + Len(rows)
        /\ r.totalCompressedSize = c.totalCompressedSize + PageSize(rows)
        /\ PageSize(rows) \in Nat \ {0}
    <2> HIDE DEF r
    <2> QED BY WriteDataPageFields DEF r
  <1> HIDE DEF r
  <1>2. /\ c.pages \in Seq(Page) /\ n \in Nat /\ c.locations \in Seq(PageLocation)
        /\ c.pageBytes \in Nat /\ c.numRows \in Nat /\ c.totalCompressedSize \in Nat
    BY DEF ColumnWriterState
  <1>3. page \in Page /\ loc \in PageLocation
    BY <1>1, <1>2 DEF PageEncoding, Page, PageLocation, NewPage, NewLocation
  <1> HIDE DEF page, loc
  <1>4. /\ r.pages \in Seq(Page) /\ Len(r.pages) = n + 1 /\ r.pages[n + 1] = page
        /\ \A j \in 1 .. n : r.pages[j] = c.pages[j]
    BY <1>1, <1>2, <1>3, AppendProperties
  <1>5. PageRows(c) \in Seq(Seq(Row)) /\ Len(PageRows(c)) = n /\ EncodedRows(c) \in Seq(Row)
    BY PageRowsType
  <1>6. PageRows(r) = Append(PageRows(c), rows)
    <2> DEFINE s == PageRows(r)
               t == Append(PageRows(c), rows)
    <2>1. t \in Seq(Seq(Row)) /\ Len(t) = n + 1 /\ t[n + 1] = rows
          /\ \A j \in 1 .. n : t[j] = PageRows(c)[j]
      BY <1>5, AppendProperties
    <2>2. \A j \in 1 .. n : PageRows(c)[j] = c.pages[j].rows
      BY DEF PageRows
    <2>3. s = [j \in 1 .. n + 1 |-> r.pages[j].rows]
      BY <1>4 DEF PageRows
    <2>4. page.rows = rows
      BY DEF page, NewPage
    <2> HIDE DEF t
    <2>5. ASSUME NEW j \in 1 .. n + 1 PROVE t[j] = r.pages[j].rows
      <3>1. CASE j = n + 1
        BY <1>4, <2>1, <2>4, <3>1
      <3>2. CASE j # n + 1
        <4>1. j \in 1 .. n
          BY <1>2, <3>2
        <4> QED BY <1>4, <2>1, <2>2, <4>1
      <3> QED BY <3>1, <3>2
    <2>6. t = [j \in 1 .. n + 1 |-> t[j]]
      BY <2>1
    <2>7. s = t
      BY <2>3, <2>5, <2>6
    <2> QED BY <2>7 DEF t
  <1>7. EncodedRows(r) = EncodedRows(c) \o rows
    BY <1>5, <1>6, FlattenSeqRecursion DEF EncodedRows
  <1>8. Len(EncodedRows(r)) = Len(EncodedRows(c)) + Len(rows)
    BY <1>5, <1>7, ConcatProperties
  <1>9. page.at = c.pageBytes /\ page.size = PageSize(rows) /\ page.rows = rows
    BY DEF page, NewPage
  <1>10. ASSUME LaidOut(c) PROVE LaidOut(r)
    <2>1. \A j \in 1 .. n : c.pages[j].at \in Nat /\ c.pages[j].size \in Nat
      BY PageRowsType DEF Page
    <2> DEFINE z == PageSize(rows)
    <2>3. z \in Nat /\ c.pageBytes \in Nat /\ r.pageBytes = c.pageBytes + z
      BY <1>1, <1>2
    <2>4. page.at = c.pageBytes /\ page.size = z /\ z = PageSize(page.rows)
      BY <1>9
    <2> HIDE DEF z
    <2>5. page.at + page.size <= r.pageBytes
      BY <2>3, <2>4
    <2>2. ASSUME NEW i \in 1 .. n + 1
          PROVE  /\ r.pages[i].size = PageSize(r.pages[i].rows)
                 /\ r.pages[i].at + r.pages[i].size <= r.pageBytes
                 /\ \A j \in 1 .. n + 1 : i < j => r.pages[i].at + r.pages[i].size <= r.pages[j].at
      <3>1. CASE i = n + 1
        BY <1>2, <1>4, <2>4, <2>5, <3>1
      <3>2. CASE i # n + 1
        <4>1. i \in 1 .. n
          BY <1>2, <3>2
        <4>2. /\ r.pages[i] = c.pages[i] /\ c.pages[i].size = PageSize(c.pages[i].rows)
              /\ c.pages[i].at + c.pages[i].size <= c.pageBytes
              /\ \A j \in 1 .. n : i < j => c.pages[i].at + c.pages[i].size <= c.pages[j].at
          BY <1>4, <1>10, <4>1 DEF LaidOut
        <4>3. c.pages[i].at + c.pages[i].size <= r.pageBytes
          BY <2>1, <2>3, <4>1, <4>2
        <4>4. ASSUME NEW j \in 1 .. n + 1, i < j
              PROVE  c.pages[i].at + c.pages[i].size <= r.pages[j].at
          <5>1. CASE j = n + 1
            BY <1>4, <1>9, <4>2, <5>1
          <5>2. CASE j # n + 1
            <6>1. j \in 1 .. n
              BY <1>2, <5>2
            <6> QED BY <1>4, <4>2, <4>4, <6>1
          <5> QED BY <5>1, <5>2
        <4> QED BY <4>2, <4>3, <4>4
      <3> QED BY <3>1, <3>2
    <2> QED BY <1>4, <2>2 DEF LaidOut
  <1>11. ASSUME Indexed(c), ~c.copied, c.numRows = Len(EncodedRows(c)) PROVE Indexed(r)
    <2>1. Len(c.locations) = n /\ c.totalCompressedSize = c.pageBytes
      BY <1>11 DEF Indexed
    <2>2. /\ Len(r.locations) = n + 1 /\ r.locations[n + 1] = loc
          /\ \A j \in 1 .. n : r.locations[j] = c.locations[j]
      BY <1>1, <1>2, <1>3, <2>1, AppendProperties
    <2>3. loc.offset = c.totalCompressedSize /\ loc.size = PageSize(rows) /\ loc.firstRow = c.numRows
      BY DEF loc, NewLocation
    <2>4. \A j \in 1 .. n + 1 : SubSeq(PageRows(r), 1, j - 1) = SubSeq(PageRows(c), 1, j - 1)
      BY <1>2, <1>5, <1>6, PrefixOfAppend
    <2>5. SubSeq(PageRows(c), 1, (n + 1) - 1) = PageRows(c)
      BY <1>2, <1>5, SubSeqFull
    <2>6. ASSUME NEW j \in 1 .. n + 1
          PROVE  /\ r.locations[j].offset = r.pages[j].at
                 /\ r.locations[j].size = r.pages[j].size
                 /\ r.locations[j].firstRow = Len(FlattenSeq(SubSeq(PageRows(r), 1, j - 1)))
      <3>1. CASE j = n + 1
        BY <1>4, <1>9, <1>11, <2>1, <2>2, <2>3, <2>4, <2>5, <3>1 DEF EncodedRows
      <3>2. CASE j # n + 1
        <4>1. j \in 1 .. n
          BY <1>2, <3>2
        <4> QED BY <1>4, <1>11, <2>2, <2>4, <4>1 DEF Indexed
      <3> QED BY <3>1, <3>2
    <2> QED BY <1>1, <1>4, <2>1, <2>2, <2>6 DEF Indexed
  <1> QED BY <1>1, <1>7, <1>8, <1>10, <1>11 DEF r

\* Emptying the current buffer.
LEMMA ResetBufferRows ==
  ASSUME NEW c \in ColumnWriterState
  PROVE  LET d == ResetBuffer(c)
         IN  /\ SamePages(c, d) /\ d.filter = c.filter /\ d.dictionary = c.dictionary
             /\ d.columnBuffer = c.columnBuffer /\ d.hasSwitchedToPlain = c.hasSwitchedToPlain
             /\ d.columnBuffer # "plain" => d.plain = c.plain /\ d.original = << >>
             /\ d.columnBuffer = "plain" => d.original = c.original /\ d.plain = << >>
             /\ Buffered(d) = << >>
  <1> DEFINE d == ResetBuffer(c)
  <1>1. /\ SamePages(c, d) /\ d.filter = c.filter /\ d.dictionary = c.dictionary
        /\ d.columnBuffer = c.columnBuffer /\ d.hasSwitchedToPlain = c.hasSwitchedToPlain
        /\ d.columnBuffer # "plain" => d.plain = c.plain /\ d.original = << >>
        /\ d.columnBuffer = "plain" => d.original = c.original /\ d.plain = << >>
    BY DEF ResetBuffer, SamePages, ColumnWriterState
  <1> HIDE DEF d
  <1>2. Buffered(d) = << >>
    BY <1>1 DEF Buffered
  <1> QED BY <1>1, <1>2 DEF d

\* Flush moves the rows of the buffer to a page, and none is lost.
LEMMA FlushColumnRows ==
  ASSUME NEW c \in ColumnWriterState, NEW k \in Columns, NEW id \in Nat,
         BuffersFit(c), PlainFits(c)
  PROVE  LET d == FlushColumn(c, k, id)
         IN  /\ Buffered(d) = << >>
             /\ ColumnRows(d) = ColumnRows(c) /\ EncodedRows(d) = ColumnRows(c)
             /\ d.copied = c.copied
             /\ LaidOut(c) => LaidOut(d)
             /\ (Indexed(c) /\ (c.copied => Buffered(c) = << >>)) => Indexed(d)
             /\ Covered(c, k) => Covered(d, k)
             /\ BuffersFit(d) /\ PlainFits(d)
  <1> DEFINE d == FlushColumn(c, k, id)
  <1>1. CASE Buffered(c) = << >>
    <2>1. d = c
      BY <1>1 DEF FlushColumn
    <2>2. ColumnRows(c) = EncodedRows(c)
      BY <1>1, PageRowsType, ConcatEmptySeq DEF ColumnRows
    <2> HIDE DEF d
    <2> QED BY <1>1, <2>1, <2>2 DEF d
  <1>2. CASE Buffered(c) # << >>
    <2>1. PICK rows \in Seq(Row) : rows = Buffered(c)
      BY BufferedType
    <2> DEFINE w == writeDataPage(c, k, rows, id)
               e == ResetBuffer(w)
    <2>2. w \in ColumnWriterState
      BY WriteDataPageType
    <2>3. /\ w.columnBuffer = c.columnBuffer /\ w.original = c.original /\ w.plain = c.plain
          /\ w.hasSwitchedToPlain = c.hasSwitchedToPlain /\ w.dictionary = c.dictionary
          /\ w.copied = c.copied
          /\ w.pages = Append(c.pages, NewPage(c, k, rows))
      BY WriteDataPageFields
    <2>4. /\ EncodedRows(w) = EncodedRows(c) \o rows
          /\ LaidOut(c) => LaidOut(w)
          /\ (Indexed(c) /\ ~c.copied /\ c.numRows = Len(EncodedRows(c))) => Indexed(w)
          /\ c.numRows = Len(EncodedRows(c)) => w.numRows = Len(EncodedRows(w))
      <3> HIDE DEF w
      <3> QED BY WriteDataPageRows DEF w
    <2> HIDE DEF w
    <2>5. /\ e \in ColumnWriterState /\ SamePages(w, e) /\ e.dictionary = w.dictionary
          /\ e.columnBuffer = w.columnBuffer /\ e.hasSwitchedToPlain = w.hasSwitchedToPlain
          /\ e.columnBuffer # "plain" => e.plain = w.plain /\ e.original = << >>
          /\ e.columnBuffer = "plain" => e.original = w.original /\ e.plain = << >>
          /\ Buffered(e) = << >>
      BY <2>2, ResetBufferType, ResetBufferRows
    <2>6. d = IF DictionaryTooLarge(c, k) THEN fallbackDictionaryToPlain(e) ELSE e
      BY <1>2, <2>1 DEF FlushColumn, w
    <2> HIDE DEF d, e
    <2>7. /\ SamePages(w, d) /\ d.dictionary = c.dictionary /\ d.plain = e.plain
          /\ d.original = e.original
          /\ IF DictionaryTooLarge(c, k) THEN d.columnBuffer = "plain" /\ d.hasSwitchedToPlain
             ELSE d.columnBuffer = c.columnBuffer /\ d.hasSwitchedToPlain = c.hasSwitchedToPlain
      <3>1. CASE DictionaryTooLarge(c, k)
        BY <2>3, <2>5, <2>6, <3>1 DEF fallbackDictionaryToPlain, SamePages, ColumnWriterState
      <3>2. CASE ~DictionaryTooLarge(c, k)
        BY <2>3, <2>5, <2>6, <3>2
      <3> QED BY <3>1, <3>2
    <2>8. d.plain = << >>
      BY <2>3, <2>5, <2>7 DEF PlainFits
    <2>9. Buffered(d) = << >>
      <3>1. CASE d.columnBuffer = "plain"
        BY <2>8, <3>1 DEF Buffered
      <3>2. CASE d.columnBuffer # "plain"
        BY <2>3, <2>5, <2>7, <3>2 DEF Buffered
      <3> QED BY <3>1, <3>2
    <2>10. EncodedRows(d) = ColumnRows(c) /\ (LaidOut(c) => LaidOut(d))
      BY <2>1, <2>4, <2>7, SamePagesSame DEF ColumnRows
    <2>11. ColumnRows(d) = ColumnRows(c)
      BY <2>9, <2>10, PageRowsType, ConcatEmptySeq DEF ColumnRows
    <2>12. (Indexed(c) /\ (c.copied => Buffered(c) = << >>)) => Indexed(d)
      BY <1>2, <2>4, <2>7, <2>9, SamePagesSame DEF BuffersFit
    <2>13. BuffersFit(d)
      <3>1. d.numRows = Len(EncodedRows(d))
        BY <2>4, <2>7, SamePagesSame DEF BuffersFit, SamePages
      <3>2. d.columnBuffer = "nil" => d.original = << >>
        BY <2>3, <2>5, <2>7
      <3>3. DictionaryTooLarge(c, k) => DictionaryMaxBytes > 0
        BY DEF DictionaryTooLarge
      <3> QED BY <2>7, <3>1, <3>2, <3>3 DEF BuffersFit
    <2>14. PlainFits(d)
      BY <2>8 DEF PlainFits
    <2>15. ASSUME Covered(c, k) PROVE Covered(d, k)
      <3> DEFINE page == NewPage(c, k, rows)
                 n == Len(c.pages)
      <3>1. c.pages \in Seq(Page) /\ n \in Nat
        BY DEF ColumnWriterState
      <3>2. page \in Page
        BY ColumnAssumption DEF Page, NewPage, PageEncoding, PageSize, ColumnWriterState
      <3>3. page.encoding = "RLE_DICTIONARY" =>
              k \in DictionaryColumns /\ ValuesOf(k, rows) \subseteq c.dictionary
        <4>1. SUFFICES ASSUME PageEncoding(c, k) = "RLE_DICTIONARY"
                       PROVE  k \in DictionaryColumns /\ ValuesOf(k, rows) \subseteq c.dictionary
          BY DEF NewPage
        <4>2. k \in DictionaryColumns /\ ~c.hasSwitchedToPlain
          BY <4>1 DEF PageEncoding
        <4>3. c.columnBuffer # "plain"
          BY <4>2 DEF BuffersFit
        <4>4. c.columnBuffer = "original" /\ rows = c.original
          BY <1>2, <2>1, <4>3 DEF Buffered
        <4> QED BY <2>15, <4>2, <4>4 DEF Covered
      <3>4. page.rows = rows
        BY DEF NewPage
      <3> HIDE DEF page
      <3>5. /\ Len(d.pages) = n + 1 /\ d.pages[n + 1] = page
            /\ \A j \in 1 .. n : d.pages[j] = c.pages[j]
        BY <2>3, <2>7, <3>1, <3>2, AppendProperties DEF SamePages, page
      <3>6. ASSUME NEW j \in 1 .. n + 1, d.pages[j].encoding = "RLE_DICTIONARY"
            PROVE  k \in DictionaryColumns /\ ValuesOf(k, d.pages[j].rows) \subseteq d.dictionary
        <4>1. CASE j = n + 1
          BY <2>7, <3>3, <3>4, <3>5, <3>6, <4>1
        <4>2. CASE j # n + 1
          <5>1. j \in 1 .. n
            BY <3>1, <4>2
          <5> QED BY <2>7, <2>15, <3>5, <3>6, <5>1 DEF Covered
        <4> QED BY <4>1, <4>2
      <3>7. d.columnBuffer = "original" => d.original = << >>
        BY <2>3, <2>5, <2>7
      <3>8. ValuesOf(k, << >>) = {}
        BY DEF ValuesOf
      <3> QED BY <3>5, <3>6, <3>7, <3>8 DEF Covered
    <2>16. d.copied = c.copied
      BY <2>3, <2>7 DEF SamePages
    <2> QED BY <2>9, <2>10, <2>11, <2>12, <2>13, <2>14, <2>15, <2>16 DEF d
  <1> QED BY <1>1, <1>2

\* Every method keeps its pages or adds one to them: the number of pages, and
\* with them the rows, never falls before reset.
LEMMA FlushColumnPages ==
  ASSUME NEW c \in ColumnWriterState, NEW k \in Columns, NEW id \in Nat
  PROVE  FlushColumn(c, k, id).pages =
           IF Buffered(c) = << >> THEN c.pages
           ELSE Append(c.pages, NewPage(c, k, Buffered(c)))
  <1>1. CASE Buffered(c) = << >>
    BY <1>1 DEF FlushColumn
  <1>2. CASE Buffered(c) # << >>
    <2>1. PICK rows \in Seq(Row) : rows = Buffered(c)
      BY BufferedType
    <2> DEFINE w == writeDataPage(c, k, rows, id)
               e == ResetBuffer(w)
    <2>2. w \in ColumnWriterState /\ w.pages = Append(c.pages, NewPage(c, k, rows))
      BY WriteDataPageType, WriteDataPageFields
    <2> HIDE DEF w
    <2>3. e \in ColumnWriterState /\ e.pages = w.pages
      BY <2>2, ResetBufferType, ResetBufferRows DEF SamePages
    <2>4. FlushColumn(c, k, id) = IF DictionaryTooLarge(c, k) THEN fallbackDictionaryToPlain(e) ELSE e
      BY <1>2, <2>1 DEF FlushColumn, w
    <2> HIDE DEF e
    <2>5. fallbackDictionaryToPlain(e).pages = e.pages
      BY <2>3 DEF fallbackDictionaryToPlain, ColumnWriterState
    <2> QED BY <1>2, <2>1, <2>2, <2>3, <2>4, <2>5
  <1> QED BY <1>1, <1>2

\* A Flush that fails drops the rows of the buffer and keeps the pages.
LEMMA FlushColumnFailsRows ==
  ASSUME NEW c \in ColumnWriterState, NEW k \in Columns, NEW id, BuffersFit(c)
  PROVE  LET d == FlushColumnFails(c, k, id)
         IN  /\ SamePages(c, d) /\ Buffered(d) = << >>
             /\ ColumnRows(d) = EncodedRows(c) /\ EncodedRows(d) = EncodedRows(c)
             /\ d.copied = c.copied
             /\ LaidOut(c) => LaidOut(d)
             /\ Indexed(c) => Indexed(d)
             /\ Covered(c, k) => Covered(d, k)
             /\ BuffersFit(d)
             /\ PlainFits(c) => PlainFits(d)
  <1> DEFINE f == writePageToFilter(c, k, Buffered(c))
             b == [c EXCEPT !.filter = f]
             d == ResetBuffer(b)
  <1>1. f \in Filter
    BY BufferedType, ValuesOfType DEF writePageToFilter, Filter, ColumnWriterState
  <1>2. FlushColumnFails(c, k, id) = d
    BY FlushColumnFailsIs
  <1> HIDE DEF f
  <1>3. b \in ColumnWriterState /\ SameButFilter(c, b)
    BY <1>1 DEF ColumnWriterState, SameButFilter, SamePages
  <1> HIDE DEF b
  <1>4. /\ SamePages(b, d) /\ d.dictionary = b.dictionary
        /\ d.columnBuffer = b.columnBuffer /\ d.hasSwitchedToPlain = b.hasSwitchedToPlain
        /\ d.columnBuffer # "plain" => d.plain = b.plain /\ d.original = << >>
        /\ d.columnBuffer = "plain" => d.original = b.original /\ d.plain = << >>
        /\ Buffered(d) = << >> /\ d \in ColumnWriterState
    BY <1>3, ResetBufferRows, ResetBufferType
  <1> HIDE DEF d
  <1>5. SamePages(c, d)
    BY <1>3, <1>4 DEF SameButFilter, SamePages
  <1>6. /\ EncodedRows(d) = EncodedRows(c) /\ (LaidOut(c) => LaidOut(d))
        /\ Indexed(c) => Indexed(d)
    BY <1>4, <1>5, SamePagesSame
  <1>7. ColumnRows(d) = EncodedRows(c)
    BY <1>4, <1>6, PageRowsType, ConcatEmptySeq DEF ColumnRows
  <1>8. Covered(c, k) => Covered(d, k)
    BY <1>3, <1>4, <1>5 DEF ValuesOf, Covered, SamePages, SameButFilter
  <1>9. BuffersFit(d)
    BY <1>3, <1>4, <1>5, <1>6 DEF BuffersFit, SamePages, SameButFilter
  <1>10. PlainFits(c) => PlainFits(d)
    BY <1>3, <1>4 DEF PlainFits, SameButFilter
  <1>11. d.copied = c.copied
    BY <1>5 DEF SamePages
  <1> QED BY <1>2, <1>4, <1>5, <1>6, <1>7, <1>8, <1>9, <1>10, <1>11

\* Completing or sizing the filter changes nothing else.
LEMMA FilterRows ==
  ASSUME NEW c \in ColumnWriterState, NEW k \in Columns
  PROVE  SameButFilter(c, flushFilterPages(c, k)) /\ SameButFilter(c, resizeBloomFilter(c))
  <1>1. ASSUME NEW f \in Filter PROVE SameButFilter(c, [c EXCEPT !.filter = f])
    BY DEF ColumnWriterState, SameButFilter, SamePages
  <1>2. SameButFilter(c, c)
    BY DEF SameButFilter, SamePages
  <1>3. resizeBloomFilter(c) = [c EXCEPT !.filter = [allocated |-> TRUE, values |-> {}]]
    BY DEF resizeBloomFilter
  <1>4. [allocated |-> TRUE, values |-> {}] \in Filter
    BY DEF Filter
  <1>5. \/ flushFilterPages(c, k) = c
        \/ \E f \in Filter : flushFilterPages(c, k) = [c EXCEPT !.filter = f]
    <2> DEFINE all == UNION { ValuesOf(k, c.pages[i].rows) : i \in 1 .. Len(c.pages) }
    <2>1. all \in SUBSET Value
      BY PageRowsType, ValuesOfType
    <2>2. /\ [allocated |-> TRUE, values |-> all] \in Filter
          /\ [allocated |-> TRUE, values |-> c.dictionary] \in Filter
      BY <2>1 DEF Filter, ColumnWriterState
    <2> HIDE DEF all
    <2> QED BY <2>2 DEF flushFilterPages, all
  <1> QED BY <1>1, <1>2, <1>3, <1>4, <1>5

\* A buffer installed by GenericWriter.Write in place of an empty one.
LEMMA NewColumnBufferRows ==
  ASSUME NEW c \in ColumnWriterState, NEW k \in Columns, BuffersFit(c), Buffered(c) = << >>
  PROVE  LET d == newColumnBuffer(c)
         IN  /\ SamePages(c, d) /\ Buffered(d) = << >>
             /\ ColumnRows(d) = ColumnRows(c) /\ EncodedRows(d) = EncodedRows(c)
             /\ d.copied = c.copied
             /\ LaidOut(c) => LaidOut(d)
             /\ Indexed(c) => Indexed(d)
             /\ Covered(c, k) => Covered(d, k)
             /\ BuffersFit(d)
             /\ PlainFits(c) => PlainFits(d)
  <1> DEFINE d == newColumnBuffer(c)
  <1>1. /\ SamePages(c, d) /\ d.columnBuffer = "original" /\ d.original = << >>
        /\ d.plain = c.plain /\ d.dictionary = c.dictionary
        /\ d.hasSwitchedToPlain = c.hasSwitchedToPlain
    BY DEF newColumnBuffer, SamePages, ColumnWriterState
  <1> HIDE DEF d
  <1>2. Buffered(d) = << >>
    BY <1>1 DEF Buffered
  <1>3. /\ EncodedRows(d) = EncodedRows(c) /\ (LaidOut(c) => LaidOut(d))
        /\ Indexed(c) => Indexed(d)
    BY <1>1, <1>2, SamePagesSame
  <1>4. ColumnRows(d) = ColumnRows(c)
    BY <1>2, <1>3 DEF ColumnRows
  <1>5. ValuesOf(k, << >>) = {}
    BY DEF ValuesOf
  <1>6. Covered(c, k) => Covered(d, k)
    BY <1>1, <1>5 DEF Covered, SamePages
  <1>7. BuffersFit(d)
    BY <1>1, <1>3 DEF BuffersFit, SamePages
  <1>8. PlainFits(c) => PlainFits(d)
    BY <1>1 DEF PlainFits, Buffered
  <1>9. d.copied = c.copied
    BY <1>1 DEF SamePages
  <1> QED BY <1>1, <1>2, <1>3, <1>4, <1>6, <1>7, <1>8, <1>9 DEF d

\* A blank column writer has no rows.
LEMMA BlankRows ==
  ASSUME NEW c \in ColumnWriterState, NEW k \in Columns, Blank(c)
  PROVE  /\ Buffered(c) = << >> /\ EncodedRows(c) = << >> /\ ColumnRows(c) = << >>
         /\ LaidOut(c) /\ Indexed(c) /\ Covered(c, k) /\ BuffersFit(c)
  <1>1. Buffered(c) = << >>
    BY DEF Blank, Buffered
  <1>2. PageRows(c) = << >>
    BY PageRowsType DEF Blank
  <1>3. EncodedRows(c) = << >>
    BY <1>2, FlattenSeqRecursion DEF EncodedRows
  <1>4. ColumnRows(c) = << >>
    BY <1>1, <1>3, ConcatEmptySeq DEF ColumnRows
  <1>5. ValuesOf(k, << >>) = {}
    BY DEF ValuesOf
  <1> QED BY <1>1, <1>3, <1>4, <1>5 DEF Blank, LaidOut, Indexed, Covered, BuffersFit

\* Reset makes a column blank, and a new column is.
LEMMA ResetColumnRows ==
  /\ Blank(NewColumnWriter) /\ NewColumnWriter.plain = << >>
  /\ \A c \in ColumnWriterState :
       /\ Blank(resetColumn(c)) /\ resetColumn(c).plain = c.plain
  <1>1. Blank(NewColumnWriter) /\ NewColumnWriter.plain = << >>
    BY DEF Blank, NewColumnWriter
  <1>2. ASSUME NEW c \in ColumnWriterState
        PROVE  Blank(resetColumn(c)) /\ resetColumn(c).plain = c.plain
    <2> DEFINE b == resetColumnBuffer(c)
               d == putPageBuffer(b)
               e == resetColumn(c)
    <2>0. << >> \in Seq(Row) /\ << >> \in Seq(Page)
      OBVIOUS
    <2>1. /\ b \in ColumnWriterState /\ b.columnBuffer # "plain" /\ ~b.hasSwitchedToPlain
          /\ b.original = << >> /\ b.plain = c.plain
      BY <2>0 DEF resetColumnBuffer, ColumnWriterState
    <2> HIDE DEF b
    <2>2. /\ d \in ColumnWriterState /\ d.columnBuffer # "plain" /\ ~d.hasSwitchedToPlain
          /\ d.original = << >> /\ d.plain = c.plain /\ d.pages = << >> /\ d.pageBytes = 0
      BY <2>0, <2>1 DEF putPageBuffer, ColumnWriterState
    <2> HIDE DEF d
    <2>3. /\ e.columnBuffer = d.columnBuffer /\ e.hasSwitchedToPlain = d.hasSwitchedToPlain
          /\ e.original = d.original /\ e.plain = d.plain /\ e.pages = d.pages
          /\ e.pageBytes = d.pageBytes /\ e.dictionary = {} /\ e.locations = << >>
          /\ e.numRows = 0 /\ e.totalCompressedSize = 0 /\ e.filter = NoFilter /\ e.copied = FALSE
      BY <2>2 DEF resetColumn, d, b, ColumnWriterState
    <2> HIDE DEF e
    <2> QED BY <2>2, <2>3 DEF Blank, e
  <1> QED BY <1>1, <1>2

-----------------------------------------------------------------------------
(* A chunk staged for a verbatim copy. *)

\* Products of natural numbers.
LEMMA Products ==
  /\ \A a, b \in Nat : a * b \in Nat
  /\ \A a, b, c \in Nat : a <= b => a * c <= b * c
  /\ \A a, b \in Nat : (a + 1) * b = a * b + b
  /\ \A a, b, c \in Nat : a * (b + c) = a * b + a * c
  <1>1. \A a, b \in Nat : a * b \in Nat
    OBVIOUS
  <1>2. \A a, b \in Nat : (a + 1) * b = a * b + b
    OBVIOUS
  <1>3. \A a, b, c \in Nat : a * (b + c) = a * b + a * c
    OBVIOUS
  <1>4. ASSUME NEW a \in Nat, NEW b \in Nat, NEW c \in Nat, a <= b
        PROVE  a * c <= b * c
    <2>1. PICK d \in Nat : b = a + d
      BY <1>4
    <2>2. b * c = a * c + d * c
      BY <2>1
    <2>3. a * c \in Nat /\ d * c \in Nat
      BY <1>1
    <2> QED BY <2>2, <2>3
  <1> QED BY <1>1, <1>2, <1>3, <1>4

\* Where page i of n rows each starts and ends among `length` rows, and what the
\* first i pages take with a header of h each.
LEMMA SourcePageBounds ==
  ASSUME NEW length \in Nat, NEW n \in Nat \ {0}, NEW h \in Nat \ {0},
         NEW count, count = (length + n - 1) \div n
  PROVE  /\ count \in Nat
         /\ length <= count * n
         /\ \A i \in 1 .. count :
              /\ i * n \in Nat /\ (i - 1) * n \in Nat
              /\ i * n = (i - 1) * n + n
              /\ (i - 1) * n < length
              /\ (i - 1) * (h + n) \in Nat
              /\ (i - 1) * (h + n) + h + (Lesser(i * n, length) - (i - 1) * n)
                   <= count * h + length
              /\ \A j \in 1 .. count : i < j =>
                   (i - 1) * (h + n) + h + (Lesser(i * n, length) - (i - 1) * n)
                     <= (j - 1) * (h + n)
  <1> DEFINE m == length + n - 1
  <1>1. m \in Nat
    OBVIOUS
  <1>2. count \in Nat /\ count * n <= m /\ m < (count + 1) * n
    <2> HIDE DEF m
    <2>1. count = m \div n
      BY DEF m
    <2> QED BY <1>1, <2>1
  <1>3. count * n \in Nat /\ (count + 1) * n = count * n + n
    BY <1>2, Products
  <1>4. length <= count * n
    BY <1>2, <1>3
  <1>5. ASSUME NEW i \in 1 .. count
        PROVE  /\ i * n \in Nat /\ (i - 1) * n \in Nat
               /\ i * n = (i - 1) * n + n
               /\ (i - 1) * n < length
               /\ (i - 1) * (h + n) \in Nat
               /\ (i - 1) * (h + n) + h + (Lesser(i * n, length) - (i - 1) * n)
                    <= count * h + length
               /\ \A j \in 1 .. count : i < j =>
                    (i - 1) * (h + n) + h + (Lesser(i * n, length) - (i - 1) * n)
                      <= (j - 1) * (h + n)
    <2>1. i \in Nat /\ i - 1 \in Nat /\ i <= count /\ i = (i - 1) + 1
      BY <1>2
    <2>2. /\ i * n \in Nat /\ (i - 1) * n \in Nat /\ i * h \in Nat /\ (i - 1) * h \in Nat
          /\ count * h \in Nat
      BY <1>2, <2>1, Products
    <2>3. i * n = (i - 1) * n + n /\ i * h = (i - 1) * h + h
      BY <2>1, Products
    <2>4. i * n <= count * n /\ i * h <= count * h
      BY <1>2, <2>1, Products
    <2>5. (i - 1) * n < length
      BY <1>2, <1>3, <2>2, <2>3, <2>4
    <2>6. (i - 1) * (h + n) = (i - 1) * h + (i - 1) * n
      BY <2>1, Products
    <2>7. Lesser(i * n, length) \in Nat /\ Lesser(i * n, length) <= length
          /\ Lesser(i * n, length) <= i * n
      BY <2>2 DEF Lesser
    <2>8. (i - 1) * (h + n) + h + (Lesser(i * n, length) - (i - 1) * n)
            = i * h + Lesser(i * n, length)
      BY <2>2, <2>3, <2>6, <2>7
    <2>9. ASSUME NEW j \in 1 .. count, i < j
          PROVE  i * h + Lesser(i * n, length) <= (j - 1) * (h + n)
      <3>1. j - 1 \in Nat /\ i <= j - 1
        BY <1>2, <2>1, <2>9
      <3>2. i * h <= (j - 1) * h /\ i * n <= (j - 1) * n
        BY <2>1, <3>1, Products
      <3>3. (j - 1) * (h + n) = (j - 1) * h + (j - 1) * n
        BY <3>1, Products
      <3>4. (j - 1) * h \in Nat /\ (j - 1) * n \in Nat
        BY <3>1, Products
      <3> QED BY <2>2, <2>7, <3>2, <3>3, <3>4
    <2>10. i * h + Lesser(i * n, length) <= count * h + length
      BY <2>2, <2>4, <2>7
    <2>11. (i - 1) * (h + n) \in Nat
      BY <2>2, <2>6
    <2> QED BY <2>2, <2>3, <2>5, <2>8, <2>9, <2>10, <2>11
  <1> QED BY <1>2, <1>4, <1>5

\* Page i of a source chunk and its entry in the offset index, once loaded.
CopiedPage(k, rows, n, i) ==
  [rows |-> SourcePageRows(rows, n, i),
   encoding |-> IF k \in DictionaryColumns THEN "RLE_DICTIONARY" ELSE "PLAIN",
   at |-> (i - 1) * (HeaderSize + n), size |-> PageSize(SourcePageRows(rows, n, i))]
CopiedLocation(rows, n, i) ==
  [offset |-> (i - 1) * (HeaderSize + n), size |-> PageSize(SourcePageRows(rows, n, i)),
   firstRow |-> (i - 1) * n]

\* d is column c with a source chunk staged in it.
CopyOf(c, k, rows, n, d) ==
  /\ d.pages = [i \in 1 .. SourcePageCount(rows, n) |-> CopiedPage(k, rows, n, i)]
  /\ Len(d.locations) = SourcePageCount(rows, n)
  /\ \A i \in 1 .. SourcePageCount(rows, n) : d.locations[i] = CopiedLocation(rows, n, i)
  /\ d.pageBytes = SourcePageCount(rows, n) * HeaderSize + Len(rows)
  /\ k \in DictionaryColumns => d.dictionary = ValuesOf(k, rows)
  /\ d.numRows = Len(rows) /\ d.copied = TRUE
  /\ d.columnBuffer = c.columnBuffer /\ d.original = c.original /\ d.plain = c.plain
  /\ d.hasSwitchedToPlain = c.hasSwitchedToPlain
  /\ d.filter = IF k \in FilterColumns
                  THEN [allocated |-> TRUE, values |-> ValuesOf(k, rows)] ELSE c.filter

\* What loadCopiedChunk makes of a column: the positions of the source file are
\* gone, only the dictionary page's length is missing from the bytes of the pages.
LEMMA CopiedFields ==
  ASSUME NEW c \in ColumnWriterState, NEW k \in Columns, NEW rows \in Seq(Row),
         NEW n \in Nat \ {0}, NEW base \in Nat \ {0}
  PROVE  CopyOf(c, k, rows, n, loadCopiedChunk(c, k, SourceChunk(k, rows, n, base)))
  <1> DEFINE src == SourceChunk(k, rows, n, base)
             d == loadCopiedChunk(c, k, src)
             dict == IF k \in DictionaryColumns
                       THEN HeaderSize + Cardinality(ValuesOf(k, rows)) ELSE 0
             count == SourcePageCount(rows, n)
             at(i) == (i - 1) * (HeaderSize + n)
             size(i) == PageSize(SourcePageRows(rows, n, i))
             loc(i) == [offset |-> base + dict + at(i), size |-> size(i),
                        firstRow |-> (i - 1) * n]
             dictLength == IF src.dictionaryPageOffset = 0 THEN 0
                           ELSE src.dataPageOffset - src.dictionaryPageOffset
  <1>1. dict \in Nat /\ (k \in DictionaryColumns => dict # 0) /\ (k \notin DictionaryColumns => dict = 0)
    <2>1. IsFiniteSet(ValuesOf(k, rows))
      BY ValuesOfType, ValueAssumption, FS_Subset
    <2>2. Cardinality(ValuesOf(k, rows)) \in Nat /\ HeaderSize \in Nat \ {0}
      BY <2>1, FS_CardinalityType, ColumnAssumption
    <2> QED BY <2>2
  <1>2. /\ count \in Nat
        /\ \A i \in 1 .. count : size(i) \in Nat /\ at(i) \in Nat /\ (i - 1) * n \in Nat
    BY SourcePagesType
  <1>3. count * HeaderSize \in Nat
    BY <1>2, NatArithmetic, ColumnAssumption
  <1>4. /\ src.dictionaryPageOffset = IF dict = 0 THEN 0 ELSE base
        /\ src.dataPageOffset = base + dict
        /\ src.totalCompressedSize = dict + count * HeaderSize + Len(rows)
        /\ src.pages = [i \in 1 .. count |-> CopiedPage(k, rows, n, i)]
        /\ src.locations = [i \in 1 .. count |-> loc(i)]
        /\ src.numRows = Len(rows)
        /\ src.values = ValuesOf(k, rows)
    BY DEF SourceChunk, CopiedPage
  <1>5. dictLength = dict
    <2> HIDE DEF src, dict
    <2> QED BY <1>1, <1>4
  <1>6. /\ d.pages = src.pages /\ d.locations = RelativeLocations(src)
        /\ d.pageBytes = src.totalCompressedSize - dictLength
        /\ d.dictionary = IF dictLength = 0 THEN {} ELSE src.values
        /\ d.numRows = src.numRows /\ d.copied = TRUE
        /\ d.columnBuffer = c.columnBuffer /\ d.original = c.original /\ d.plain = c.plain
        /\ d.hasSwitchedToPlain = c.hasSwitchedToPlain
        /\ d.filter = IF k \in FilterColumns THEN [allocated |-> TRUE, values |-> src.values]
                                             ELSE c.filter
    <2> HIDE DEF src
    <2> QED BY DEF loadCopiedChunk, ColumnWriterState
  <1>7. d.pageBytes = count * HeaderSize + Len(rows)
    <2> DEFINE bytes == count * HeaderSize
    <2>1. bytes \in Nat /\ Len(rows) \in Nat
      BY <1>3
    <2>2. d.pageBytes = (dict + bytes + Len(rows)) - dict
      BY <1>4, <1>5, <1>6
    <2> HIDE DEF bytes, d, dict
    <2>3. d.pageBytes = bytes + Len(rows)
      BY <1>1, <2>1, <2>2
    <2> QED BY <2>3 DEF bytes
  <1>8. /\ Len(d.locations) = count
        /\ \A i \in 1 .. count : d.locations[i] = CopiedLocation(rows, n, i)
    <2> DEFINE rel(i) == [loc(i) EXCEPT !.offset = @ - src.dataPageOffset]
    <2>1. d.locations = [i \in 1 .. count |-> rel(i)]
      <3>1. Len(src.locations) = count /\ \A i \in 1 .. count : src.locations[i] = loc(i)
        <4> HIDE DEF loc, count, src
        <4> QED BY <1>2, <1>4
      <3> HIDE DEF loc, count, src, d
      <3> QED BY <1>2, <1>6, <3>1 DEF RelativeLocations
    <2>2. ASSUME NEW i \in 1 .. count
          PROVE  rel(i) = CopiedLocation(rows, n, i)
      <3>1. loc(i).offset - src.dataPageOffset = at(i)
        <4> HIDE DEF dict, at, src
        <4> QED BY <1>1, <1>2, <1>4
      <3>2. rel(i) = [offset |-> at(i), size |-> size(i), firstRow |-> (i - 1) * n]
        <4> HIDE DEF dict, at, src, size
        <4> QED BY <3>1
      <3> QED BY <3>2 DEF CopiedLocation
    <2> HIDE DEF rel, count, d
    <2> QED BY <1>2, <2>1, <2>2
  <1>9. k \in DictionaryColumns => d.dictionary = ValuesOf(k, rows)
    <2> HIDE DEF d, src, dict
    <2> QED BY <1>1, <1>4, <1>5, <1>6
  <1> HIDE DEF d, src
  <1>10. d.pages = [i \in 1 .. count |-> CopiedPage(k, rows, n, i)]
    BY <1>4, <1>6
  <1>11. d.numRows = Len(rows)
    BY <1>4, <1>6
  <1>12. d.filter = IF k \in FilterColumns
                      THEN [allocated |-> TRUE, values |-> ValuesOf(k, rows)] ELSE c.filter
    BY <1>4, <1>6
  <1> QED BY <1>6, <1>7, <1>8, <1>9, <1>10, <1>11, <1>12, Zenon DEF d, src, CopyOf

\* Two consecutive parts of a sequence of rows.
LEMMA RowsJoin ==
  ASSUME NEW s \in Seq(Row), NEW a \in Nat, NEW b \in Nat, a <= b, b <= Len(s)
  PROVE  /\ SubSeq(s, 1, a) \o SubSeq(s, a + 1, b) = SubSeq(s, 1, b)
         /\ SubSeq(s, a + 1, b) \in Seq(Row) /\ Len(SubSeq(s, a + 1, b)) = b - a
         /\ SubSeq(s, 1, a) \in Seq(Row) /\ Len(SubSeq(s, 1, a)) = a
         /\ \A i \in 1 .. b - a : SubSeq(s, a + 1, b)[i] = s[a + i]
  <1> DEFINE p == SubSeq(s, 1, a)
             q == SubSeq(s, a + 1, b)
             r == SubSeq(s, 1, b)
  <1>1. p \in Seq(Row) /\ Len(p) = a /\ \A i \in 1 .. a : p[i] = s[i]
    OBVIOUS
  <1>2. q \in Seq(Row) /\ Len(q) = b - a /\ \A i \in 1 .. b - a : q[i] = s[a + i]
    OBVIOUS
  <1>3. r \in Seq(Row) /\ Len(r) = b /\ \A i \in 1 .. b : r[i] = s[i]
    OBVIOUS
  <1> HIDE DEF p, q, r
  <1>4. /\ p \o q \in Seq(Row) /\ Len(p \o q) = b
        /\ \A i \in 1 .. b : (p \o q)[i] = IF i <= a THEN p[i] ELSE q[i - a]
    <2>1. Len(p) + Len(q) = b
      BY <1>1, <1>2
    <2>2. /\ p \o q \in Seq(Row) /\ Len(p \o q) = Len(p) + Len(q)
          /\ \A i \in 1 .. Len(p) + Len(q) :
               (p \o q)[i] = IF i <= Len(p) THEN p[i] ELSE q[i - Len(p)]
      BY <1>1, <1>2, ConcatProperties, Zenon
    <2> QED BY <1>1, <2>1, <2>2, Zenon
  <1>5. \A i \in 1 .. b : (p \o q)[i] = r[i]
    <2> TAKE i \in 1 .. b
    <2>1. CASE i <= a
      BY <1>1, <1>3, <1>4, <2>1
    <2>2. CASE ~(i <= a)
      <3>1. i - a \in 1 .. b - a /\ a + (i - a) = i
        BY <2>2
      <3>2. q[i - a] = s[i]
        BY <1>2, <3>1
      <3> QED BY <1>3, <1>4, <2>2, <3>2
    <2> QED BY <2>1, <2>2
  <1>6. p \o q = r
    BY <1>3, <1>4, <1>5, SeqEqual
  <1> QED BY <1>1, <1>2, <1>6 DEF p, q, r

\* The values of a part of a sequence of rows.
LEMMA ValuesOfPart ==
  ASSUME NEW k \in Columns, NEW s \in Seq(Row), NEW a \in Nat, NEW b \in Nat, a <= b, b <= Len(s)
  PROVE  ValuesOf(k, SubSeq(s, a + 1, b)) \subseteq ValuesOf(k, s)
  <1> DEFINE q == SubSeq(s, a + 1, b)
  <1>1. Len(q) = b - a /\ \A i \in 1 .. b - a : q[i] = s[a + i] /\ a + i \in 1 .. Len(s)
    BY RowsJoin
  <1> HIDE DEF q
  <1>2. ValuesOf(k, q) \subseteq ValuesOf(k, s)
    BY <1>1 DEF ValuesOf
  <1> QED BY <1>2 DEF q

\* The rows of page i of a source chunk.
LEMMA SourcePageIs ==
  ASSUME NEW rows \in Seq(Row), NEW n \in Nat \ {0}
  PROVE  /\ SourcePageCount(rows, n) \in Nat
         /\ \A i \in 1 .. SourcePageCount(rows, n) :
              LET first == (i - 1) * n
                  last == Lesser(i * n, Len(rows))
              IN  /\ first \in Nat /\ last \in Nat /\ first <= last /\ last <= Len(rows)
                  /\ SourcePageRows(rows, n, i) = SubSeq(rows, first + 1, last)
                  /\ PageSize(SourcePageRows(rows, n, i)) = HeaderSize + (last - first)
  <1> DEFINE count == SourcePageCount(rows, n)
             length == Len(rows)
  <1>1. /\ count = (length + n - 1) \div n /\ HeaderSize \in Nat \ {0}
        /\ length \in Nat
    BY ColumnAssumption DEF SourcePageCount
  <1> HIDE DEF count, length
  <1>2. /\ count \in Nat
        /\ \A i \in 1 .. count : /\ i * n \in Nat /\ (i - 1) * n \in Nat
                                 /\ i * n = (i - 1) * n + n /\ (i - 1) * n < length
    <2>1. ASSUME NEW h \in Nat \ {0}
          PROVE  /\ count \in Nat
                 /\ \A i \in 1 .. count : /\ i * n \in Nat /\ (i - 1) * n \in Nat
                                          /\ i * n = (i - 1) * n + n /\ (i - 1) * n < length
      <3>1. count \in Nat /\ \A i \in 1 .. count : (i - 1) * n < length
        BY <1>1, SourcePageBounds, ZenonT(60)
      <3>2. \A i \in 1 .. count : i \in Nat /\ i - 1 \in Nat /\ i = (i - 1) + 1
        BY <3>1
      <3>3. \A i \in 1 .. count : i * n \in Nat /\ (i - 1) * n \in Nat
        BY <3>2, Products
      <3>4. \A i \in 1 .. count : i * n = (i - 1) * n + n
        BY <3>2, Products
      <3> QED BY <3>1, <3>3, <3>4
    <2> QED BY <1>1, <2>1
  <1>3. ASSUME NEW i \in 1 .. count
        PROVE  LET first == (i - 1) * n
                   last == Lesser(i * n, Len(rows))
               IN  /\ first \in Nat /\ last \in Nat /\ first <= last /\ last <= Len(rows)
                   /\ SourcePageRows(rows, n, i) = SubSeq(rows, first + 1, last)
                   /\ PageSize(SourcePageRows(rows, n, i)) = HeaderSize + (last - first)
    <2> DEFINE first == (i - 1) * n
               last == Lesser(i * n, Len(rows))
    <2>1. /\ i * n \in Nat /\ first \in Nat /\ i * n = first + n /\ first < Len(rows)
      BY <1>2 DEF length
    <2>2. last \in Nat /\ first <= last /\ last <= Len(rows)
      BY <2>1 DEF Lesser
    <2>3. SourcePageRows(rows, n, i) = SubSeq(rows, first + 1, last)
      BY DEF SourcePageRows
    <2> HIDE DEF first, last
    <2>4. Len(SubSeq(rows, first + 1, last)) = last - first
      BY <2>1, <2>2, RowsJoin
    <2>5. PageSize(SourcePageRows(rows, n, i)) = HeaderSize + (last - first)
      BY <2>3, <2>4 DEF PageSize
    <2> QED BY <2>1, <2>2, <2>3, <2>5 DEF first, last
  <1> QED BY <1>2, <1>3 DEF count

\* The pages of a copied chunk follow each other, whatever the column held.
LEMMA CopiedLaidOut ==
  ASSUME NEW c \in ColumnWriterState, NEW k \in Columns, NEW rows \in Seq(Row),
         NEW n \in Nat \ {0}, NEW base \in Nat \ {0}
  PROVE  LaidOut(loadCopiedChunk(c, k, SourceChunk(k, rows, n, base)))
  <1> DEFINE d == loadCopiedChunk(c, k, SourceChunk(k, rows, n, base))
             count == SourcePageCount(rows, n)
             length == Len(rows)
             at(i) == (i - 1) * (HeaderSize + n)
             size(i) == PageSize(SourcePageRows(rows, n, i))
  <1>1. /\ d.pages = [i \in 1 .. count |-> CopiedPage(k, rows, n, i)]
        /\ d.pageBytes = count * HeaderSize + length
    <2>1. CopyOf(c, k, rows, n, d)
      BY CopiedFields
    <2> HIDE DEF d
    <2> QED BY <2>1 DEF CopyOf
  <1>2. /\ count = (length + n - 1) \div n /\ HeaderSize \in Nat \ {0}
        /\ length \in Nat
    BY ColumnAssumption DEF SourcePageCount
  <1>3. \A i \in 1 .. count : size(i) = HeaderSize + (Lesser(i * n, length) - (i - 1) * n)
    BY SourcePageIs
  <1>4. count \in Nat
    BY SourcePageIs
  <1>5. \A i \in 1 .. count :
          /\ (i - 1) * (HeaderSize + n) \in Nat
          /\ (i - 1) * (HeaderSize + n) + HeaderSize + (Lesser(i * n, length) - (i - 1) * n)
               <= count * HeaderSize + length
          /\ \A j \in 1 .. count : i < j =>
               (i - 1) * (HeaderSize + n) + HeaderSize + (Lesser(i * n, length) - (i - 1) * n)
                 <= (j - 1) * (HeaderSize + n)
    <2> HIDE DEF count, length
    <2>1. \A i \in 1 .. count :
            /\ (i - 1) * (HeaderSize + n) \in Nat
            /\ (i - 1) * (HeaderSize + n) + HeaderSize + (Lesser(i * n, length) - (i - 1) * n)
                 <= count * HeaderSize + length
      BY <1>2, SourcePageBounds, ZenonT(60)
    <2>2. \A i, j \in 1 .. count : i < j =>
            (i - 1) * (HeaderSize + n) + HeaderSize + (Lesser(i * n, length) - (i - 1) * n)
              <= (j - 1) * (HeaderSize + n)
      BY <1>2, SourcePageBounds, ZenonT(60)
    <2> QED BY <2>1, <2>2, Zenon
  <1>6. \A i \in 1 .. count : size(i) \in Nat /\ Lesser(i * n, length) - (i - 1) * n \in Nat
    <2> TAKE i \in 1 .. count
    <2> DEFINE first == (i - 1) * n
               last == Lesser(i * n, length)
    <2>1. first \in Nat /\ last \in Nat /\ first <= last
      BY SourcePageIs
    <2>2. size(i) \in Nat
      BY SourcePagesType
    <2> HIDE DEF first, last, size
    <2>3. last - first \in Nat
      BY <2>1
    <2> QED BY <2>2, <2>3 DEF first, last
  <1>7. ASSUME NEW i \in 1 .. count
        PROVE  /\ at(i) + size(i) <= count * HeaderSize + length
               /\ \A j \in 1 .. count : i < j => at(i) + size(i) <= at(j)
    <2> DEFINE left == Lesser(i * n, length) - (i - 1) * n
    <2>1. size(i) = HeaderSize + left /\ left \in Nat /\ at(i) \in Nat
      BY <1>3, <1>5, <1>6
    <2>2. /\ at(i) + HeaderSize + left <= count * HeaderSize + length
          /\ \A j \in 1 .. count : i < j => at(i) + HeaderSize + left <= at(j)
      BY <1>5
    <2> HIDE DEF left, size, at, length, count
    <2>3. at(i) + size(i) = at(i) + HeaderSize + left
      BY <1>2, <2>1
    <2> QED BY <2>2, <2>3
  <1>8. /\ Len(d.pages) = count
        /\ \A i \in 1 .. count :
             /\ d.pages[i].rows = SourcePageRows(rows, n, i)
             /\ d.pages[i].at = at(i) /\ d.pages[i].size = size(i)
    <2> HIDE DEF d, count
    <2> QED BY <1>1, <1>4 DEF CopiedPage
  <1> HIDE DEF d, count, length, at, size
  <1>9. \A i \in 1 .. count : size(i) = PageSize(d.pages[i].rows)
    BY <1>8 DEF size
  <1> QED BY <1>1, <1>7, <1>8, <1>9, Zenon DEF LaidOut, d

\* The first m pages of a copied chunk hold the first rows of the source.
LEMMA CopiedPrefix ==
  ASSUME NEW c \in ColumnWriterState, NEW k \in Columns, NEW rows \in Seq(Row),
         NEW n \in Nat \ {0}, NEW base \in Nat \ {0}
  PROVE  LET d == loadCopiedChunk(c, k, SourceChunk(k, rows, n, base))
         IN  /\ Len(d.pages) = SourcePageCount(rows, n)
             /\ \A m \in Nat : m <= SourcePageCount(rows, n) =>
                  FlattenSeq(SubSeq(PageRows(d), 1, m)) = SubSeq(rows, 1, Lesser(m * n, Len(rows)))
  <1> DEFINE d == loadCopiedChunk(c, k, SourceChunk(k, rows, n, base))
             count == SourcePageCount(rows, n)
             R == PageRows(d)
             P(m) == m <= count =>
                       FlattenSeq(SubSeq(R, 1, m)) = SubSeq(rows, 1, Lesser(m * n, Len(rows)))
             S == {m \in Nat : P(m)}
  <1>1. d \in ColumnWriterState /\ R \in Seq(Seq(Row)) /\ Len(R) = Len(d.pages)
    <2>1. base \in Nat
      OBVIOUS
    <2> HIDE DEF d
    <2>2. d \in ColumnWriterState
      BY <2>1, LoadCopiedChunkType DEF d
    <2> QED BY <2>2, PageRowsType
  <1>2. count \in Nat
    BY SourcePageIs
  <1>3. Len(d.pages) = count /\ \A i \in 1 .. count : R[i] = SourcePageRows(rows, n, i)
    <2>1. d.pages = [i \in 1 .. count |-> CopiedPage(k, rows, n, i)]
      <3>1. CopyOf(c, k, rows, n, d)
        BY CopiedFields
      <3> HIDE DEF d
      <3> QED BY <3>1 DEF CopyOf
    <2> HIDE DEF d, count
    <2>2. Len(d.pages) = count /\ \A i \in 1 .. count : d.pages[i].rows = SourcePageRows(rows, n, i)
      BY <1>2, <2>1 DEF CopiedPage
    <2> QED BY <2>2 DEF PageRows
  <1> HIDE DEF d, count, R
  <1>4. P(0)
    <2>1. SubSeq(R, 1, 0) = << >> /\ 0 * n = 0 /\ Lesser(0, Len(rows)) = 0
      BY <1>1 DEF Lesser
    <2>2. SubSeq(rows, 1, 0) = << >>
      OBVIOUS
    <2>3. FlattenSeq(<< >>) = << >>
      BY FlattenSeqRecursion
    <2> QED BY <2>1, <2>2, <2>3
  <1>5. ASSUME NEW m \in Nat, P(m) PROVE P(m + 1)
    <2>1. SUFFICES ASSUME m + 1 <= count
                   PROVE  FlattenSeq(SubSeq(R, 1, m + 1))
                            = SubSeq(rows, 1, Lesser((m + 1) * n, Len(rows)))
      OBVIOUS
    <2> DEFINE first == m * n
               last == Lesser((m + 1) * n, Len(rows))
    <2>2. m + 1 \in 1 .. count /\ (m + 1) - 1 = m
      BY <1>2, <2>1
    <2>3. /\ first \in Nat /\ last \in Nat /\ first <= last /\ last <= Len(rows)
          /\ SourcePageRows(rows, n, m + 1) = SubSeq(rows, first + 1, last)
      <3> DEFINE i == m + 1
                 begin == (i - 1) * n
      <3>1. i \in 1 .. count /\ begin = first
        BY <2>2
      <3>2. /\ begin \in Nat /\ last \in Nat /\ begin <= last /\ last <= Len(rows)
            /\ SourcePageRows(rows, n, i) = SubSeq(rows, begin + 1, last)
        <4> HIDE DEF i
        <4> QED BY <3>1, SourcePageIs, Zenon DEF count, i
      <3> QED BY <3>1, <3>2
    <2>4. FlattenSeq(SubSeq(R, 1, m)) = SubSeq(rows, 1, first)
      <3>1. Lesser(first, Len(rows)) = first
        <4> HIDE DEF first, last
        <4> QED BY <2>3 DEF Lesser
      <3>2. m <= count
        BY <1>2, <2>1
      <3> QED BY <1>5, <3>1, <3>2
    <2>5. /\ SubSeq(R, 1, m) \in Seq(Seq(Row)) /\ R[m + 1] \in Seq(Row)
          /\ SubSeq(R, 1, m + 1) = Append(SubSeq(R, 1, m), R[m + 1])
      BY <1>1, <1>3, <2>1
    <2>6. FlattenSeq(SubSeq(R, 1, m + 1)) = FlattenSeq(SubSeq(R, 1, m)) \o R[m + 1]
      BY <2>5, FlattenSeqRecursion
    <2>7. R[m + 1] = SubSeq(rows, first + 1, last)
      BY <1>3, <2>2, <2>3
    <2> HIDE DEF first, last
    <2>8. SubSeq(rows, 1, first) \o SubSeq(rows, first + 1, last) = SubSeq(rows, 1, last)
      BY <2>3, RowsJoin
    <2> QED BY <2>4, <2>6, <2>7, <2>8 DEF last
  <1> HIDE DEF P
  <1>6. S \in SUBSET Nat /\ 0 \in S /\ \A m \in S : m + 1 \in S
    BY <1>4, <1>5
  <1> HIDE DEF S
  <1>7. \A m \in Nat : m \in S
    BY <1>6, SetInduction
  <1>8. \A m \in Nat : P(m)
    BY <1>7 DEF S
  <1> QED BY <1>3, <1>8 DEF P, d, count, R

\* A column whose buffer is empty holds the source rows after the copy, the offset
\* index describes its pages and its dictionary covers them.
LEMMA CopiedRows ==
  ASSUME NEW c \in ColumnWriterState, NEW k \in Columns, NEW rows \in Seq(Row),
         NEW n \in Nat \ {0}, NEW base \in Nat \ {0}, BuffersFit(c), Buffered(c) = << >>
  PROVE  LET d == loadCopiedChunk(c, k, SourceChunk(k, rows, n, base))
         IN  /\ Buffered(d) = << >> /\ EncodedRows(d) = rows /\ ColumnRows(d) = rows
             /\ Indexed(d) /\ Covered(d, k) /\ BuffersFit(d)
             /\ PlainFits(c) => PlainFits(d)
  <1> DEFINE d == loadCopiedChunk(c, k, SourceChunk(k, rows, n, base))
             count == SourcePageCount(rows, n)
             length == Len(rows)
             R == PageRows(d)
  <1>1. CopyOf(c, k, rows, n, d)
    BY CopiedFields
  <1>2. /\ Len(d.pages) = count
        /\ \A m \in Nat : m <= count =>
             FlattenSeq(SubSeq(R, 1, m)) = SubSeq(rows, 1, Lesser(m * n, length))
    BY CopiedPrefix
  <1>3. d \in ColumnWriterState
    <2>1. base \in Nat
      OBVIOUS
    <2> HIDE DEF d
    <2> QED BY <2>1, LoadCopiedChunkType DEF d
  <1> HIDE DEF d, R
  <1>4. count \in Nat
    BY SourcePageIs
  <1>5. R \in Seq(Seq(Row)) /\ Len(R) = count
    BY <1>2, <1>3, PageRowsType DEF R
  <1>6. length \in Nat /\ count = (length + n - 1) \div n /\ HeaderSize \in Nat \ {0}
    BY ColumnAssumption DEF SourcePageCount
  <1>7. length <= count * n /\ count * n \in Nat
    <2> HIDE DEF count, length
    <2>1. length <= count * n
      BY <1>6, SourcePageBounds, ZenonT(60)
    <2> QED BY <1>4, <2>1, Products
  <1>8. EncodedRows(d) = rows
    <2>1. FlattenSeq(SubSeq(R, 1, count)) = SubSeq(rows, 1, Lesser(count * n, length))
      BY <1>2, <1>4
    <2>2. Lesser(count * n, length) = length
      <3> HIDE DEF count, length
      <3> QED BY <1>6, <1>7 DEF Lesser
    <2>3. SubSeq(rows, 1, length) = rows /\ SubSeq(R, 1, count) = R
      BY <1>5
    <2> QED BY <2>1, <2>2, <2>3 DEF EncodedRows, R
  <1>9. Buffered(d) = << >>
    BY <1>1 DEF CopyOf, Buffered
  <1>10. ColumnRows(d) = rows
    BY <1>8, <1>9 DEF ColumnRows
  <1>11. BuffersFit(d) /\ (PlainFits(c) => PlainFits(d))
    BY <1>1, <1>8 DEF CopyOf, BuffersFit, PlainFits
  <1>12. Covered(d, k)
    <2>1. ASSUME NEW j \in 1 .. count, d.pages[j].encoding = "RLE_DICTIONARY"
          PROVE  k \in DictionaryColumns /\ ValuesOf(k, d.pages[j].rows) \subseteq d.dictionary
      <3>1. d.pages[j] = CopiedPage(k, rows, n, j)
        <4> HIDE DEF count
        <4> QED BY <1>1 DEF CopyOf, count
      <3>2. k \in DictionaryColumns
        BY <2>1, <3>1 DEF CopiedPage
      <3>3. d.dictionary = ValuesOf(k, rows)
        BY <1>1, <3>2 DEF CopyOf
      <3> DEFINE first == (j - 1) * n
                 last == Lesser(j * n, Len(rows))
      <3>4. /\ first \in Nat /\ last \in Nat /\ first <= last /\ last <= Len(rows)
            /\ SourcePageRows(rows, n, j) = SubSeq(rows, first + 1, last)
        BY SourcePageIs
      <3>5. d.pages[j].rows = SourcePageRows(rows, n, j)
        BY <3>1 DEF CopiedPage
      <3> HIDE DEF first, last
      <3>6. ValuesOf(k, SubSeq(rows, first + 1, last)) \subseteq ValuesOf(k, rows)
        BY <3>4, ValuesOfPart
      <3> QED BY <3>2, <3>3, <3>4, <3>5, <3>6
    <2>2. d.columnBuffer = "original" => ValuesOf(k, d.original) = {}
      BY <1>9 DEF Buffered, ValuesOf
    <2> QED BY <1>2, <2>1, <2>2, Zenon DEF Covered
  <1>13. Indexed(d)
    <2>1. Len(d.locations) = count /\ d.copied
      BY <1>1 DEF CopyOf
    <2>2. ASSUME NEW j \in 1 .. count
          PROVE  /\ d.locations[j].offset = d.pages[j].at
                 /\ d.locations[j].size = d.pages[j].size
                 /\ d.locations[j].firstRow = Len(FlattenSeq(SubSeq(PageRows(d), 1, j - 1)))
      <3>1. /\ d.pages[j] = CopiedPage(k, rows, n, j)
            /\ d.locations[j] = CopiedLocation(rows, n, j)
        <4> HIDE DEF count
        <4> QED BY <1>1 DEF CopyOf, count
      <3>2. d.locations[j].offset = d.pages[j].at /\ d.locations[j].size = d.pages[j].size
        BY <3>1 DEF CopiedPage, CopiedLocation
      <3>3. d.locations[j].firstRow = (j - 1) * n
        BY <3>1 DEF CopiedLocation
      <3> DEFINE m == j - 1
      <3>4. m \in Nat /\ m <= count
        BY <1>4
      <3>5. m * n \in Nat /\ m * n < length
        <4>1. \A i \in 1 .. count : (i - 1) * n \in Nat /\ (i - 1) * n < length
          <5> HIDE DEF count, length
          <5> QED BY <1>6, SourcePageBounds, ZenonT(60)
        <4> QED BY <4>1
      <3>6. FlattenSeq(SubSeq(R, 1, m)) = SubSeq(rows, 1, Lesser(m * n, length))
        <4> HIDE DEF m, count
        <4> QED BY <1>2, <3>4
      <3>7. Len(SubSeq(rows, 1, m * n)) = m * n
        <4> HIDE DEF m
        <4> QED BY <3>5, RowsJoin
      <3>8. Lesser(m * n, length) = m * n
        <4> HIDE DEF m, length
        <4> QED BY <1>6, <3>5 DEF Lesser
      <3> QED BY <3>2, <3>3, <3>6, <3>7, <3>8 DEF R
    <2> QED BY <1>2, <1>9, <2>1, <2>2, Zenon DEF Indexed
  <1> QED BY <1>8, <1>9, <1>10, <1>11, <1>12, <1>13 DEF d

-----------------------------------------------------------------------------
(* The types of the writer                                                 *)

\* The initial state has its type.
LEMMA TypeInit == Init => TypeOK
  <1> SUFFICES ASSUME Init PROVE TypeOK
    OBVIOUS
  <1>1. cw \in [Groups -> [Columns -> ColumnWriterState]]
    BY ResetColumnType DEF Init
  <1>2. 1 \in Columns
    BY ColumnAssumption DEF Columns
  <1>3. NoChunk \in ColumnChunk
    BY DEF NoChunk, ColumnChunk
  <1>4. /\ numRows \in [Groups -> Nat]
        /\ pc \in [Groups -> {"idle", "write", "flush", "failed"}]
        /\ todo \in [Groups -> Seq(Row)] /\ chunk \in [Groups -> Seq(Row)]
        /\ col \in [Groups -> Columns] /\ meta \in [Columns -> ColumnChunk]
        /\ taken \in [Groups -> Nat]
    BY <1>2, <1>3 DEF Init
  <1>5. /\ free \in Seq(Nat \ {0}) /\ job \in Seq(Job) /\ source \in Seq(Row)
        /\ rowGroups \in Seq(RowGroup) /\ deferred \in Seq(DeferredFilter)
        /\ file \in SUBSET Segment
    BY DEF Init
  <1>6. nextRow \in 1 .. MaxRows + 1
    BY ColumnAssumption DEF Init
  <1>7. generic \in BOOLEAN /\ resolved \in BOOLEAN
    BY Zenon DEF Init
  <1>8. /\ fresh \in Nat \ {0} /\ phase \in Phases /\ pos \in Columns /\ done \in Nat
        /\ offset \in Nat /\ status \in {"open", "closed", "failed"} /\ resets \in Nat
    BY <1>2 DEF Init, Phases
  <1> QED BY <1>1, <1>4, <1>5, <1>6, <1>7, <1>8 DEF TypeOK

-----------------------------------------------------------------------------
(* What the helpers of the actions do to the types. *)

\* The pool hands out buffers and takes them back.
LEMMA PoolType ==
  ASSUME TypeOK
  PROVE  /\ PoolGet \in Nat \ {0} /\ \A g \in Groups : taken[g] \in Nat
         /\ TakeBuffer => free' \in Seq(Nat \ {0}) /\ fresh' \in Nat \ {0}
         /\ \A id \in Nat : PutBufferIfAny(id) =>
              free' \in Seq(Nat \ {0}) /\ fresh' \in Nat \ {0}
         /\ \A id \in Nat \ {0} : PutBuffer(id) =>
              free' \in Seq(Nat \ {0}) /\ fresh' \in Nat \ {0}
         /\ \A g \in Groups : KeepTaken(g) \/ ReturnTaken(g) =>
              /\ free' \in Seq(Nat \ {0}) /\ fresh' \in Nat \ {0}
              /\ taken' \in [Groups -> Nat]
  <1>1. /\ free \in Seq(Nat \ {0}) /\ fresh \in Nat \ {0} /\ taken \in [Groups -> Nat]
    BY DEF TypeOK
  <1>2. PoolGet \in Nat \ {0} /\ \A g \in Groups : taken[g] \in Nat
    BY <1>1 DEF PoolGet
  <1>3. TakeBuffer => free' \in Seq(Nat \ {0}) /\ fresh' \in Nat \ {0}
    <2>1. free # << >> => SubSeq(free, 1, Len(free) - 1) \in Seq(Nat \ {0})
      BY <1>1
    <2>2. CASE free = << >>
      BY <1>1, <2>2 DEF TakeBuffer
    <2>3. CASE free # << >>
      BY <1>1, <2>1, <2>3 DEF TakeBuffer
    <2> QED BY <2>2, <2>3
  <1>4. ASSUME NEW id \in Nat \ {0}, PutBuffer(id)
        PROVE  free' \in Seq(Nat \ {0}) /\ fresh' \in Nat \ {0}
    BY <1>1, <1>4 DEF PutBuffer
  <1>5. ASSUME NEW id \in Nat, PutBufferIfAny(id)
        PROVE  free' \in Seq(Nat \ {0}) /\ fresh' \in Nat \ {0}
    BY <1>1, <1>4, <1>5 DEF PutBufferIfAny
  <1>6. ASSUME NEW g \in Groups, KeepTaken(g) \/ ReturnTaken(g)
        PROVE  /\ free' \in Seq(Nat \ {0}) /\ fresh' \in Nat \ {0}
               /\ taken' \in [Groups -> Nat]
    BY <1>1, <1>2, <1>5, <1>6 DEF KeepTaken, ReturnTaken
  <1> QED BY <1>2, <1>3, <1>4, <1>5, <1>6

\* Every column writer has its type, and may be replaced by another.
LEMMA ColumnsType ==
  ASSUME TypeOK
  PROVE  /\ \A g \in Groups, k \in Columns : cw[g][k] \in ColumnWriterState
         /\ \A g \in Groups, k \in Columns, c \in ColumnWriterState :
              [cw EXCEPT ![g] = [@ EXCEPT ![k] = c]] \in [Groups -> [Columns -> ColumnWriterState]]
  BY DEF TypeOK

\* A column writer is replaced.
LEMMA SetColumnType ==
  ASSUME TypeOK, NEW g \in Groups, NEW k \in Columns, NEW c \in ColumnWriterState,
         SetColumn(g, k, c)
  PROVE  cw' \in [Groups -> [Columns -> ColumnWriterState]]
  BY ColumnsType DEF SetColumn

\* The job of the main thread.
LEMMA JobType ==
  ASSUME TypeOK, job # << >>
  PROVE  /\ job[1] \in Job /\ Group \in Groups
         /\ Tail(job) \in Seq(Job)
  <1>1. job[1] \in Job /\ Tail(job) \in Seq(Job)
    BY DEF TypeOK
  <1> QED BY <1>1 DEF Group, Job

\* Jobs on a row group and on the writer.
LEMMA JobsType ==
  /\ \A g \in Groups : OnRowGroup(g) \in Job
  /\ \A op \in {"closeColumns", "header", "deferred", "footer", "reset",
                "copyable", "columnar", "opaque", "copyRows"} : OnWriter(op) \in Job
  BY DEF OnRowGroup, OnWriter, Job, Groups

\* The loop over the columns stays in the columns.
LEMMA NextColumnType ==
  ASSUME TypeOK, NEW next \in Phases, NextColumnOr(next)
  PROVE  pos' \in Columns /\ phase' \in Phases
  BY ColumnAssumption DEF NextColumnOr, TypeOK, Columns

-----------------------------------------------------------------------------
(* Steps of a call that writes rows. *)

\* The application starts a call with new rows.
LEMMA WriteRowsType ==
  ASSUME TypeOK, NEW g \in Groups, NEW n \in 1 .. MaxCall, NEW kind \in CallKinds,
         WriteRows(g, n, kind)
  PROVE  TypeOK'
  <1>1. NewRows(n) \in Seq(Row) /\ nextRow' \in 1 .. MaxRows + 1
    BY ColumnAssumption, WriterAssumption DEF TypeOK, WriteRows, NewRows, Row
  <1> QED BY <1>1 DEF TypeOK, WriteRows, rgVars, poolVars, mainVars, outVars

\* What writing values, and flushing if the buffer is full, makes of a column.
LEMMA FillColumnType ==
  ASSUME NEW c \in ColumnWriterState, NEW k \in Columns, NEW full \in BOOLEAN, NEW id \in Nat
  PROVE  /\ (IF full THEN FlushColumn(c, k, id) ELSE c) \in ColumnWriterState
         /\ (IF full THEN FlushColumn(c, k, id) ELSE c).pageBuffer =
              IF full /\ NeedsPageBuffer(c) THEN id ELSE c.pageBuffer
  BY FlushColumnType

\* A column with the chunk of the call in its buffer.
LEMMA WithChunkType ==
  ASSUME TypeOK, NEW g \in Groups, NEW k \in Columns
  PROVE  /\ WithChunk(g, k) \in ColumnWriterState
         /\ WithChunk(g, k).pageBuffer = cw[g][k].pageBuffer
  BY WriteValuesType DEF TypeOK, WithChunk

\* The columns that GenericWriter.Write gives a chunk to.
LEMMA WriteToAllColumnsType ==
  ASSUME TypeOK, NEW g \in Groups, NEW rows \in Seq(Row)
  PROVE  /\ WriteToAllColumns(cw[g], rows) \in [Columns -> ColumnWriterState]
         /\ \A k \in Columns :
              WriteToAllColumns(cw[g], rows)[k].pageBuffer = cw[g][k].pageBuffer
  <1>1. ASSUME NEW k \in Columns
        PROVE  /\ WriteValues(IF resolved THEN cw[g][k] ELSE newColumnBuffer(cw[g][k]), k, rows)
                    \in ColumnWriterState
               /\ WriteValues(IF resolved THEN cw[g][k] ELSE newColumnBuffer(cw[g][k]), k, rows)
                    .pageBuffer = cw[g][k].pageBuffer
    <2>1. cw[g][k] \in ColumnWriterState
      BY DEF TypeOK
    <2>2. CASE resolved
      BY <2>1, <2>2, WriteValuesType
    <2>3. CASE ~resolved
      BY <2>1, <2>3, NewColumnBufferType, WriteValuesType
    <2> QED BY <2>2, <2>3
  <1> QED BY <1>1 DEF WriteToAllColumns

\* The next chunk of a call.
LEMMA NextChunkType ==
  ASSUME TypeOK, NEW g \in Groups, NextChunk(g)
  PROVE  TypeOK'
  <1> DEFINE length == ChunkLength(g)
             rows == SubSeq(todo[g], 1, length)
             rest == SubSeq(todo[g], length + 1, Len(todo[g]))
  <1>1. todo[g] \in Seq(Row) /\ numRows[g] \in Nat
    BY DEF TypeOK
  <1>2. length \in Nat /\ length <= Len(todo[g])
    BY <1>1, WriterAssumption DEF NextChunk, Full, ChunkLength, Lesser
  <1>3. rows \in Seq(Row) /\ rest \in Seq(Row)
    <2> HIDE DEF length
    <2> QED BY <1>1, <1>2
  <1>4. 1 \in Columns
    BY ColumnAssumption DEF Columns
  <1> DEFINE columns == WriteToAllColumns(cw[g], rows)
  <1>5. columns \in [Columns -> ColumnWriterState]
    BY <1>3, WriteToAllColumnsType
  <1>6. /\ chunk' = [chunk EXCEPT ![g] = rows] /\ todo' = [todo EXCEPT ![g] = rest]
        /\ col' = [col EXCEPT ![g] = 1] /\ resolved' = (resolved \/ Generic(g))
        /\ cw' = IF Generic(g) THEN [cw EXCEPT ![g] = columns] ELSE cw
        /\ UNCHANGED <<numRows, pc, generic, nextRow, poolVars, mainVars, outVars>>
    BY DEF NextChunk
  <1>7. resolved' \in BOOLEAN
    BY <1>6
  <1> HIDE DEF rows, rest, columns
  <1>8. /\ chunk' \in [Groups -> Seq(Row)] /\ todo' \in [Groups -> Seq(Row)]
        /\ col' \in [Groups -> Columns]
        /\ cw' \in [Groups -> [Columns -> ColumnWriterState]]
    BY <1>3, <1>4, <1>5, <1>6 DEF TypeOK
  <1> QED BY <1>6, <1>7, <1>8 DEF TypeOK, poolVars, mainVars, outVars

\* The row group is full.
LEMMA GroupFullType ==
  ASSUME TypeOK, NEW g \in Groups, GroupFull(g)
  PROVE  TypeOK'
  <1>1. <<OnRowGroup(0)>> \o job \in Seq(Job)
    BY JobsType DEF TypeOK, Groups
  <1>2. << >> \in Seq(Row)
    OBVIOUS
  <1> QED BY <1>1, <1>2 DEF TypeOK, GroupFull, rgVars, poolVars, outVars

\* One column gets a chunk.
LEMMA WriteColumnType ==
  ASSUME TypeOK, NEW g \in Groups, WriteColumn(g)
  PROVE  TypeOK'
  <1> DEFINE k == col[g]
             c == WithChunk(g, k)
             full == BufferBytes(c) >= BufferSize[k]
             d == IF full THEN FlushColumn(c, k, taken[g]) ELSE c
  <1>1. k \in Columns /\ chunk[g] \in Seq(Row)
    BY DEF TypeOK
  <1>2. c \in ColumnWriterState
    BY <1>1, WithChunkType
  <1>3. d \in ColumnWriterState
    BY <1>1, <1>2, PoolType, FillColumnType
  <1>4. SetColumn(g, k, d)
    BY DEF WriteColumn
  <1>5. cw' \in [Groups -> [Columns -> ColumnWriterState]]
    <2> HIDE DEF d, k
    <2> QED BY <1>1, <1>3, <1>4, SetColumnType
  <1>6. free' \in Seq(Nat \ {0}) /\ fresh' \in Nat \ {0} /\ taken' \in [Groups -> Nat]
    BY PoolType DEF WriteColumn
  <1>7. /\ numRows' \in [Groups -> Nat] /\ chunk' \in [Groups -> Seq(Row)]
        /\ col' \in [Groups -> Columns]
        /\ pc' \in [Groups -> {"idle", "write", "flush", "failed"}]
    <2>1. CASE k < NumColumns
      <3>1. col' = [col EXCEPT ![g] = k + 1] /\ UNCHANGED <<numRows, pc, chunk>>
        BY <2>1 DEF WriteColumn
      <3>2. k + 1 \in Columns
        BY <1>1, <2>1, ColumnAssumption DEF Columns
      <3> QED BY <3>1, <3>2 DEF TypeOK
    <2>2. CASE ~(k < NumColumns)
      <3>1. /\ numRows' = [numRows EXCEPT ![g] = @ + Len(chunk[g])]
            /\ chunk' = [chunk EXCEPT ![g] = << >>]
            /\ pc' = [pc EXCEPT ![g] = IF todo[g] = << >> THEN "idle" ELSE "write"]
            /\ UNCHANGED col
        BY <2>2 DEF WriteColumn
      <3> QED BY <1>1, <3>1 DEF TypeOK
    <2> QED BY <2>1, <2>2
  <1>8. UNCHANGED <<todo, generic, resolved, nextRow, mainVars, outVars>>
    BY DEF WriteColumn
  <1> HIDE DEF k, c, full, d
  <1> QED BY <1>5, <1>6, <1>7, <1>8 DEF TypeOK, mainVars, outVars

\* A call on a row group ends with an error.
LEMMA FailType ==
  ASSUME TypeOK, NEW g \in Groups, Fail(g)
  PROVE  /\ pc' \in [Groups -> {"idle", "write", "flush", "failed"}]
         /\ todo' \in [Groups -> Seq(Row)] /\ chunk' \in [Groups -> Seq(Row)]
         /\ status' \in {"open", "closed", "failed"} /\ job' \in Seq(Job)
  BY DEF TypeOK, Fail

\* A page buffer fails while rows are written.
LEMMA WriteColumnFailsType ==
  ASSUME TypeOK, NEW g \in Groups, WriteColumnFails(g)
  PROVE  TypeOK'
  <1> DEFINE k == col[g]
             d == FlushColumnFails(WithChunk(g, k), k, taken[g])
  <1>1. k \in Columns /\ chunk[g] \in Seq(Row)
    BY DEF TypeOK
  <1>2. d \in ColumnWriterState
    BY <1>1, WithChunkType, FlushColumnFailsType
  <1>3. SetColumn(g, k, d) /\ Fail(g)
    BY DEF WriteColumnFails
  <1>4. cw' \in [Groups -> [Columns -> ColumnWriterState]]
    <2> HIDE DEF d, k
    <2> QED BY <1>1, <1>2, <1>3, SetColumnType
  <1>5. numRows' \in [Groups -> Nat]
    BY <1>1 DEF TypeOK, WriteColumnFails
  <1>6. UNCHANGED <<col, generic, resolved, nextRow, phase, pos, source,
                    done, meta, file, offset, rowGroups, deferred, resets>>
    BY DEF WriteColumnFails
  <1>7. free' \in Seq(Nat \ {0}) /\ fresh' \in Nat \ {0} /\ taken' \in [Groups -> Nat]
    BY PoolType DEF WriteColumnFails
  <1> HIDE DEF k, d
  <1> QED BY <1>3, <1>4, <1>5, <1>6, <1>7, FailType DEF TypeOK

\* A call of Flush on a row group of BeginRowGroup.
LEMMA FlushGroupType ==
  ASSUME TypeOK, NEW g \in Groups,
         FlushGroup(g) \/ FlushGroupColumn(g) \/ FlushGroupColumnFails(g)
  PROVE  TypeOK'
  <1> DEFINE k == col[g]
             c == cw[g][k]
  <1>1. k \in Columns /\ c \in ColumnWriterState
    BY DEF TypeOK
  <1>2. CASE FlushGroup(g)
    BY <1>2, ColumnAssumption DEF Columns, TypeOK, FlushGroup, rgVars, poolVars, mainVars, outVars
  <1>3. CASE FlushGroupColumn(g)
    <2> DEFINE d == FlushColumn(c, k, taken[g])
    <2>1. d \in ColumnWriterState
      BY <1>1, PoolType, FlushColumnType
    <2>2. SetColumn(g, k, d)
      BY <1>3 DEF FlushGroupColumn
    <2>3. cw' \in [Groups -> [Columns -> ColumnWriterState]]
      <3> HIDE DEF d, k
      <3> QED BY <1>1, <2>1, <2>2, SetColumnType
    <2>4. free' \in Seq(Nat \ {0}) /\ fresh' \in Nat \ {0} /\ taken' \in [Groups -> Nat]
      BY <1>3, PoolType DEF FlushGroupColumn
    <2>5. /\ col' \in [Groups -> Columns]
          /\ pc' \in [Groups -> {"idle", "write", "flush", "failed"}]
      <3>1. CASE k < NumColumns
        <4>1. col' = [col EXCEPT ![g] = k + 1] /\ UNCHANGED pc
          BY <1>3, <3>1 DEF FlushGroupColumn
        <4>2. k + 1 \in Columns
          BY <1>1, <3>1, ColumnAssumption DEF Columns
        <4> QED BY <4>1, <4>2 DEF TypeOK
      <3>2. CASE ~(k < NumColumns)
        BY <1>3, <3>2 DEF FlushGroupColumn, TypeOK
      <3> QED BY <3>1, <3>2
    <2>6. UNCHANGED <<numRows, todo, chunk, generic, resolved, nextRow, mainVars, outVars>>
      BY <1>3 DEF FlushGroupColumn
    <2> HIDE DEF k, c, d
    <2> QED BY <2>3, <2>4, <2>5, <2>6 DEF TypeOK, mainVars, outVars
  <1>4. CASE FlushGroupColumnFails(g)
    <2> DEFINE d == FlushColumnFails(c, k, taken[g])
    <2>1. d \in ColumnWriterState
      BY <1>1, FlushColumnFailsType
    <2>2. SetColumn(g, k, d) /\ Fail(g)
      BY <1>4 DEF FlushGroupColumnFails
    <2>3. cw' \in [Groups -> [Columns -> ColumnWriterState]]
      <3> HIDE DEF d, k
      <3> QED BY <1>1, <2>1, <2>2, SetColumnType
    <2>4. UNCHANGED <<numRows, col, generic, resolved, nextRow, phase, pos, source,
                      done, meta, file, offset, rowGroups, deferred, resets>>
      BY <1>4 DEF FlushGroupColumnFails
    <2>5. free' \in Seq(Nat \ {0}) /\ fresh' \in Nat \ {0} /\ taken' \in [Groups -> Nat]
      BY <1>4, PoolType DEF FlushGroupColumnFails
    <2> HIDE DEF k, c, d
    <2> QED BY <2>2, <2>3, <2>4, <2>5, FailType DEF TypeOK
  <1> QED BY <1>2, <1>3, <1>4

-----------------------------------------------------------------------------
(* Steps of writeRowGroup. *)

\* The call of the main thread ends with an error.
LEMMA AbortCallType ==
  ASSUME TypeOK, AbortCall
  PROVE  /\ job' \in Seq(Job) /\ source' \in Seq(Row)
         /\ pc' \in [Groups -> {"idle", "write", "flush", "failed"}]
         /\ todo' \in [Groups -> Seq(Row)]
  BY DEF Groups, TypeOK, AbortCall

\* The early returns and the start of writeRowGroup.
LEMMA StartRowGroupType ==
  ASSUME TypeOK, SkipEmptyRowGroup \/ TooManyRowGroups \/ StartRowGroup
  PROVE  TypeOK'
  <1>1. CASE SkipEmptyRowGroup
    BY <1>1, JobType DEF TypeOK, SkipEmptyRowGroup, InRowGroup, Running,
                         rgVars, callVars, poolVars, outVars
  <1>2. CASE TooManyRowGroups
    BY <1>2, AbortCallType DEF TypeOK, TooManyRowGroups, rgVars, poolVars, outVars
  <1>3. CASE StartRowGroup
    <2>1. pos' \in Columns /\ phase' \in Phases
      BY <1>3, ColumnAssumption DEF StartRowGroup, Phases, Columns
    <2> QED BY <1>3, <2>1 DEF TypeOK, StartRowGroup, rgVars, callVars, poolVars, outVars
  <1> QED BY <1>1, <1>2, <1>3

\* The last page of a column is flushed, or that fails, or its filter fails.
LEMMA FlushRowGroupColumnType ==
  ASSUME TypeOK, FlushRowGroupColumn \/ FlushRowGroupColumnFails \/ FlushFilterPagesFails
  PROVE  TypeOK'
  <1> DEFINE c == cw[Group][pos]
             flushed == FlushColumn(c, pos, taken[Group])
  <1>1. Group \in Groups /\ pos \in Columns
    BY JobType DEF FlushRowGroupColumn, FlushRowGroupColumnFails, FlushFilterPagesFails,
                   InRowGroup, Running, TypeOK
  <1>2. c \in ColumnWriterState
    BY <1>1, ColumnsType
  <1>3. flushed \in ColumnWriterState
    BY <1>1, <1>2, PoolType, FlushColumnType
  <1>4. free' \in Seq(Nat \ {0}) /\ fresh' \in Nat \ {0} /\ taken' \in [Groups -> Nat]
    BY <1>1, PoolType DEF FlushRowGroupColumn, FlushRowGroupColumnFails, FlushFilterPagesFails
  <1>5. 1 \in Columns /\ "abort" \in Phases
    BY ColumnAssumption DEF Columns, Phases
  <1>6. CASE FlushRowGroupColumn
    <2> DEFINE d == IF c.copied THEN flushed ELSE flushFilterPages(flushed, pos)
    <2>1. d \in ColumnWriterState
      <3> HIDE DEF flushed
      <3> QED BY <1>1, <1>3, FilterType
    <2>2. SetColumn(Group, pos, d)
      BY <1>6 DEF FlushRowGroupColumn
    <2>3. cw' \in [Groups -> [Columns -> ColumnWriterState]]
      <3> HIDE DEF d
      <3> QED BY <1>1, <2>1, <2>2, SetColumnType
    <2>4. pos' \in Columns /\ phase' \in Phases
      BY <1>6, NextColumnType DEF FlushRowGroupColumn, Phases
    <2>5. UNCHANGED <<numRows, callVars, job, source, done, meta, outVars>>
      BY <1>6 DEF FlushRowGroupColumn
    <2> HIDE DEF c, d, flushed
    <2> QED BY <1>4, <2>3, <2>4, <2>5 DEF TypeOK, callVars, outVars
  <1>7. CASE FlushRowGroupColumnFails
    <2>1. SetColumn(Group, pos, FlushColumnFails(c, pos, taken[Group]))
      BY <1>7 DEF FlushRowGroupColumnFails
    <2>2. cw' \in [Groups -> [Columns -> ColumnWriterState]]
      BY <1>1, <1>2, <2>1, FlushColumnFailsType, SetColumnType
    <2>3. /\ pos' = 1 /\ phase' = "abort"
          /\ UNCHANGED <<numRows, callVars, job, source, done, meta, outVars>>
      BY <1>7 DEF FlushRowGroupColumnFails
    <2> HIDE DEF c
    <2> QED BY <1>4, <1>5, <2>2, <2>3 DEF TypeOK, callVars, outVars
  <1>8. CASE FlushFilterPagesFails
    <2>1. /\ SetColumn(Group, pos, flushed) /\ pos' = 1 /\ phase' = "abort"
          /\ UNCHANGED <<numRows, callVars, job, source, done, meta, outVars>>
      BY <1>8 DEF FlushFilterPagesFails
    <2> HIDE DEF c, flushed
    <2>2. cw' \in [Groups -> [Columns -> ColumnWriterState]]
      BY <1>1, <1>3, <2>1, SetColumnType
    <2> QED BY <1>4, <1>5, <2>1, <2>2 DEF TypeOK, callVars, outVars
  <1> QED BY <1>6, <1>7, <1>8

\* Writing a segment at the tracked offset.
LEMMA OutputType ==
  ASSUME TypeOK, NEW s \in Segment, Output(s)
  PROVE  file' \in SUBSET Segment /\ offset' \in Nat
  BY DEF TypeOK, Output, Segment

\* The magic bytes.
LEMMA PutMagicType ==
  ASSUME TypeOK, PutMagic
  PROVE  file' \in SUBSET Segment /\ offset' \in Nat
  <1> DEFINE s == [at |-> offset, size |-> MagicSize, kind |-> "magic", rows |-> << >>,
                   encoding |-> "PLAIN", values |-> {}]
  <1>1. s \in Segment
    BY DEF TypeOK, Segment, MagicSize
  <1>2. CASE offset = 0
    <2>1. Output(s)
      BY <1>2 DEF PutMagic
    <2> HIDE DEF s
    <2> QED BY <1>1, <2>1, OutputType
  <1>3. CASE offset # 0
    BY <1>3 DEF PutMagic, TypeOK
  <1> QED BY <1>2, <1>3

\* The file header of a row group.
LEMMA WriteHeaderType ==
  ASSUME TypeOK, WriteHeader
  PROVE  TypeOK'
  <1>1. file' \in SUBSET Segment /\ offset' \in Nat
    BY PutMagicType DEF WriteHeader
  <1>2. pos' \in Columns /\ phase' \in Phases
    BY ColumnAssumption DEF WriteHeader, Phases, Columns
  <1> QED BY <1>1, <1>2 DEF WriteHeader, TypeOK, rgVars, callVars, poolVars

\* The segments of a column are segments, its size is a natural and its
\* rebased locations are locations.
LEMMA ColumnPagesType ==
  ASSUME NEW c \in ColumnWriterState, NEW at \in Nat
  PROVE  /\ DictionarySegment(c, at) \in Segment
         /\ DataSegments(c, at) \in SUBSET Segment
         /\ Rebased(c.locations, at) \in Seq(PageLocation)
  <1>1. DictionaryBytes(c) \in Nat /\ HeaderSize \in Nat
    BY DictionaryBytesType, ColumnAssumption
  <1>2. DictionarySegment(c, at) \in Segment
    BY <1>1 DEF DictionarySegment, Segment, ColumnWriterState
  <1>3. DataSegments(c, at) \in SUBSET Segment
    <2>1. c.pages \in Seq(Page)
      BY DEF ColumnWriterState
    <2>2. \A i \in 1 .. Len(c.pages) : c.pages[i] \in Page
      BY <2>1
    <2> QED BY <2>2 DEF DataSegments, Segment, Page
  <1>4. Rebased(c.locations, at) \in Seq(PageLocation)
    <2>1. c.locations \in Seq(PageLocation)
      BY DEF ColumnWriterState
    <2> DEFINE r(i) == [c.locations[i] EXCEPT !.offset = @ + at]
    <2>2. ASSUME NEW i \in 1 .. Len(c.locations) PROVE r(i) \in PageLocation
      <3>1. c.locations[i] \in PageLocation
        BY <2>1
      <3> QED BY <3>1 DEF PageLocation
    <2>3. Rebased(c.locations, at) = [i \in 1 .. Len(c.locations) |-> r(i)]
      BY DEF Rebased
    <2>4. Len(c.locations) \in Nat
      BY <2>1
    <2> HIDE DEF r
    <2> QED BY <2>2, <2>3, <2>4
  <1> QED BY <1>2, <1>3, <1>4

\* The pages of a column go to the file.
LEMMA WriteColumnPagesType ==
  ASSUME TypeOK, WriteColumnPages
  PROVE  TypeOK'
  <1> DEFINE c == cw[Group][pos]
             dict == pos \in DictionaryColumns
             base == IF dict THEN offset + HeaderSize + DictionaryBytes(c) ELSE offset
             m == [meta[pos] EXCEPT !.dictionaryPageOffset = IF dict THEN offset ELSE 0,
                                    !.dataPageOffset = IF c.pages = << >> THEN 0 ELSE base,
                                    !.locations = Rebased(c.locations, base)]
  <1>1. Group \in Groups /\ pos \in Columns /\ offset \in Nat
    BY JobType DEF WriteColumnPages, InRowGroup, Running, TypeOK
  <1>2. c \in ColumnWriterState
    BY <1>1, ColumnsType
  <1>3. base \in Nat /\ c.pageBytes \in Nat
    <2>1. DictionaryBytes(c) \in Nat /\ HeaderSize \in Nat
      BY <1>2, DictionaryBytesType, ColumnAssumption
    <2> HIDE DEF c
    <2> QED BY <1>1, <1>2, <2>1 DEF ColumnWriterState
  <1>4. /\ DictionarySegment(c, offset) \in Segment
        /\ DataSegments(c, base) \in SUBSET Segment
        /\ Rebased(c.locations, base) \in Seq(PageLocation)
    <2> HIDE DEF c, base
    <2> QED BY <1>1, <1>2, <1>3, ColumnPagesType
  <1>5. m \in ColumnChunk
    <2>1. meta[pos] \in ColumnChunk
      BY <1>1 DEF TypeOK
    <2> HIDE DEF c, base, dict
    <2> QED BY <1>1, <1>3, <1>4, <2>1 DEF ColumnChunk
  <1>6. /\ file' = file \cup (IF dict THEN {DictionarySegment(c, offset)} ELSE {})
                       \cup DataSegments(c, base)
        /\ offset' = base + c.pageBytes
        /\ meta' = [meta EXCEPT ![pos] = m]
        /\ NextColumnOr("bloom")
        /\ UNCHANGED <<rgVars, callVars, poolVars, job, source, done, rowGroups, deferred,
                       status, resets>>
    BY DEF WriteColumnPages
  <1> HIDE DEF c, dict, base, m
  <1>7. /\ file' \in SUBSET Segment /\ offset' \in Nat
        /\ meta' \in [Columns -> ColumnChunk]
    <2>1. file \in SUBSET Segment /\ meta \in [Columns -> ColumnChunk]
      BY DEF TypeOK
    <2>2. file' \in SUBSET Segment
      BY <1>4, <1>6, <2>1
    <2>3. offset' \in Nat
      BY <1>3, <1>6
    <2>4. meta' \in [Columns -> ColumnChunk]
      BY <1>1, <1>5, <1>6, <2>1
    <2> QED BY <2>2, <2>3, <2>4
  <1>8. pos' \in Columns /\ phase' \in Phases
    BY <1>6, NextColumnType DEF Phases
  <1> QED BY <1>6, <1>7, <1>8 DEF TypeOK, rgVars, callVars, poolVars

\* A bloom filter is a segment.
LEMMA BloomSegmentType ==
  ASSUME NEW values \in SUBSET Value, NEW at \in Nat
  PROVE  BloomSegment(values, at) \in Segment
  BY ColumnAssumption DEF BloomSegment, BloomSize, Segment

\* The bloom filter of a column: none, deferred or written.
LEMMA BloomFilterType ==
  ASSUME TypeOK, NoBloomFilter \/ DeferBloomFilter \/ WriteBloomFilter \/ WriteRowGroupFails
  PROVE  TypeOK'
  <1> DEFINE f == cw[Group][pos].filter
  <1>1. Group \in Groups /\ pos \in Columns /\ offset \in Nat
    BY JobType DEF NoBloomFilter, DeferBloomFilter, WriteBloomFilter, WriteRowGroupFails,
                   InRowGroup, Running, TypeOK
  <1>2. f.values \in SUBSET Value
    BY <1>1, ColumnsType DEF ColumnWriterState, Filter
  <1>3. CASE NoBloomFilter
    BY <1>3, NextColumnType DEF NoBloomFilter, TypeOK, Phases, rgVars, callVars, poolVars, outVars
  <1>4. CASE DeferBloomFilter
    <2> DEFINE d == [group |-> RowGroupIndex, column |-> pos, values |-> f.values,
                     buffer |-> taken[Group]]
    <2>1. d \in DeferredFilter
      <3>1. RowGroupIndex \in Nat
        BY DEF RowGroupIndex, TypeOK
      <3>2. taken[Group] \in Nat \ {0}
        BY <1>1, <1>4, PoolType DEF DeferBloomFilter, BufferReady
      <3> HIDE DEF f
      <3> QED BY <1>1, <1>2, <3>1, <3>2 DEF DeferredFilter
    <2>2. deferred' = Append(deferred, d)
      BY <1>4 DEF DeferBloomFilter
    <2>3. deferred' \in Seq(DeferredFilter)
      <3> HIDE DEF d
      <3> QED BY <2>1, <2>2 DEF TypeOK
    <2>4. free' \in Seq(Nat \ {0}) /\ fresh' \in Nat \ {0} /\ taken' \in [Groups -> Nat]
      BY <1>1, <1>4, PoolType DEF DeferBloomFilter
    <2>5. pos' \in Columns /\ phase' \in Phases
      BY <1>4, NextColumnType DEF DeferBloomFilter, Phases
    <2> QED BY <1>4, <2>3, <2>4, <2>5 DEF DeferBloomFilter, TypeOK, rgVars, callVars
  <1>5. CASE WriteBloomFilter
    <2>1. file' \in SUBSET Segment /\ offset' \in Nat
      BY <1>1, <1>2, <1>5, BloomSegmentType, OutputType DEF WriteBloomFilter
    <2>2. pos' \in Columns /\ phase' \in Phases
      BY <1>5, NextColumnType DEF WriteBloomFilter, Phases
    <2>3. meta' \in [Columns -> ColumnChunk]
      <3>1. [meta[pos] EXCEPT !.bloomFilterOffset = offset] \in ColumnChunk
        BY <1>1 DEF TypeOK, ColumnChunk
      <3>2. meta' = [meta EXCEPT ![pos] = [meta[pos] EXCEPT !.bloomFilterOffset = offset]]
        BY <1>5 DEF WriteBloomFilter
      <3> QED BY <1>1, <3>1, <3>2 DEF TypeOK
    <2> QED BY <1>5, <2>1, <2>2, <2>3 DEF WriteBloomFilter, TypeOK, rgVars, callVars, poolVars
  <1>6. CASE WriteRowGroupFails
    <2>1. free' \in Seq(Nat \ {0}) /\ fresh' \in Nat \ {0} /\ taken' \in [Groups -> Nat]
      BY <1>1, <1>6, PoolType DEF WriteRowGroupFails
    <2> QED BY <1>6, <2>1, ColumnAssumption DEF WriteRowGroupFails, TypeOK, Phases, Columns,
                                                rgVars, callVars, outVars
  <1> QED BY <1>3, <1>4, <1>5, <1>6

\* The metadata of the row group joins that of the file.
LEMMA AppendRowGroupType ==
  ASSUME TypeOK, AppendRowGroup
  PROVE  TypeOK'
  <1> DEFINE r == [numRows |-> totalRowCount(cw[Group][1]), columns |-> meta]
  <1>1. r \in RowGroup
    <2>1. Group \in Groups /\ 1 \in Columns
      BY JobType, ColumnAssumption DEF AppendRowGroup, InRowGroup, Running, Columns
    <2>2. totalRowCount(cw[Group][1]) \in Nat
      BY <2>1, ColumnsType, BufferedType
    <2> QED BY <2>2 DEF RowGroup, TypeOK
  <1>2. rowGroups' = Append(rowGroups, r)
    BY DEF AppendRowGroup
  <1>3. rowGroups' \in Seq(RowGroup)
    <2> HIDE DEF r
    <2> QED BY <1>1, <1>2 DEF TypeOK
  <1>4. pos' \in Columns /\ phase' \in Phases
    BY ColumnAssumption DEF AppendRowGroup, Phases, Columns
  <1> HIDE DEF r
  <1> QED BY <1>3, <1>4 DEF AppendRowGroup, TypeOK, rgVars, callVars, poolVars

\* A column of the row group is reset.
LEMMA ResetRowGroupColumnType ==
  ASSUME TypeOK, ResetRowGroupColumn
  PROVE  TypeOK'
  <1>1. Group \in Groups /\ pos \in Columns /\ Tail(job) \in Seq(Job)
    BY JobType DEF ResetRowGroupColumn, TypeOK
  <1>2. cw[Group][pos] \in ColumnWriterState
    BY <1>1, ColumnsType
  <1>3. cw' \in [Groups -> [Columns -> ColumnWriterState]]
    BY <1>1, <1>2, ResetColumnType, SetColumnType DEF ResetRowGroupColumn
  <1>4. /\ free' \in Seq(Nat \ {0}) /\ fresh' \in Nat \ {0}
        /\ taken' \in [Groups -> Nat]
    BY <1>2, PoolType DEF ColumnWriterState, ResetRowGroupColumn, TypeOK
  <1>5. numRows' \in [Groups -> Nat] /\ meta' \in [Columns -> ColumnChunk]
    <2>1. NoChunk \in ColumnChunk
      BY DEF NoChunk, ColumnChunk
    <2> QED BY <1>1, <2>1 DEF ResetRowGroupColumn, ResetNumRows, TypeOK
  <1>6. pos' \in Columns /\ phase' \in Phases
    BY NextColumnType DEF ResetRowGroupColumn, Phases
  <1>7. /\ job' \in Seq(Job) /\ source' \in Seq(Row)
        /\ pc' \in [Groups -> {"idle", "write", "flush", "failed"}]
        /\ todo' \in [Groups -> Seq(Row)] /\ status' \in {"open", "closed", "failed"}
    <2>1. CASE pos < NumColumns
      BY <2>1 DEF ResetRowGroupColumn, TypeOK
    <2>2. CASE ~(pos < NumColumns) /\ phase = "reset"
      BY <1>1, <2>2 DEF ResetRowGroupColumn, TypeOK
    <2>3. CASE ~(pos < NumColumns) /\ phase # "reset"
      BY <2>3, AbortCallType DEF ResetRowGroupColumn
    <2> QED BY <2>1, <2>2, <2>3
  <1>8. UNCHANGED <<chunk, col, generic, resolved, nextRow, done, file, offset, rowGroups,
                    deferred, resets>>
    BY DEF ResetRowGroupColumn
  <1> QED BY <1>3, <1>4, <1>5, <1>6, <1>7, <1>8 DEF TypeOK

-----------------------------------------------------------------------------
(* The calls of the main thread. *)

\* A call that only sets the jobs of the main thread.
LEMMA CallType ==
  ASSUME TypeOK, NEW jobs \in Seq(Job), Call(jobs)
  PROVE  TypeOK'
  BY ColumnAssumption DEF Call, TypeOK, Phases, Columns, rgVars, callVars, poolVars, outVars

\* Flush, Commit, Close and Reset are called.
LEMMA CallsType ==
  ASSUME TypeOK, NEW g \in Groups, Flush \/ Commit(g) \/ Close \/ Reset
  PROVE  TypeOK'
  <1>1. 0 \in Groups
    BY DEF Groups
  <1>2. CASE Flush
    <2>1. <<OnRowGroup(0)>> \in Seq(Job)
      BY <1>1, JobsType
    <2> QED BY <1>2, <2>1, CallType DEF Flush
  <1>3. CASE Commit(g)
    <2>1. <<OnRowGroup(0), OnRowGroup(g)>> \in Seq(Job)
      BY <1>1, JobsType
    <2> QED BY <1>3, <2>1, CallType DEF Commit
  <1>4. CASE Close
    <2>1. <<OnWriter("closeColumns"), OnWriter("header"), OnRowGroup(0),
            OnWriter("deferred"), OnWriter("footer")>> \in Seq(Job)
      BY <1>1, JobsType
    <2> QED BY <1>4, <2>1, CallType DEF Close
  <1>5. CASE Reset
    <2>1. <<OnWriter("reset")>> \in Seq(Job)
      BY JobsType
    <2>2. job' \in Seq(Job) /\ phase' \in Phases /\ pos' \in Columns /\ resets' \in Nat
      BY <1>5, <2>1, ColumnAssumption DEF Reset, TypeOK, Phases, Columns
    <2> QED BY <1>5, <2>2 DEF Reset, TypeOK, rgVars, callVars, poolVars
  <1> QED BY <1>2, <1>3, <1>4, <1>5

\* WriteRowGroup is called.
LEMMA WriteRowGroupType ==
  ASSUME TypeOK, NEW n \in 1 .. MaxCall, NEW kind \in {"copyable", "columnar", "opaque"},
         WriteRowGroup(n, kind)
  PROVE  TypeOK'
  <1> DEFINE path == IF n > MaxRowsPerRowGroup THEN "opaque" ELSE kind
  <1>1. NewRows(n) \in Seq(Row) /\ nextRow' \in 1 .. MaxRows + 1
    BY ColumnAssumption, WriterAssumption DEF TypeOK, WriteRowGroup, NewRows, Row
  <1>2. path \in {"copyable", "columnar", "opaque"}
    OBVIOUS
  <1>3. AfterFlush(path) \in Seq(Job)
    BY <1>2, JobsType DEF Groups, AfterFlush
  <1>4. /\ source' = NewRows(n) /\ done' = 0 /\ job' = AfterFlush(path)
        /\ phase' = "start" /\ pos' = 1
        /\ UNCHANGED <<rgVars, pc, todo, chunk, col, generic, resolved, poolVars, meta, outVars>>
    BY DEF WriteRowGroup
  <1> HIDE DEF path
  <1> QED BY <1>1, <1>3, <1>4, ColumnAssumption
      DEF TypeOK, Phases, Columns, rgVars, poolVars, outVars

\* A column is staged for a verbatim copy.
LEMMA LoadCopiedChunkStepType ==
  ASSUME TypeOK, LoadCopiedChunk
  PROVE  TypeOK'
  <1> DEFINE c == loadCopiedChunk(cw[0][pos], pos,
                                  SourceChunk(pos, source, SourcePage, SourceOffset))
  <1>1. 0 \in Groups /\ pos \in Columns /\ Tail(job) \in Seq(Job) /\ source \in Seq(Row)
    BY JobType DEF LoadCopiedChunk, Running, TypeOK, Groups
  <1>2. c \in ColumnWriterState
    BY <1>1, ColumnsType, LoadCopiedChunkType, WriterAssumption DEF SourceOffset
  <1>3. cw' \in [Groups -> [Columns -> ColumnWriterState]]
    <2>1. SetColumn(0, pos, c)
      BY DEF LoadCopiedChunk
    <2> HIDE DEF c
    <2> QED BY <1>1, <1>2, <2>1, SetColumnType
  <1>4. pos' \in Columns /\ job' \in Seq(Job) /\ source' \in Seq(Row)
    <2>1. CASE pos < NumColumns
      BY <1>1, <2>1, ColumnAssumption DEF LoadCopiedChunk, Columns, TypeOK
    <2>2. CASE ~(pos < NumColumns)
      <3>1. pos' = 1 /\ job' = Tail(job) /\ source' = << >>
        BY <2>2 DEF LoadCopiedChunk
      <3> QED BY <1>1, <3>1, ColumnAssumption DEF Columns
    <2> QED BY <2>1, <2>2
  <1>5. UNCHANGED <<numRows, callVars, poolVars, phase, done, meta, outVars>>
    BY DEF LoadCopiedChunk
  <1> HIDE DEF c
  <1> QED BY <1>3, <1>4, <1>5 DEF TypeOK, callVars, poolVars, outVars

\* The filters of the current row group are sized.
LEMMA WithBloomFiltersType ==
  ASSUME TypeOK, NEW g \in Groups
  PROVE  /\ WithBloomFilters(cw[g]) \in [Columns -> ColumnWriterState]
         /\ \A k \in Columns : WithBloomFilters(cw[g])[k].pageBuffer = cw[g][k].pageBuffer
  BY ColumnsType, FilterType DEF WithBloomFilters

\* The row-oriented path of WriteRowGroup.
LEMMA CopyRowsType ==
  ASSUME TypeOK, StartCopyRows \/ RowsCopied \/ CopyRowsFails \/ WriteRowGroupSourceFails
  PROVE  TypeOK'
  <1>1. 0 \in Groups /\ Tail(job) \in Seq(Job)
    BY JobType DEF StartCopyRows, RowsCopied, CopyRowsFails, WriteRowGroupSourceFails, Running,
                   Groups
  <1>2. CASE StartCopyRows
    <2>1. cw' \in [Groups -> [Columns -> ColumnWriterState]]
      BY <1>1, <1>2, WithBloomFiltersType DEF StartCopyRows, TypeOK
    <2>2. job' \in Seq(Job)
      BY <1>1, <1>2, JobsType DEF StartCopyRows
    <2>3. /\ pc' \in [Groups -> {"idle", "write", "flush", "failed"}]
          /\ todo' \in [Groups -> Seq(Row)] /\ source' \in Seq(Row)
      BY <1>1, <1>2 DEF StartCopyRows, TypeOK
    <2>4. generic' \in BOOLEAN
      BY <1>2, Zenon DEF StartCopyRows
    <2> QED BY <1>2, <2>1, <2>2, <2>3, <2>4 DEF StartCopyRows, TypeOK, poolVars, outVars
  <1>3. CASE RowsCopied
    BY <1>1, <1>3 DEF RowsCopied, TypeOK, rgVars, callVars, poolVars, outVars
  <1>4. CASE WriteRowGroupSourceFails
    BY <1>4 DEF WriteRowGroupSourceFails, TypeOK, rgVars, callVars, poolVars
  <1>5. CASE CopyRowsFails
    BY <1>1, <1>5, FailType DEF CopyRowsFails, TypeOK, rgVars, poolVars
  <1> QED BY <1>2, <1>3, <1>4, <1>5

\* The column-oriented path of WriteRowGroup: the column that gets a batch.
LEMMA BatchColumnType ==
  ASSUME TypeOK
  PROVE  /\ BatchColumns \in [Columns -> ColumnWriterState]
         /\ \A k \in Columns : BatchColumns[k].pageBuffer = cw[0][k].pageBuffer
         /\ BatchEnd \in Nat /\ BatchEnd <= Len(source)
         /\ SubSeq(source, done + 1, BatchEnd) \in Seq(Row)
         /\ BatchColumn \in ColumnWriterState
         /\ BatchColumn.pageBuffer = cw[0][pos].pageBuffer
  <1> DEFINE batch == SubSeq(source, done + 1, BatchEnd)
  <1>1. 0 \in Groups /\ pos \in Columns /\ cw[0] \in [Columns -> ColumnWriterState]
    BY DEF TypeOK, Groups
  <1>2. /\ BatchColumns \in [Columns -> ColumnWriterState]
        /\ \A k \in Columns : BatchColumns[k].pageBuffer = cw[0][k].pageBuffer
    BY <1>1, WithBloomFiltersType DEF BatchColumns
  <1>3. BatchEnd \in Nat /\ BatchEnd <= Len(source)
    BY WriterAssumption DEF BatchEnd, TypeOK, Lesser
  <1>4. batch \in Seq(Row)
    BY <1>3 DEF TypeOK
  <1>5. BatchColumn = WriteValues(BatchColumns[pos], pos, batch)
    BY DEF BatchColumn
  <1> HIDE DEF batch
  <1>6. /\ BatchColumn \in ColumnWriterState
        /\ BatchColumn.pageBuffer = cw[0][pos].pageBuffer
    BY <1>1, <1>2, <1>4, <1>5, WriteValuesType
  <1> QED BY <1>2, <1>3, <1>4, <1>6 DEF batch

\* A column gets a batch.
LEMMA SetBatchColumnType ==
  ASSUME TypeOK, NEW c \in ColumnWriterState, SetBatchColumn(c)
  PROVE  cw' \in [Groups -> [Columns -> ColumnWriterState]]
  BY BatchColumnType DEF SetBatchColumn, TypeOK

\* A batch of a column is re-encoded, or that fails.
LEMMA ReencodeBatchType ==
  ASSUME TypeOK, ReencodeBatch \/ ReencodeBatchFails
  PROVE  TypeOK'
  <1> DEFINE d == IF BatchFull THEN FlushColumn(BatchColumn, pos, taken[0]) ELSE BatchColumn
             e == FlushColumnFails(BatchColumn, pos, taken[0])
  <1>1. 0 \in Groups /\ pos \in Columns /\ Tail(job) \in Seq(Job) /\ source \in Seq(Row)
    BY JobType DEF ReencodeBatch, ReencodeBatchFails, Running, TypeOK, Groups
  <1>2. d \in ColumnWriterState /\ e \in ColumnWriterState
    BY <1>1, BatchColumnType, PoolType, FlushColumnType, FlushColumnFailsType
  <1>3. cw' \in [Groups -> [Columns -> ColumnWriterState]]
    <2>1. SetBatchColumn(d) \/ SetBatchColumn(e)
      BY DEF ReencodeBatch, ReencodeBatchFails
    <2> HIDE DEF d, e
    <2> QED BY <1>2, <2>1, SetBatchColumnType
  <1>4. free' \in Seq(Nat \ {0}) /\ fresh' \in Nat \ {0} /\ taken' \in [Groups -> Nat]
    BY <1>1, PoolType DEF ReencodeBatch, ReencodeBatchFails
  <1> HIDE DEF d, e
  <1>5. CASE ReencodeBatch
    <2>1. UNCHANGED <<numRows, callVars, phase, meta, outVars>>
      BY <1>5 DEF ReencodeBatch
    <2>2. /\ job' \in Seq(Job) /\ source' \in Seq(Row)
          /\ pos' \in Columns /\ done' \in Nat
      <3>1. CASE BatchEnd < Len(source)
        <4>1. done' = BatchEnd /\ UNCHANGED <<job, pos, source>>
          BY <1>5, <3>1 DEF ReencodeBatch
        <4> QED BY <4>1, BatchColumnType DEF TypeOK
      <3>2. CASE ~(BatchEnd < Len(source)) /\ pos < NumColumns
        BY <1>1, <1>5, <3>2, ColumnAssumption DEF ReencodeBatch, TypeOK, Columns
      <3>3. CASE ~(BatchEnd < Len(source)) /\ ~(pos < NumColumns)
        <4>1. done' = 0 /\ pos' = 1 /\ job' = Tail(job) /\ source' = << >>
          BY <1>5, <3>3 DEF ReencodeBatch
        <4> QED BY <1>1, <4>1, ColumnAssumption DEF Columns
      <3> QED BY <3>1, <3>2, <3>3
    <2> QED BY <1>3, <1>4, <2>1, <2>2 DEF TypeOK, callVars, outVars
  <1>6. CASE ReencodeBatchFails
    <2>1. /\ job' = << >> /\ status' = "failed" /\ source' = << >>
          /\ UNCHANGED <<numRows, callVars, phase, pos, done, meta, file, offset, rowGroups,
                         deferred, resets>>
      BY <1>6 DEF ReencodeBatchFails
    <2> QED BY <1>3, <1>4, <2>1 DEF TypeOK, callVars
  <1> QED BY <1>5, <1>6

-----------------------------------------------------------------------------
(* Close and Reset. *)

\* A column writer is closed, or that fails.
LEMMA CloseColumnType ==
  ASSUME TypeOK, CloseColumn \/ CloseColumnFails
  PROVE  TypeOK'
  <1> DEFINE c == cw[0][pos]
  <1>1. 0 \in Groups /\ pos \in Columns /\ Tail(job) \in Seq(Job)
    BY JobType DEF CloseColumn, CloseColumnFails, Running, TypeOK, Groups
  <1>2. c \in ColumnWriterState
    BY <1>1, ColumnsType
  <1>3. CASE CloseColumn
    <2>1. cw' \in [Groups -> [Columns -> ColumnWriterState]]
      BY <1>1, <1>2, <1>3, PoolType, FlushColumnType, SetColumnType DEF CloseColumn
    <2>2. free' \in Seq(Nat \ {0}) /\ fresh' \in Nat \ {0} /\ taken' \in [Groups -> Nat]
      BY <1>1, <1>3, PoolType DEF CloseColumn
    <2>3. pos' \in Columns /\ job' \in Seq(Job)
      <3>1. CASE pos < NumColumns
        BY <1>1, <1>3, <3>1, ColumnAssumption DEF CloseColumn, TypeOK, Columns
      <3>2. CASE ~(pos < NumColumns)
        <4>1. pos' = 1 /\ job' = Tail(job)
          BY <1>3, <3>2 DEF CloseColumn
        <4> QED BY <1>1, <4>1, ColumnAssumption DEF Columns
      <3> QED BY <3>1, <3>2
    <2>4. UNCHANGED <<numRows, callVars, phase, source, done, meta, outVars>>
      BY <1>3 DEF CloseColumn
    <2> HIDE DEF c
    <2> QED BY <2>1, <2>2, <2>3, <2>4 DEF TypeOK, callVars, outVars
  <1>4. CASE CloseColumnFails
    <2>1. cw' \in [Groups -> [Columns -> ColumnWriterState]]
      BY <1>1, <1>2, <1>4, FlushColumnFailsType, SetColumnType DEF CloseColumnFails
    <2>2. job' \in Seq(Job) /\ status' \in {"open", "closed", "failed"}
      BY <1>4 DEF CloseColumnFails
    <2>3. UNCHANGED <<numRows, callVars, phase, pos, source, done, meta, file, offset,
                      rowGroups, deferred, resets>>
      BY <1>4 DEF CloseColumnFails
    <2>4. free' \in Seq(Nat \ {0}) /\ fresh' \in Nat \ {0} /\ taken' \in [Groups -> Nat]
      BY <1>1, <1>4, PoolType DEF CloseColumnFails
    <2> HIDE DEF c
    <2> QED BY <2>1, <2>2, <2>3, <2>4 DEF TypeOK, callVars
  <1> QED BY <1>3, <1>4

\* The header and the footer of the file, or their failure.
LEMMA CloseFileType ==
  ASSUME TypeOK, CloseHeader \/ WriteFooter \/ CloseFails
  PROVE  TypeOK'
  <1>1. CASE CloseHeader
    <2>1. file' \in SUBSET Segment /\ offset' \in Nat
      BY <1>1, PutMagicType DEF CloseHeader
    <2>2. job' \in Seq(Job)
      BY <1>1, JobType DEF CloseHeader, Running
    <2> QED BY <1>1, <2>1, <2>2 DEF CloseHeader, TypeOK, rgVars, callVars, poolVars
  <1>2. CASE WriteFooter
    <2> DEFINE s == [at |-> offset, size |-> FooterSize, kind |-> "footer", rows |-> << >>,
                     encoding |-> "PLAIN", values |-> {}]
    <2>1. s \in Segment
      BY ColumnAssumption DEF TypeOK, Segment, FooterSize
    <2>2. Output(s) /\ job' = << >> /\ status' = "closed"
      BY <1>2 DEF WriteFooter
    <2>3. file' \in SUBSET Segment /\ offset' \in Nat
      <3> HIDE DEF s
      <3> QED BY <2>1, <2>2, OutputType
    <2>4. job' \in Seq(Job) /\ status' \in {"open", "closed", "failed"}
      BY <2>2
    <2>5. UNCHANGED <<rgVars, callVars, poolVars, phase, pos, source, done, meta, rowGroups,
                      deferred, resets>>
      BY <1>2 DEF WriteFooter
    <2> QED BY <2>3, <2>4, <2>5 DEF TypeOK, rgVars, callVars, poolVars
  <1>3. CASE CloseFails
    <2>1. job' \in Seq(Job) /\ phase' \in Phases /\ status' \in {"open", "closed", "failed"}
      <3>1. << >> \in Seq(Job) /\ <<OnWriter("deferred")>> \in Seq(Job)
        BY JobsType
      <3> QED BY <1>3, <3>1 DEF CloseFails, TypeOK, Phases
    <2> QED BY <1>3, <2>1 DEF CloseFails, TypeOK, rgVars, callVars, poolVars
  <1> QED BY <1>1, <1>2, <1>3

\* Recording the place of a filter in a row group.
LEMMA LocateFilterType ==
  ASSUME NEW r \in RowGroup, NEW k \in Columns, NEW at \in Nat
  PROVE  LocateFilter(r, k, at) \in RowGroup
  <1> DEFINE located == [r.columns[k] EXCEPT !.bloomFilterOffset = at]
             columns == [r.columns EXCEPT ![k] = located]
  <1>1. r.columns \in [Columns -> ColumnChunk]
    BY DEF RowGroup
  <1>2. located \in ColumnChunk
    BY <1>1 DEF ColumnChunk
  <1>3. columns \in [Columns -> ColumnChunk]
    <2> HIDE DEF located
    <2> QED BY <1>1, <1>2
  <1>4. LocateFilter(r, k, at) = [r EXCEPT !.columns = columns]
    BY DEF LocateFilter
  <1> HIDE DEF columns
  <1> QED BY <1>3, <1>4 DEF RowGroup

\* The deferred filters are written and their buffers returned.
LEMMA DeferredFiltersType ==
  ASSUME TypeOK, WriteDeferredBloomFilter \/ DeferredBloomFiltersWritten
                 \/ PutDeferredBuffer \/ DeferredBuffersReturned
  PROVE  TypeOK'
  <1>1. CASE WriteDeferredBloomFilter
    <2> DEFINE d == deferred[done + 1]
               r == rowGroups[d.group]
    <2>1. d \in DeferredFilter
      BY <1>1 DEF WriteDeferredBloomFilter, TypeOK
    <2>2. file' \in SUBSET Segment /\ offset' \in Nat
      <3>1. d.values \in SUBSET Value /\ offset \in Nat
        BY <2>1 DEF DeferredFilter, TypeOK
      <3>2. Output(BloomSegment(d.values, offset))
        BY <1>1 DEF WriteDeferredBloomFilter
      <3> HIDE DEF d
      <3> QED BY <3>1, <3>2, BloomSegmentType, OutputType
    <2>3. rowGroups' \in Seq(RowGroup)
      <3>1. rowGroups' = [rowGroups EXCEPT ![d.group] = LocateFilter(r, d.column, offset)]
        BY <1>1 DEF WriteDeferredBloomFilter
      <3>2. CASE d.group \in 1 .. Len(rowGroups)
        <4>1. r \in RowGroup
          BY <3>2 DEF TypeOK
        <4>2. d.column \in Columns /\ offset \in Nat
          BY <2>1 DEF DeferredFilter, TypeOK
        <4>3. LocateFilter(r, d.column, offset) \in RowGroup
          <5> HIDE DEF d, r
          <5> QED BY <4>1, <4>2, LocateFilterType
        <4> HIDE DEF r, d
        <4> QED BY <3>1, <3>2, <4>3 DEF TypeOK
      <3>3. CASE d.group \notin 1 .. Len(rowGroups)
        <4>1. rowGroups' = rowGroups
          <5> HIDE DEF d
          <5> QED BY <3>1, <3>3 DEF TypeOK
        <4> QED BY <4>1 DEF TypeOK
      <3> QED BY <3>2, <3>3
    <2>4. /\ done' = done + 1
          /\ UNCHANGED <<rgVars, callVars, poolVars, job, phase, pos, source, meta, deferred,
                         status, resets>>
      BY <1>1 DEF WriteDeferredBloomFilter
    <2> HIDE DEF d, r
    <2> QED BY <2>2, <2>3, <2>4 DEF TypeOK, rgVars, callVars, poolVars
  <1>2. CASE DeferredBloomFiltersWritten
    BY <1>2 DEF DeferredBloomFiltersWritten, TypeOK, Phases, rgVars, callVars, poolVars, outVars
  <1>3. CASE PutDeferredBuffer
    <2>1. deferred # << >> /\ deferred \in Seq(DeferredFilter)
      BY <1>3 DEF PutDeferredBuffer, TypeOK
    <2>2. deferred[1] \in DeferredFilter /\ Tail(deferred) \in Seq(DeferredFilter)
      BY <2>1
    <2>3. deferred[1].buffer \in Nat \ {0}
      BY <2>2 DEF DeferredFilter
    <2>4. free' \in Seq(Nat \ {0}) /\ fresh' \in Nat \ {0}
      BY <1>3, <2>3, PoolType DEF PutDeferredBuffer
    <2> QED BY <1>3, <2>2, <2>4 DEF PutDeferredBuffer, TypeOK, rgVars, callVars, mainVars
  <1>4. CASE DeferredBuffersReturned
    <2>1. CASE job[1].op = "reset"
      BY <1>4, <2>1 DEF DeferredBuffersReturned, TypeOK, Phases, rgVars, callVars, poolVars
    <2>2. CASE job[1].op # "reset"
      <3>1. Tail(job) \in Seq(Job)
        BY <1>4, JobType DEF DeferredBuffersReturned
      <3>2. /\ phase' = "start" /\ job' = Tail(job)
            /\ UNCHANGED <<file, offset, rowGroups, status>>
            /\ UNCHANGED <<rgVars, callVars, poolVars, pos, source, done, meta, deferred, resets>>
        BY <1>4, <2>2 DEF DeferredBuffersReturned
      <3> QED BY <3>1, <3>2 DEF TypeOK, Phases, rgVars, callVars, poolVars
    <2> QED BY <2>1, <2>2
  <1> QED BY <1>1, <1>2, <1>3, <1>4

-----------------------------------------------------------------------------
(* The type invariant. *)

\* A buffer is taken from the pool.
LEMMA AcquireBufferType ==
  ASSUME TypeOK, NEW g \in Groups, AcquireBuffer(g)
  PROVE  TypeOK'
  <1>1. free' \in Seq(Nat \ {0}) /\ fresh' \in Nat \ {0} /\ taken' \in [Groups -> Nat]
    BY PoolType DEF AcquireBuffer, TypeOK
  <1> QED BY <1>1 DEF AcquireBuffer, TypeOK, rgVars, callVars, mainVars, outVars

\* Every step keeps the types.
LEMMA TypeStep ==
  ASSUME TypeOK, [Next]_vars
  PROVE  TypeOK'
  <1>1. CASE UNCHANGED vars
    BY <1>1 DEF TypeOK, vars, rgVars, callVars, poolVars, mainVars, outVars
  <1>2. CASE ApplicationCall
    BY <1>2, WriteRowsType, WriteRowGroupType, FlushGroupType, CallsType DEF Groups, ApplicationCall
  <1>3. CASE MainStep
    BY <1>3, StartRowGroupType, FlushRowGroupColumnType, WriteHeaderType, WriteColumnPagesType,
       BloomFilterType, AppendRowGroupType, ResetRowGroupColumnType, CloseColumnType,
       CloseFileType, DeferredFiltersType, LoadCopiedChunkStepType, CopyRowsType,
       ReencodeBatchType
    DEF MainStep
  <1>4. CASE \E g \in Groups : GroupStep(g)
    BY <1>4, NextChunkType, GroupFullType, WriteColumnType, WriteColumnFailsType, FlushGroupType
    DEF GroupStep
  <1>5. CASE \E g \in Groups : AcquireBuffer(g)
    BY <1>5, AcquireBufferType
  <1> QED BY <1>1, <1>2, <1>3, <1>4, <1>5 DEF Next

\* In every behaviour of the writer, whatever its configuration, all state
\* keeps its type: no page index, buffer identity or file offset that the code
\* computes (relative offsets of copied chunks included) leaves its range.
THEOREM TypeCorrect == Spec => []TypeOK
  <1>1. Init => TypeOK
    BY TypeInit
  <1>2. TypeOK /\ [Next]_vars => TypeOK'
    BY TypeStep
  <1> QED BY <1>1, <1>2, PTL DEF Spec

-----------------------------------------------------------------------------
(* Taking a buffer from the pool changes nothing else. *)

allButPool == <<rgVars, callVars, mainVars, outVars>>

LEMMA NextCases ==
  ASSUME [Next]_vars
  PROVE  \/ ApplicationCall \/ MainStep
         \/ \E g \in Groups : GroupStep(g)
         \/ UNCHANGED allButPool
  BY DEF Next, AcquireBuffer, vars, allButPool

-----------------------------------------------------------------------------
(* What the main thread does, and when. *)

Paths == {"copyable", "columnar", "opaque"}

\* What is left to do of a call, from its start to its end.
RowGroupJob(g) == <<OnRowGroup(g)>>
CommitJob(g) == <<OnRowGroup(0), OnRowGroup(g)>>
BeforePath(p) == <<OnRowGroup(0), OnWriter(p), OnRowGroup(0)>>
OnPath(p) == <<OnWriter(p), OnRowGroup(0)>>
CloseJob == <<OnWriter("closeColumns"), OnWriter("header"), OnRowGroup(0),
              OnWriter("deferred"), OnWriter("footer")>>
CloseJob2 == <<OnWriter("header"), OnRowGroup(0), OnWriter("deferred"), OnWriter("footer")>>
CloseJob3 == <<OnRowGroup(0), OnWriter("deferred"), OnWriter("footer")>>
CloseJob4 == <<OnWriter("deferred"), OnWriter("footer")>>
CloseJob5 == <<OnWriter("footer")>>
DeferredJob == <<OnWriter("deferred")>>
ResetJob == <<OnWriter("reset")>>

JobShape ==
  \/ job = << >>
  \/ \E g \in Groups : job = RowGroupJob(g) \/ job = CommitJob(g)
  \/ \E p \in Paths \cup {"copyRows"} : job = BeforePath(p) \/ job = OnPath(p)
  \/ job \in {CloseJob, CloseJob2, CloseJob3, CloseJob4, CloseJob5}
  \/ job = DeferredJob \/ job = ResetJob

\* The fields of jobs.
LEMMA JobFields ==
  /\ \A g : OnRowGroup(g).op = "rowGroup" /\ OnRowGroup(g).group = g
  /\ \A op : OnWriter(op).op = op /\ OnWriter(op).group = 0
  BY DEF OnRowGroup, OnWriter

\* The first element and the tail of short sequences.
LEMMA ShortTails ==
  /\ \A a : <<a>> # << >> /\ Len(<<a>>) = 1 /\ <<a>>[1] = a /\ Tail(<<a>>) = << >>
  /\ \A a, b : /\ <<a, b>> # << >> /\ Len(<<a, b>>) = 2 /\ <<a, b>>[1] = a /\ <<a, b>>[2] = b
               /\ Tail(<<a, b>>) = <<b>>
  /\ \A a, b, c : /\ <<a, b, c>> # << >> /\ Len(<<a, b, c>>) = 3
                  /\ <<a, b, c>>[1] = a /\ <<a, b, c>>[2] = b /\ <<a, b, c>>[3] = c
                  /\ Tail(<<a, b, c>>) = <<b, c>>
  /\ \A a, b, c, d : /\ <<a, b, c, d>> # << >> /\ Len(<<a, b, c, d>>) = 4 /\ <<a, b, c, d>>[1] = a
                     /\ Tail(<<a, b, c, d>>) = <<b, c, d>>
  /\ \A a, b, c, d, e : /\ <<a, b, c, d, e>> # << >> /\ Len(<<a, b, c, d, e>>) = 5
                        /\ <<a, b, c, d, e>>[1] = a
                        /\ Tail(<<a, b, c, d, e>>) = <<b, c, d, e>>
  <1>1. \A a : <<a>> # << >> /\ Len(<<a>>) = 1 /\ <<a>>[1] = a /\ Tail(<<a>>) = << >>
    OBVIOUS
  <1>2. \A a, b : /\ <<a, b>> # << >> /\ Len(<<a, b>>) = 2 /\ <<a, b>>[1] = a /\ <<a, b>>[2] = b
                  /\ Tail(<<a, b>>) = <<b>>
    OBVIOUS
  <1>3. \A a, b, c : /\ <<a, b, c>> # << >> /\ Len(<<a, b, c>>) = 3
                     /\ <<a, b, c>>[1] = a /\ <<a, b, c>>[2] = b /\ <<a, b, c>>[3] = c
                     /\ Tail(<<a, b, c>>) = <<b, c>>
    OBVIOUS
  <1>4. \A a, b, c, d : /\ <<a, b, c, d>> # << >> /\ Len(<<a, b, c, d>>) = 4 /\ <<a, b, c, d>>[1] = a
                        /\ Tail(<<a, b, c, d>>) = <<b, c, d>>
    OBVIOUS
  <1>5. \A a, b, c, d, e : /\ <<a, b, c, d, e>> # << >> /\ Len(<<a, b, c, d, e>>) = 5
                           /\ <<a, b, c, d, e>>[1] = a
                           /\ Tail(<<a, b, c, d, e>>) = <<b, c, d, e>>
    OBVIOUS
  <1> QED BY <1>1, <1>2, <1>3, <1>4, <1>5

\* The jobs, what they start with and what follows.
LEMMA JobTails ==
  /\ \A g : /\ RowGroupJob(g) # << >> /\ Len(RowGroupJob(g)) = 1
            /\ RowGroupJob(g)[1] = OnRowGroup(g) /\ Tail(RowGroupJob(g)) = << >>
            /\ CommitJob(g) # << >> /\ Len(CommitJob(g)) = 2
            /\ CommitJob(g)[1] = OnRowGroup(0) /\ CommitJob(g)[2] = OnRowGroup(g)
            /\ Tail(CommitJob(g)) = RowGroupJob(g)
  /\ \A p : /\ BeforePath(p) # << >> /\ Len(BeforePath(p)) = 3
            /\ BeforePath(p)[1] = OnRowGroup(0) /\ BeforePath(p)[2] = OnWriter(p)
            /\ BeforePath(p)[3] = OnRowGroup(0) /\ Tail(BeforePath(p)) = OnPath(p)
            /\ OnPath(p) # << >> /\ Len(OnPath(p)) = 2
            /\ OnPath(p)[1] = OnWriter(p) /\ OnPath(p)[2] = OnRowGroup(0)
            /\ Tail(OnPath(p)) = RowGroupJob(0)
  /\ CloseJob # << >> /\ Len(CloseJob) = 5
  /\ CloseJob[1] = OnWriter("closeColumns") /\ Tail(CloseJob) = CloseJob2
  /\ CloseJob2 # << >> /\ Len(CloseJob2) = 4
  /\ CloseJob2[1] = OnWriter("header") /\ Tail(CloseJob2) = CloseJob3
  /\ CloseJob3 # << >> /\ Len(CloseJob3) = 3
  /\ CloseJob3[1] = OnRowGroup(0) /\ CloseJob3[2] = OnWriter("deferred")
  /\ CloseJob3[3] = OnWriter("footer") /\ Tail(CloseJob3) = CloseJob4
  /\ CloseJob4 # << >> /\ Len(CloseJob4) = 2
  /\ CloseJob4[1] = OnWriter("deferred") /\ CloseJob4[2] = OnWriter("footer")
  /\ Tail(CloseJob4) = CloseJob5
  /\ CloseJob5 # << >> /\ Len(CloseJob5) = 1
  /\ CloseJob5[1] = OnWriter("footer") /\ Tail(CloseJob5) = << >>
  /\ DeferredJob # << >> /\ Len(DeferredJob) = 1
  /\ DeferredJob[1] = OnWriter("deferred") /\ Tail(DeferredJob) = << >>
  /\ ResetJob # << >> /\ Len(ResetJob) = 1
  /\ ResetJob[1] = OnWriter("reset") /\ Tail(ResetJob) = << >>
  <1>1. \A g : /\ RowGroupJob(g) # << >> /\ Len(RowGroupJob(g)) = 1
               /\ RowGroupJob(g)[1] = OnRowGroup(g) /\ Tail(RowGroupJob(g)) = << >>
    BY ShortTails DEF RowGroupJob
  <1>2. \A g : /\ CommitJob(g) # << >> /\ Len(CommitJob(g)) = 2
               /\ CommitJob(g)[1] = OnRowGroup(0) /\ CommitJob(g)[2] = OnRowGroup(g)
               /\ Tail(CommitJob(g)) = RowGroupJob(g)
    BY ShortTails DEF RowGroupJob, CommitJob
  <1>3. \A p : /\ BeforePath(p) # << >> /\ Len(BeforePath(p)) = 3
               /\ BeforePath(p)[1] = OnRowGroup(0) /\ BeforePath(p)[2] = OnWriter(p)
               /\ BeforePath(p)[3] = OnRowGroup(0) /\ Tail(BeforePath(p)) = OnPath(p)
    BY ShortTails DEF BeforePath, OnPath
  <1>4. \A p : /\ OnPath(p) # << >> /\ Len(OnPath(p)) = 2
               /\ OnPath(p)[1] = OnWriter(p) /\ OnPath(p)[2] = OnRowGroup(0)
               /\ Tail(OnPath(p)) = RowGroupJob(0)
    BY ShortTails DEF OnPath, RowGroupJob
  <1>5. /\ CloseJob # << >> /\ Len(CloseJob) = 5
        /\ CloseJob[1] = OnWriter("closeColumns") /\ Tail(CloseJob) = CloseJob2
    BY ShortTails DEF CloseJob, CloseJob2
  <1>6. /\ CloseJob2 # << >> /\ Len(CloseJob2) = 4
        /\ CloseJob2[1] = OnWriter("header") /\ Tail(CloseJob2) = CloseJob3
    BY ShortTails DEF CloseJob2, CloseJob3
  <1>7. /\ CloseJob3 # << >> /\ Len(CloseJob3) = 3
        /\ CloseJob3[1] = OnRowGroup(0) /\ CloseJob3[2] = OnWriter("deferred")
        /\ CloseJob3[3] = OnWriter("footer") /\ Tail(CloseJob3) = CloseJob4
    BY ShortTails DEF CloseJob3, CloseJob4
  <1>8. /\ CloseJob4 # << >> /\ Len(CloseJob4) = 2
        /\ CloseJob4[1] = OnWriter("deferred") /\ CloseJob4[2] = OnWriter("footer")
        /\ Tail(CloseJob4) = CloseJob5
    BY ShortTails DEF CloseJob4, CloseJob5
  <1>9. /\ CloseJob5 # << >> /\ Len(CloseJob5) = 1
        /\ CloseJob5[1] = OnWriter("footer") /\ Tail(CloseJob5) = << >>
    BY ShortTails DEF CloseJob5
  <1>10. /\ DeferredJob # << >> /\ Len(DeferredJob) = 1
         /\ DeferredJob[1] = OnWriter("deferred") /\ Tail(DeferredJob) = << >>
    BY ShortTails DEF DeferredJob
  <1>11. /\ ResetJob # << >> /\ Len(ResetJob) = 1
         /\ ResetJob[1] = OnWriter("reset") /\ Tail(ResetJob) = << >>
    BY ShortTails DEF ResetJob
  <1> QED BY <1>1, <1>2, <1>3, <1>4, <1>5, <1>6, <1>7, <1>8, <1>9, <1>10, <1>11, Zenon

\* The first operation of every job.
LEMMA JobOps ==
  /\ \A g : /\ RowGroupJob(g)[1].op = "rowGroup" /\ RowGroupJob(g)[1].group = g
            /\ CommitJob(g)[1].op = "rowGroup" /\ CommitJob(g)[1].group = 0
  /\ \A p : /\ BeforePath(p)[1].op = "rowGroup" /\ BeforePath(p)[1].group = 0
            /\ OnPath(p)[1].op = p /\ OnPath(p)[1].group = 0
  /\ CloseJob[1].op = "closeColumns" /\ CloseJob[1].group = 0
  /\ CloseJob2[1].op = "header" /\ CloseJob2[1].group = 0
  /\ CloseJob3[1].op = "rowGroup" /\ CloseJob3[1].group = 0
  /\ CloseJob4[1].op = "deferred" /\ CloseJob4[1].group = 0
  /\ CloseJob5[1].op = "footer" /\ CloseJob5[1].group = 0
  /\ DeferredJob[1].op = "deferred" /\ DeferredJob[1].group = 0
  /\ ResetJob[1].op = "reset" /\ ResetJob[1].group = 0
  <1>1. /\ \A g : RowGroupJob(g)[1] = OnRowGroup(g) /\ CommitJob(g)[1] = OnRowGroup(0)
        /\ \A p : BeforePath(p)[1] = OnRowGroup(0) /\ OnPath(p)[1] = OnWriter(p)
        /\ CloseJob[1] = OnWriter("closeColumns") /\ CloseJob2[1] = OnWriter("header")
        /\ CloseJob3[1] = OnRowGroup(0) /\ CloseJob4[1] = OnWriter("deferred")
        /\ CloseJob5[1] = OnWriter("footer") /\ DeferredJob[1] = OnWriter("deferred")
        /\ ResetJob[1] = OnWriter("reset")
    BY JobTails, Zenon
  <1> QED BY <1>1, JobFields

\* The call that is running, from what it does now.
LEMMA JobFirst ==
  ASSUME JobShape, job # << >>
  PROVE  /\ job[1].op = "rowGroup" =>
              \/ \E g \in Groups : \/ job = RowGroupJob(g) /\ Group = g
                                   \/ job = CommitJob(g) /\ Group = 0
              \/ \E p \in Paths \cup {"copyRows"} : job = BeforePath(p) /\ Group = 0
              \/ job = CloseJob3 /\ Group = 0
         /\ \A p \in Paths \cup {"copyRows"} : job[1].op = p => job = OnPath(p) /\ Group = 0
         /\ job[1].op = "closeColumns" => job = CloseJob /\ Group = 0
         /\ job[1].op = "header" => job = CloseJob2 /\ Group = 0
         /\ job[1].op = "deferred" => (job = CloseJob4 \/ job = DeferredJob) /\ Group = 0
         /\ job[1].op = "footer" => job = CloseJob5 /\ Group = 0
         /\ job[1].op = "reset" => job = ResetJob /\ Group = 0
  <1> DEFINE op == job[1].op
  <1>1. CASE \E g \in Groups : job = RowGroupJob(g) \/ job = CommitJob(g)
    <2>1. PICK g \in Groups : job = RowGroupJob(g) \/ job = CommitJob(g)
      BY <1>1
    <2>2. op = "rowGroup" /\ (job = RowGroupJob(g) => Group = g) /\ (job = CommitJob(g) => Group = 0)
      BY <2>1, JobOps DEF Group
    <2> HIDE DEF op
    <2> QED BY <2>1, <2>2 DEF op, Paths
  <1>2. CASE \E p \in Paths \cup {"copyRows"} : job = BeforePath(p) \/ job = OnPath(p)
    <2>1. PICK p \in Paths \cup {"copyRows"} : job = BeforePath(p) \/ job = OnPath(p)
      BY <1>2
    <2>2. Group = 0 /\ (job = BeforePath(p) => op = "rowGroup") /\ (job = OnPath(p) => op = p)
      BY <2>1, JobOps DEF Group
    <2> HIDE DEF op
    <2>3. CASE job = BeforePath(p)
      BY <2>2, <2>3 DEF op, Paths
    <2>4. CASE job = OnPath(p)
      BY <2>2, <2>4 DEF op, Paths
    <2> QED BY <2>1, <2>3, <2>4
  <1>3. CASE job \in {CloseJob, CloseJob2, CloseJob3, CloseJob4, CloseJob5, DeferredJob, ResetJob}
    <2>1. Group = 0
      BY <1>3, JobOps DEF Group
    <2>2. CASE job = CloseJob
      BY <2>1, <2>2, JobOps DEF Paths
    <2>3. CASE job = CloseJob2
      BY <2>1, <2>3, JobOps DEF Paths
    <2>4. CASE job = CloseJob3
      BY <2>1, <2>4, JobOps DEF Paths
    <2>5. CASE job = CloseJob4
      BY <2>1, <2>5, JobOps DEF Paths
    <2>6. CASE job = CloseJob5
      BY <2>1, <2>6, JobOps DEF Paths
    <2>7. CASE job = DeferredJob
      BY <2>1, <2>7, JobOps DEF Paths
    <2>8. CASE job = ResetJob
      BY <2>1, <2>8, JobOps DEF Paths
    <2> QED BY <1>3, <2>2, <2>3, <2>4, <2>5, <2>6, <2>7, <2>8
  <1> QED BY <1>1, <1>2, <1>3 DEF JobShape

\* A path of WriteRowGroup is running or will be.
PathLeft(p) == job = BeforePath(p) \/ job = OnPath(p)

\* The phase belongs to the job, and a loop starts at the first column.
PhaseFits ==
  /\ job = << >> => phase = "start"
  /\ job # << >> =>
       /\ job[1].op = "rowGroup" => phase # "put"
       /\ job[1].op = "reset" => phase \in {"put", "reset"}
       /\ job[1].op = "deferred" => phase \in {"start", "put"}
       /\ job[1].op \notin {"rowGroup", "reset", "deferred"} => phase = "start"
  /\ (job = ResetJob /\ phase = "put") => pos = 1

\* The writer is used while it is open, and Reset brings it back.
StatusFits ==
  /\ (job # << >> /\ job[1].op \notin {"reset", "deferred"}) => status = "open"
  /\ job = CloseJob4 => status = "open"
  /\ job = ResetJob => MaxResets > 0

\* The row group given to WriteRowGroup is held until its rows are taken.
SourceFits ==
  /\ source # << >> => \E p \in Paths : PathLeft(p)
  /\ \A p \in Paths : PathLeft(p) => source # << >>
  /\ \A p \in Paths : job = BeforePath(p) => done = 0 /\ (phase = "start" => pos = 1)
  /\ (job = OnPath("copyable") \/ job = OnPath("opaque")) => done = 0
  /\ job = OnPath("columnar") => done < Len(source)
  /\ \A p \in {"copyable", "columnar"} : PathLeft(p) => Len(source) <= MaxRowsPerRowGroup

\* A call that writes rows holds them; on the current row group it goes with
\* the jobs of the flushes in its middle and of WriteRowGroup.
CallFits ==
  /\ \A g \in Groups : pc[g] # "write" => todo[g] = << >> /\ chunk[g] = << >>
  /\ \A g \in Groups \ {0} :
       (job = RowGroupJob(g) \/ job = CommitJob(g)) => pc[g] = "idle"
  /\ pc[0] \in {"idle", "write"}
  /\ pc[0] = "write" =>
       /\ status = "open"
       /\ \/ job = << >> \/ job = RowGroupJob(0)
          \/ ~generic /\ (job = OnPath("copyRows") \/ job = BeforePath("copyRows"))
       /\ generic => "Write" \in CallKinds
       /\ ~generic => "WriteRows" \in CallKinds \/ Len(job) > 1
  /\ chunk[0] # << >> => job = << >> \/ job = OnPath("copyRows")
  /\ (chunk[0] # << >> /\ generic) => resolved

\* A row group is written only while there is room for one.
RoomFits ==
  /\ Len(rowGroups) <= MaxRowGroups
  /\ (job # << >> /\ phase \in {"flush", "header", "pages", "bloom", "append"}) =>
       Len(rowGroups) < MaxRowGroups

Control ==
  /\ JobShape /\ PhaseFits /\ StatusFits /\ SourceFits /\ CallFits /\ RoomFits

-----------------------------------------------------------------------------
(* Every step keeps to the control flow. *)

\* The jobs can be told apart.
LEMMA JobsDiffer ==
  /\ \A g, h : /\ RowGroupJob(g) = RowGroupJob(h) => g = h
               /\ CommitJob(g) = CommitJob(h) => g = h
               /\ RowGroupJob(g) # CommitJob(h)
  /\ \A p, q : /\ BeforePath(p) = BeforePath(q) => p = q
               /\ OnPath(p) = OnPath(q) => p = q
               /\ BeforePath(p) # OnPath(q)
  /\ \A p \in Paths \cup {"copyRows"} :
       /\ \A g : /\ RowGroupJob(g) # BeforePath(p) /\ RowGroupJob(g) # OnPath(p)
                 /\ CommitJob(g) # BeforePath(p) /\ CommitJob(g) # OnPath(p)
       /\ \A j \in {<< >>, CloseJob, CloseJob2, CloseJob3, CloseJob4, CloseJob5, DeferredJob, ResetJob} :
            j # BeforePath(p) /\ j # OnPath(p)
  /\ \A g : \A j \in {<< >>, CloseJob, CloseJob2, CloseJob3, CloseJob4, CloseJob5, DeferredJob, ResetJob} :
       j # RowGroupJob(g) /\ j # CommitJob(g)
  <1>1. \A g, h : /\ RowGroupJob(g) = RowGroupJob(h) => g = h
                  /\ CommitJob(g) = CommitJob(h) => g = h
                  /\ RowGroupJob(g) # CommitJob(h)
    <2>1. \A g : RowGroupJob(g)[1].group = g /\ Len(RowGroupJob(g)) = 1 /\ Len(CommitJob(g)) = 2
                 /\ CommitJob(g)[2].group = g
      <3> TAKE g
      <3>1. RowGroupJob(g)[1] = OnRowGroup(g) /\ CommitJob(g)[2] = OnRowGroup(g)
            /\ Len(RowGroupJob(g)) = 1 /\ Len(CommitJob(g)) = 2
        BY JobTails, Zenon
      <3> QED BY <3>1, JobFields
    <2> QED BY <2>1
  <1>2. \A p, q : /\ BeforePath(p) = BeforePath(q) => p = q
                  /\ OnPath(p) = OnPath(q) => p = q
                  /\ BeforePath(p) # OnPath(q)
    <2>1. \A p : OnPath(p)[1].op = p /\ Len(BeforePath(p)) = 3 /\ Len(OnPath(p)) = 2
                 /\ BeforePath(p)[2].op = p
      <3> TAKE p
      <3>1. OnPath(p)[1] = OnWriter(p) /\ BeforePath(p)[2] = OnWriter(p)
            /\ Len(BeforePath(p)) = 3 /\ Len(OnPath(p)) = 2
        BY JobTails, Zenon
      <3> QED BY <3>1, JobFields
    <2> QED BY <2>1
  <1>3. ASSUME NEW p \in Paths \cup {"copyRows"}
        PROVE  \A g : /\ RowGroupJob(g) # BeforePath(p) /\ RowGroupJob(g) # OnPath(p)
                      /\ CommitJob(g) # BeforePath(p) /\ CommitJob(g) # OnPath(p)
    <2>1. \A g : /\ Len(RowGroupJob(g)) = 1 /\ Len(CommitJob(g)) = 2 /\ CommitJob(g)[1].op = "rowGroup"
                 /\ Len(BeforePath(p)) = 3 /\ Len(OnPath(p)) = 2 /\ OnPath(p)[1].op = p
      BY JobTails, JobOps
    <2> QED BY <2>1 DEF Paths
  <1>4. ASSUME NEW p \in Paths \cup {"copyRows"},
               NEW j \in {<< >>, CloseJob, CloseJob2, CloseJob3, CloseJob4, CloseJob5, DeferredJob, ResetJob}
        PROVE  j # BeforePath(p) /\ j # OnPath(p)
    <2>1. /\ BeforePath(p) # << >> /\ OnPath(p) # << >>
          /\ BeforePath(p)[1].op = "rowGroup" /\ OnPath(p)[1].op = p /\ BeforePath(p)[2].op = p
      <3>1. BeforePath(p)[2] = OnWriter(p) /\ BeforePath(p) # << >> /\ OnPath(p) # << >>
        BY JobTails, Zenon
      <3> QED BY <3>1, JobOps, JobFields
    <2>2. CloseJob3[2].op = "deferred"
      <3>1. CloseJob3[2] = OnWriter("deferred")
        BY JobTails, Zenon
      <3> QED BY <3>1, JobFields
    <2>3. /\ CloseJob[1].op = "closeColumns" /\ CloseJob2[1].op = "header"
          /\ CloseJob4[1].op = "deferred" /\ CloseJob5[1].op = "footer"
          /\ DeferredJob[1].op = "deferred" /\ ResetJob[1].op = "reset"
      BY JobOps
    <2>4. p # "rowGroup" /\ p \notin {"closeColumns", "header", "deferred", "footer", "reset"}
      BY DEF Paths
    <2>5. CloseJob3 # BeforePath(p) /\ CloseJob3 # OnPath(p)
      BY <2>1, <2>2, <2>4, JobOps
    <2> QED BY <2>1, <2>3, <2>4, <2>5
  <1>5. ASSUME NEW g,
               NEW j \in {<< >>, CloseJob, CloseJob2, CloseJob3, CloseJob4, CloseJob5, DeferredJob, ResetJob}
        PROVE  j # RowGroupJob(g) /\ j # CommitJob(g)
    <2>1. /\ RowGroupJob(g) # << >> /\ CommitJob(g) # << >>
          /\ Len(RowGroupJob(g)) = 1 /\ Len(CommitJob(g)) = 2 /\ Len(CloseJob3) = 3
      BY JobTails, Zenon
    <2>2. RowGroupJob(g)[1].op = "rowGroup" /\ CommitJob(g)[1].op = "rowGroup"
      BY JobOps
    <2>3. /\ CloseJob[1].op = "closeColumns" /\ CloseJob2[1].op = "header"
          /\ CloseJob4[1].op = "deferred" /\ CloseJob5[1].op = "footer"
          /\ DeferredJob[1].op = "deferred" /\ ResetJob[1].op = "reset"
      BY JobOps
    <2>4. j = << >> \/ j = CloseJob3 \/ j[1].op # "rowGroup"
      BY <2>3
    <2>5. CloseJob3 # RowGroupJob(g) /\ CloseJob3 # CommitJob(g)
      <3>1. 3 # 1 /\ 3 # 2
        OBVIOUS
      <3> QED BY <2>1, <3>1, Zenon
    <2>6. CASE j = << >>
      BY <2>1, <2>6, Zenon
    <2>7. CASE j[1].op # "rowGroup"
      BY <2>2, <2>7
    <2> QED BY <2>4, <2>5, <2>6, <2>7
  <1> QED BY <1>1, <1>2, <1>3, <1>4, <1>5, Zenon

\* The row group of a job is in it.
LEMMA JobItems ==
  /\ \A g : 1 \in 1 .. Len(RowGroupJob(g)) /\ RowGroupJob(g)[1].group = g
  /\ \A g : 2 \in 1 .. Len(CommitJob(g)) /\ CommitJob(g)[2].group = g
  <1>1. \A g : 1 \in 1 .. Len(RowGroupJob(g)) /\ RowGroupJob(g)[1] = OnRowGroup(g)
    BY DEF RowGroupJob
  <1>2. \A g : 2 \in 1 .. Len(CommitJob(g)) /\ CommitJob(g)[2] = OnRowGroup(g)
    BY DEF CommitJob
  <1> QED BY <1>1, <1>2, JobFields

\* What the other parts of the invariant are about.
MainControl == JobShape /\ PhaseFits /\ StatusFits /\ SourceFits /\ RoomFits

\* The steps of the goroutines leave it alone.
LEMMA MainControlSame ==
  ASSUME MainControl, UNCHANGED <<job, phase, pos, source, done, status, rowGroups>>
  PROVE  MainControl'
  BY DEF MainControl, JobShape, PhaseFits, StatusFits, SourceFits, RoomFits, PathLeft

\* Without a job no row group is given, and no call is in a path.
LEMMA NoJob ==
  ASSUME Control, job = << >>
  PROVE  source = << >> /\ phase = "start"
  <1>1. \A p : BeforePath(p) # << >> /\ OnPath(p) # << >>
    BY JobTails, Zenon
  <1> QED BY <1>1 DEF Control, SourceFits, PhaseFits, PathLeft

\* The application writes rows to a row group.
LEMMA WriteRowsControl ==
  ASSUME TypeOK, Control, NEW g \in Groups, NEW n \in 1 .. MaxCall,
         NEW kind \in CallKinds \cap {"Write", "WriteRows"}, WriteRows(g, n, kind)
  PROVE  Control'
  <1>1. /\ UNCHANGED <<job, phase, pos, source, done, status, rowGroups, chunk, resolved>>
        /\ pc' = [pc EXCEPT ![g] = "write"] /\ pc[g] = "idle"
        /\ todo' = [todo EXCEPT ![g] = NewRows(n)]
        /\ generic' = IF g = 0 THEN kind = "Write" ELSE generic
        /\ IF g = 0 THEN job = << >> /\ status = "open"
                    ELSE \A i \in 1 .. Len(job) : job[i].group # g
    BY DEF WriteRows, Idle, MainIdle, rgVars, mainVars, outVars
  <1>2. MainControl'
    BY <1>1, MainControlSame DEF Control, MainControl
  <1>3. pc \in [Groups -> {"idle", "write", "flush", "failed"}] /\ todo \in [Groups -> Seq(Row)]
        /\ chunk \in [Groups -> Seq(Row)] /\ 0 \in Groups
    BY DEF TypeOK, Groups
  <1>4. \A h \in Groups : pc'[h] # "write" => todo'[h] = << >> /\ chunk'[h] = << >>
    BY <1>1, <1>3 DEF Control, CallFits
  <1>5. \A h \in Groups \ {0} : (job' = RowGroupJob(h) \/ job' = CommitJob(h)) => pc'[h] = "idle"
    <2> TAKE h \in Groups \ {0}
    <2>1. CASE h # g
      BY <1>1, <1>3, <2>1 DEF Control, CallFits
    <2>2. CASE h = g
      <3>1. \A i \in 1 .. Len(job) : job[i].group # g
        BY <1>1, <2>2
      <3>2. job # RowGroupJob(g) /\ job # CommitJob(g)
        <4>1. ASSUME job = RowGroupJob(g) PROVE FALSE
          BY <3>1, <4>1, JobItems, Zenon
        <4>2. ASSUME job = CommitJob(g) PROVE FALSE
          BY <3>1, <4>2, JobItems, Zenon
        <4> QED BY <4>1, <4>2
      <3> QED BY <1>1, <2>2, <3>2
    <2> QED BY <2>1, <2>2
  <1>6. pc'[0] \in {"idle", "write"}
    BY <1>1, <1>3 DEF Control, CallFits
  <1>7. pc'[0] = "write" =>
          /\ status' = "open"
          /\ \/ job' = << >> \/ job' = RowGroupJob(0)
             \/ ~generic' /\ (job' = OnPath("copyRows") \/ job' = BeforePath("copyRows"))
          /\ generic' => "Write" \in CallKinds
          /\ ~generic' => "WriteRows" \in CallKinds \/ Len(job') > 1
    BY <1>1, <1>3 DEF Control, CallFits
  <1>8. /\ chunk'[0] # << >> => job' = << >> \/ job' = OnPath("copyRows")
        /\ (chunk'[0] # << >> /\ generic') => resolved'
    BY <1>1, <1>3 DEF Control, CallFits
  <1>9. CallFits'
    BY <1>4, <1>5, <1>6, <1>7, <1>8 DEF CallFits
  <1> QED BY <1>2, <1>9 DEF Control, MainControl

\* The goroutine of a row group runs, and keeps what it has to write or gives
\* up; the main thread stands still.
CallsMove(g) ==
  /\ UNCHANGED <<job, phase, pos, source, done, status, rowGroups, generic>>
  /\ pc[g] \in {"write", "flush"} /\ (g # 0 \/ pc[g] = "write")
  /\ pc' = [pc EXCEPT ![g] = pc'[g]]
  /\ todo' = [todo EXCEPT ![g] = todo'[g]] /\ chunk' = [chunk EXCEPT ![g] = chunk'[g]]
  /\ pc'[g] # "write" => todo'[g] = << >> /\ chunk'[g] = << >>
  /\ g = 0 => /\ pc'[0] \in {"idle", "write"}
              /\ chunk'[0] # << >> => job = << >> \/ job = OnPath("copyRows")
              /\ (chunk'[0] # << >> /\ generic) => resolved'
  /\ resolved => resolved'

LEMMA CallsMoveControl ==
  ASSUME TypeOK, Control, NEW g \in Groups, CallsMove(g)
  PROVE  Control'
  <1>1. MainControl'
    BY MainControlSame DEF Control, MainControl, CallsMove
  <1>2. pc \in [Groups -> {"idle", "write", "flush", "failed"}] /\ todo \in [Groups -> Seq(Row)]
        /\ chunk \in [Groups -> Seq(Row)] /\ 0 \in Groups
    BY DEF TypeOK, Groups
  <1>3. \A h \in Groups : pc'[h] # "write" => todo'[h] = << >> /\ chunk'[h] = << >>
    BY <1>2 DEF Control, CallFits, CallsMove
  <1>4. \A h \in Groups \ {0} : (job' = RowGroupJob(h) \/ job' = CommitJob(h)) => pc'[h] = "idle"
    BY <1>2 DEF Control, CallFits, CallsMove
  <1>5. pc'[0] \in {"idle", "write"} /\ (pc'[0] = "write" => pc[0] = "write")
    BY <1>2 DEF Control, CallFits, CallsMove
  <1>6. pc'[0] = "write" =>
          /\ status' = "open"
          /\ \/ job' = << >> \/ job' = RowGroupJob(0)
             \/ ~generic' /\ (job' = OnPath("copyRows") \/ job' = BeforePath("copyRows"))
          /\ generic' => "Write" \in CallKinds
          /\ ~generic' => "WriteRows" \in CallKinds \/ Len(job') > 1
    BY <1>5 DEF Control, CallFits, CallsMove
  <1>7. /\ chunk'[0] # << >> => job' = << >> \/ job' = OnPath("copyRows")
        /\ (chunk'[0] # << >> /\ generic') => resolved'
    BY <1>2 DEF Control, CallFits, CallsMove
  <1>8. CallFits'
    BY <1>3, <1>4, <1>5, <1>6, <1>7 DEF CallFits
  <1> QED BY <1>1, <1>8 DEF Control, MainControl

\* Only WriteRowGroup gives the writer a row group.
LEMMA NoSource ==
  ASSUME Control,
         \/ job \in {<< >>, CloseJob, CloseJob2, CloseJob3, CloseJob4, CloseJob5, DeferredJob, ResetJob}
         \/ \E g : job = RowGroupJob(g) \/ job = CommitJob(g)
         \/ job = BeforePath("copyRows") \/ job = OnPath("copyRows")
  PROVE  source = << >>
  <1>1. \A p \in Paths : job # BeforePath(p) /\ job # OnPath(p)
    <2> TAKE p \in Paths
    <2>1. p \in Paths \cup {"copyRows"} /\ p # "copyRows"
      BY DEF Paths
    <2>2. CASE job \in {<< >>, CloseJob, CloseJob2, CloseJob3, CloseJob4, CloseJob5, DeferredJob, ResetJob}
      BY <2>1, <2>2, JobsDiffer, Zenon
    <2>3. CASE \E g : job = RowGroupJob(g) \/ job = CommitJob(g)
      BY <2>1, <2>3, JobsDiffer, Zenon
    <2>4. CASE job = BeforePath("copyRows") \/ job = OnPath("copyRows")
      BY <2>1, <2>4, JobsDiffer, Zenon
    <2> QED BY <2>2, <2>3, <2>4
  <1> QED BY <1>1 DEF Control, SourceFits, PathLeft

\* The calls in progress, except the one on the current row group, which ends.
CurrentCallEnds ==
  /\ \A g \in Groups \ {0} : pc'[g] = pc[g] /\ todo'[g] = todo[g] /\ chunk'[g] = chunk[g]
  /\ pc'[0] = "idle" /\ todo'[0] = << >> /\ chunk'[0] = << >>

\* A call of the main thread ends.
LEMMA CallEnds ==
  ASSUME TypeOK, Control, job' = << >>, phase' = "start", source' = << >>, UNCHANGED rowGroups,
         CurrentCallEnds
  PROVE  Control'
  <1>1. \A p : BeforePath(p) # << >> /\ OnPath(p) # << >>
    BY JobTails, Zenon
  <1>2. \A g : RowGroupJob(g) # << >> /\ CommitJob(g) # << >>
    BY JobTails, Zenon
  <1>3. CloseJob4 # << >> /\ ResetJob # << >>
    BY JobTails, Zenon
  <1>4. JobShape'
    BY DEF JobShape
  <1>5. PhaseFits'
    BY <1>3 DEF PhaseFits
  <1>6. StatusFits'
    BY <1>3 DEF StatusFits
  <1>7. SourceFits'
    BY <1>1 DEF SourceFits, PathLeft
  <1>8. CallFits'
    BY <1>2 DEF Control, CallFits, CurrentCallEnds
  <1>9. RoomFits'
    BY DEF Control, RoomFits
  <1> QED BY <1>4, <1>5, <1>6, <1>7, <1>8, <1>9 DEF Control

\* The calls in progress are not touched.
CallsSame == UNCHANGED <<pc, todo, chunk, generic, resolved>>

\* A call of the main thread goes on with its job.
LEMMA JobGoesOn ==
  ASSUME Control, job # << >>, job' = job, CallsSame, UNCHANGED source,
         phase' # phase => job[1].op \in {"rowGroup", "reset", "deferred"},
         job[1].op = "rowGroup" => phase' \notin {"put", "start"},
         job[1].op = "reset" => phase' \in {"put", "reset"} /\ (phase' = "put" => UNCHANGED <<phase, pos>>),
         job[1].op = "deferred" => phase' \in {"start", "put"},
         done' = done \/ job[1].op \in {"columnar", "deferred"},
         job[1].op = "columnar" => done' < Len(source),
         status' = status \/ job[1].op = "reset",
         Len(rowGroups') <= MaxRowGroups,
         phase' \in {"flush", "header", "pages", "bloom", "append"} => Len(rowGroups') < MaxRowGroups
  PROVE  Control'
  <1>1. JobShape'
    BY DEF Control, JobShape
  <1>2. PhaseFits'
    BY JobOps DEF Control, PhaseFits
  <1>3. StatusFits'
    BY JobOps DEF Control, StatusFits
  <1>4. SourceFits'
    <2>1. \A p : /\ job = BeforePath(p) => job[1].op = "rowGroup"
                 /\ job = OnPath(p) => job[1].op = p
      BY JobOps
    <2>2. \A p \in Paths : job' = BeforePath(p) => done' = 0 /\ (phase' = "start" => pos' = 1)
      BY <2>1 DEF Control, SourceFits
    <2>3. (job' = OnPath("copyable") \/ job' = OnPath("opaque")) => done' = 0
      BY <2>1 DEF Control, SourceFits
    <2>4. job' = OnPath("columnar") => done' < Len(source')
      BY <2>1 DEF Control, SourceFits
    <2> QED BY <2>2, <2>3, <2>4 DEF Control, SourceFits, PathLeft
  <1>5. CallFits'
    BY JobOps DEF Control, CallFits, CallsSame
  <1>6. RoomFits'
    BY DEF RoomFits
  <1> QED BY <1>1, <1>2, <1>3, <1>4, <1>5, <1>6 DEF Control

\* The next job after the current one.
NextJob ==
  \/ job' = << >> /\ \/ \E g \in Groups : job = RowGroupJob(g)
                     \/ job \in {CloseJob5, DeferredJob, ResetJob}
  \/ \E g \in Groups : job = CommitJob(g) /\ job' = RowGroupJob(g)
  \/ \E p \in Paths \cup {"copyRows"} : job = BeforePath(p) /\ job' = OnPath(p)
  \/ \E p \in Paths \cup {"copyRows"} : job = OnPath(p) /\ job' = RowGroupJob(0)
  \/ job = CloseJob /\ job' = CloseJob2
  \/ job = CloseJob2 /\ job' = CloseJob3
  \/ job = CloseJob3 /\ job' = CloseJob4
  \/ job = CloseJob4 /\ job' = CloseJob5

LEMMA NextJobIs ==
  ASSUME JobShape, job # << >>, job' = Tail(job)
  PROVE  NextJob
  <1>1. CASE \E g \in Groups : job = RowGroupJob(g) \/ job = CommitJob(g)
    <2>1. \A g : Tail(RowGroupJob(g)) = << >> /\ Tail(CommitJob(g)) = RowGroupJob(g)
      BY JobTails, Zenon
    <2> QED BY <1>1, <2>1 DEF NextJob
  <1>2. CASE \E p \in Paths \cup {"copyRows"} : job = BeforePath(p) \/ job = OnPath(p)
    <2>1. \A p : Tail(BeforePath(p)) = OnPath(p) /\ Tail(OnPath(p)) = RowGroupJob(0)
      BY JobTails, Zenon
    <2> QED BY <1>2, <2>1 DEF NextJob
  <1>3. CASE job \in {CloseJob, CloseJob2, CloseJob3, CloseJob4, CloseJob5, DeferredJob, ResetJob}
    <2>1. /\ Tail(CloseJob) = CloseJob2 /\ Tail(CloseJob2) = CloseJob3 /\ Tail(CloseJob3) = CloseJob4
          /\ Tail(CloseJob4) = CloseJob5 /\ Tail(CloseJob5) = << >>
          /\ Tail(DeferredJob) = << >> /\ Tail(ResetJob) = << >>
      BY JobTails, Zenon
    <2> QED BY <1>3, <2>1 DEF NextJob
  <1> QED BY <1>1, <1>2, <1>3 DEF JobShape

\* A call of the main thread goes on to the next job.
LEMMA JobAdvances ==
  ASSUME TypeOK, Control, job # << >>, job' = Tail(job), phase' = "start", CallsSame,
         UNCHANGED <<status, rowGroups>>,
         \A p \in Paths : job = BeforePath(p) => pos' = 1 /\ UNCHANGED <<source, done>>,
         \A p \in Paths : job = OnPath(p) => source' = << >>,
         (\A p \in Paths : job # BeforePath(p) /\ job # OnPath(p)) => UNCHANGED source,
         job = OnPath("copyRows") => pc[0] = "idle"
  PROVE  Control' /\ NextJob
  <1>1. NextJob
    BY NextJobIs DEF Control
  <1>2. JobShape'
    BY <1>1 DEF Groups, NextJob, JobShape
  <1>3. PhaseFits' /\ StatusFits'
    <2>1. /\ \A g : RowGroupJob(g)[1].op = "rowGroup" /\ CommitJob(g)[1].op = "rowGroup"
          /\ \A p : BeforePath(p)[1].op = "rowGroup" /\ OnPath(p)[1].op = p
          /\ CloseJob[1].op = "closeColumns" /\ CloseJob2[1].op = "header"
          /\ CloseJob3[1].op = "rowGroup" /\ CloseJob4[1].op = "deferred" /\ CloseJob5[1].op = "footer"
          /\ ResetJob[1].op = "reset"
      BY JobOps
    <2>2. job' # << >> => job'[1].op # "reset" /\ status = "open"
      <3>1. CASE job' = << >>
        BY <3>1
      <3>2. CASE \E g \in Groups : job = CommitJob(g) /\ job' = RowGroupJob(g)
        BY <2>1, <3>2 DEF Control, StatusFits
      <3>3. CASE \E p \in Paths \cup {"copyRows"} : job = BeforePath(p) /\ job' = OnPath(p)
        BY <2>1, <3>3 DEF Control, StatusFits, Paths
      <3>4. CASE \E p \in Paths \cup {"copyRows"} : job = OnPath(p) /\ job' = RowGroupJob(0)
        BY <2>1, <3>4 DEF Control, StatusFits, Paths
      <3>5. CASE \/ job = CloseJob /\ job' = CloseJob2
                 \/ job = CloseJob2 /\ job' = CloseJob3
                 \/ job = CloseJob3 /\ job' = CloseJob4
                 \/ job = CloseJob4 /\ job' = CloseJob5
        BY <2>1, <3>5 DEF Control, StatusFits
      <3> QED BY <1>1, <3>1, <3>2, <3>3, <3>4, <3>5 DEF NextJob
    <2>3. job' # ResetJob
      <3>1. CASE job' # << >>
        BY <2>1, <2>2, <3>1
      <3>2. CASE job' = << >>
        BY <3>2, JobTails, Zenon
      <3> QED BY <3>1, <3>2
    <2>4. PhaseFits'
      BY <2>2, <2>3 DEF PhaseFits
    <2>5. job' = CloseJob4 => status = "open"
      <3>1. CloseJob4 # << >>
        BY JobTails, Zenon
      <3> QED BY <2>2, <3>1
    <2> QED BY <2>2, <2>3, <2>4, <2>5 DEF StatusFits
  <1>4. SourceFits'
    <2>1. CASE \E p \in Paths : job = BeforePath(p)
      <3>1. PICK p \in Paths : job = BeforePath(p)
        BY <2>1
      <3>2. job' = OnPath(p) /\ PathLeft(p)
        <4>1. Tail(BeforePath(p)) = OnPath(p)
          BY JobTails, Zenon
        <4> QED BY <3>1, <4>1 DEF PathLeft
      <3>3. source # << >> /\ done = 0 /\ source' = source /\ done' = 0
        BY <3>1, <3>2 DEF Control, SourceFits
      <3>4. \A q : OnPath(p) # BeforePath(q) /\ (OnPath(p) = OnPath(q) => p = q)
        BY JobsDiffer, Zenon
      <3>5. 0 < Len(source)
        BY <3>3 DEF TypeOK
      <3>6. p \in {"copyable", "columnar"} => Len(source) <= MaxRowsPerRowGroup
        BY <3>2 DEF Control, SourceFits
      <3> QED BY <3>1, <3>2, <3>3, <3>4, <3>5, <3>6 DEF SourceFits, PathLeft
    <2>2. CASE \A p \in Paths : job # BeforePath(p)
      <3>1. \A p \in Paths : job' # BeforePath(p) /\ job' # OnPath(p)
        <4> TAKE p \in Paths
        <4>1. p \in Paths \cup {"copyRows"} /\ p # "copyRows"
          BY DEF Paths
        <4>2. /\ \A g : RowGroupJob(g) # BeforePath(p) /\ RowGroupJob(g) # OnPath(p)
              /\ \A j \in {<< >>, CloseJob, CloseJob2, CloseJob3, CloseJob4, CloseJob5} :
                   j # BeforePath(p) /\ j # OnPath(p)
              /\ \A q : OnPath(q) # BeforePath(p) /\ (OnPath(q) = OnPath(p) => p = q)
          <5>1. /\ \A g : RowGroupJob(g) # BeforePath(p) /\ RowGroupJob(g) # OnPath(p)
                /\ \A j \in {<< >>, CloseJob, CloseJob2, CloseJob3, CloseJob4, CloseJob5, DeferredJob, ResetJob} :
                     j # BeforePath(p) /\ j # OnPath(p)
            BY <4>1, JobsDiffer, Zenon
          <5>2. \A q : OnPath(q) # BeforePath(p) /\ (OnPath(q) = OnPath(p) => p = q)
            BY JobsDiffer, Zenon
          <5> QED BY <5>1, <5>2
        <4>3. CASE \E q \in Paths \cup {"copyRows"} : job = BeforePath(q) /\ job' = OnPath(q)
          BY <2>2, <4>1, <4>2, <4>3
        <4> QED BY <1>1, <4>2, <4>3 DEF NextJob
      <3>2. source' = << >>
        <4>1. CASE \E p \in Paths : job = OnPath(p)
          BY <4>1
        <4>2. CASE \A p \in Paths : job # OnPath(p)
          BY <2>2, <4>2 DEF Control, SourceFits, PathLeft
        <4> QED BY <4>1, <4>2
      <3> QED BY <3>1, <3>2 DEF SourceFits, PathLeft, Paths
    <2> QED BY <2>1, <2>2
  <1>5. CallFits'
    <2>1. \A g : RowGroupJob(g) # << >> /\ CommitJob(g) # << >>
      BY JobTails, Zenon
    <2>2. \A g, h : /\ RowGroupJob(g) = RowGroupJob(h) => g = h
                    /\ RowGroupJob(g) # CommitJob(h)
      BY JobsDiffer, Zenon
    <2>3. \A g : \A j \in {<< >>, CloseJob, CloseJob2, CloseJob3, CloseJob4, CloseJob5, DeferredJob, ResetJob} :
            j # RowGroupJob(g) /\ j # CommitJob(g)
      BY JobsDiffer, Zenon
    <2>4. \A g, p : p \in Paths \cup {"copyRows"} => RowGroupJob(g) # OnPath(p) /\ CommitJob(g) # OnPath(p)
      BY JobsDiffer, Zenon
    <2>5. \A g \in Groups \ {0} : (job' = RowGroupJob(g) \/ job' = CommitJob(g)) => pc'[g] = "idle"
      <3> TAKE g \in Groups \ {0}
      <3> HAVE job' = RowGroupJob(g) \/ job' = CommitJob(g)
      <3>1. job = CommitJob(g)
        BY <1>1, <2>1, <2>2, <2>3, <2>4 DEF NextJob
      <3> QED BY <3>1 DEF Control, CallFits, CallsSame
    <2>6. ASSUME pc[0] = "write"
          PROVE  \/ job = RowGroupJob(0) /\ job' = << >> /\ Len(job) = 1
                 \/ job = BeforePath("copyRows") /\ job' = OnPath("copyRows") /\ Len(job') = 2 /\ ~generic
      <3>1. job = RowGroupJob(0) \/ (job = BeforePath("copyRows") /\ ~generic)
        BY <2>6 DEF Control, CallFits
      <3>2. /\ Tail(RowGroupJob(0)) = << >> /\ Tail(BeforePath("copyRows")) = OnPath("copyRows")
            /\ Len(RowGroupJob(0)) = 1 /\ Len(OnPath("copyRows")) = 2
        BY JobTails, Zenon
      <3> QED BY <3>1, <3>2, Zenon
    <2>7. pc[0] = "write" =>
            /\ status = "open"
            /\ generic => "Write" \in CallKinds
            /\ ~generic => "WriteRows" \in CallKinds \/ Len(job) > 1
            /\ chunk[0] # << >> => job = OnPath("copyRows")
      BY DEF Control, CallFits
    <2>8. pc'[0] = "write" =>
            /\ status' = "open"
            /\ \/ job' = << >> \/ job' = RowGroupJob(0)
               \/ ~generic' /\ (job' = OnPath("copyRows") \/ job' = BeforePath("copyRows"))
            /\ generic' => "Write" \in CallKinds
            /\ ~generic' => "WriteRows" \in CallKinds \/ Len(job') > 1
      <3> HAVE pc'[0] = "write"
      <3>1. pc[0] = "write" /\ generic' = generic
        BY DEF CallsSame
      <3>2. CASE job = RowGroupJob(0) /\ job' = << >> /\ Len(job) = 1
        <4>1. \A n : n = 1 => ~(n > 1)
          OBVIOUS
        <4> QED BY <2>7, <3>1, <3>2, <4>1, Zenon
      <3>3. CASE job = BeforePath("copyRows") /\ job' = OnPath("copyRows") /\ Len(job') = 2 /\ ~generic
        BY <2>7, <3>1, <3>3
      <3> QED BY <2>6, <3>1, <3>2, <3>3
    <2>9. chunk[0] = << >>
      BY DEF Control, CallFits, Groups
    <2> QED BY <2>5, <2>8, <2>9 DEF Control, CallFits, CallsSame
  <1>6. RoomFits'
    BY DEF RoomFits, Control
  <1> QED BY <1>1, <1>2, <1>3, <1>4, <1>5, <1>6 DEF Control

\* A chunk is only written by a call that no job interrupts.
LEMMA ChunkJob ==
  ASSUME Control, pc[0] = "write", job # << >> => job[1].op = "copyRows"
  PROVE  job = << >> \/ job = OnPath("copyRows")
  BY JobFirst DEF Control

\* The steps of a goroutine.
LEMMA NextChunkControl ==
  ASSUME TypeOK, Control, NEW g \in Groups, NextChunk(g)
  PROVE  Control'
  <1>1. pc \in [Groups -> {"idle", "write", "flush", "failed"}] /\ todo \in [Groups -> Seq(Row)]
        /\ chunk \in [Groups -> Seq(Row)] /\ resolved \in BOOLEAN
    BY DEF TypeOK
  <1>2. g = 0 => job = << >> \/ job = OnPath("copyRows")
    BY ChunkJob DEF NextChunk, BetweenChunks
  <1>3. CallsMove(g)
    BY <1>1, <1>2 DEF NextChunk, BetweenChunks, CallsMove, mainVars, outVars, Generic
  <1> QED BY <1>3, CallsMoveControl

LEMMA WriteColumnControl ==
  ASSUME TypeOK, Control, NEW g \in Groups, WriteColumn(g)
  PROVE  Control'
  <1>1. pc \in [Groups -> {"idle", "write", "flush", "failed"}] /\ todo \in [Groups -> Seq(Row)]
        /\ chunk \in [Groups -> Seq(Row)] /\ resolved \in BOOLEAN
    BY DEF TypeOK
  <1>2. /\ UNCHANGED <<job, phase, pos, source, done, status, rowGroups, generic, todo, resolved>>
        /\ pc[g] = "write" /\ chunk[g] # << >>
        /\ \/ UNCHANGED <<pc, chunk>>
           \/ /\ chunk' = [chunk EXCEPT ![g] = << >>]
              /\ pc' = [pc EXCEPT ![g] = IF todo[g] = << >> THEN "idle" ELSE "write"]
    <2> USE DEF WriteColumn, mainVars, outVars
    <2>1. CASE col[g] < NumColumns
      BY <2>1
    <2>2. CASE ~(col[g] < NumColumns)
      BY <2>2
    <2> QED BY <2>1, <2>2
  <1>3. g = 0 => /\ chunk[0] # << >> => job = << >> \/ job = OnPath("copyRows")
                 /\ (chunk[0] # << >> /\ generic) => resolved
    BY DEF Control, CallFits
  <1>4. CASE UNCHANGED <<pc, chunk>>
    BY <1>1, <1>2, <1>3, <1>4, CallsMoveControl DEF CallsMove
  <1>5. CASE /\ chunk' = [chunk EXCEPT ![g] = << >>]
             /\ pc' = [pc EXCEPT ![g] = IF todo[g] = << >> THEN "idle" ELSE "write"]
    <2>1. chunk'[g] = << >> /\ pc'[g] = IF todo[g] = << >> THEN "idle" ELSE "write"
      BY <1>1, <1>5
    <2>2. CallsMove(g)
      BY <1>1, <1>2, <1>5, <2>1 DEF CallsMove
    <2> QED BY <2>2, CallsMoveControl
  <1> QED BY <1>2, <1>4, <1>5

LEMMA FlushGroupControl ==
  ASSUME TypeOK, Control, NEW g \in Groups, FlushGroupColumn(g) \/ FlushGroupColumnFails(g)
  PROVE  Control'
  <1>1. pc \in [Groups -> {"idle", "write", "flush", "failed"}] /\ todo \in [Groups -> Seq(Row)]
        /\ chunk \in [Groups -> Seq(Row)] /\ resolved \in BOOLEAN
    BY DEF TypeOK
  <1>2. pc[g] = "flush"
    BY DEF FlushGroupColumn, FlushGroupColumnFails
  <1>3. g # 0 /\ todo[g] = << >> /\ chunk[g] = << >>
    BY <1>2 DEF Control, CallFits
  <1>4. CASE FlushGroupColumn(g)
    <2>1. /\ UNCHANGED <<job, phase, pos, source, done, status, rowGroups, generic, todo, chunk, resolved>>
          /\ pc' = pc \/ pc' = [pc EXCEPT ![g] = "idle"]
      BY <1>4 DEF FlushGroupColumn, mainVars, outVars
    <2>2. CallsMove(g)
      BY <1>1, <1>2, <1>3, <2>1 DEF CallsMove
    <2> QED BY <2>2, CallsMoveControl
  <1>5. CASE FlushGroupColumnFails(g)
    BY <1>1, <1>2, <1>3, <1>5, CallsMoveControl DEF FlushGroupColumnFails, Fail, CallsMove
  <1> QED BY <1>4, <1>5

LEMMA WriteColumnFailsControl ==
  ASSUME TypeOK, Control, NEW g \in Groups, WriteColumnFails(g)
  PROVE  Control'
  <1>1. pc \in [Groups -> {"idle", "write", "flush", "failed"}] /\ todo \in [Groups -> Seq(Row)]
        /\ chunk \in [Groups -> Seq(Row)] /\ resolved \in BOOLEAN
    BY DEF TypeOK
  <1>2. pc[g] = "write" /\ chunk[g] # << >>
        /\ UNCHANGED <<generic, resolved, phase, pos, source, done, rowGroups>> /\ Fail(g)
    BY DEF WriteColumnFails
  <1>3. CASE g # 0
    BY <1>1, <1>2, <1>3, CallsMoveControl DEF CallsMove, Fail
  <1>4. CASE g = 0
    <2>1. job = << >> \/ job = OnPath("copyRows")
      BY <1>2, <1>4 DEF Control, CallFits
    <2>2. source = << >>
      BY <2>1, NoSource
    <2>3. phase = "start"
      BY <2>1, JobOps DEF Control, PhaseFits
    <2>4. CurrentCallEnds /\ job' = << >>
      BY <1>1, <1>2, <1>4 DEF Fail, CurrentCallEnds, Groups
    <2> QED BY <1>2, <2>2, <2>3, <2>4, CallEnds
  <1> QED BY <1>3, <1>4

\* A full row group is written before the call on it goes on.
LEMMA GroupFullJob ==
  ASSUME Control, GroupFull(0)
  PROVE  \/ job = << >> /\ job' = RowGroupJob(0)
         \/ job = OnPath("copyRows") /\ job' = BeforePath("copyRows")
  <1>0. job' = <<OnRowGroup(0)>> \o job /\ (job = << >> \/ job = OnPath("copyRows"))
    BY ChunkJob DEF GroupFull, BetweenChunks
  <1>1. <<OnRowGroup(0)>> \o << >> = RowGroupJob(0)
    BY DEF RowGroupJob
  <1>2. <<OnRowGroup(0)>> \o OnPath("copyRows") = BeforePath("copyRows")
    <2> DEFINE a == OnRowGroup(0)
               b == OnWriter("copyRows")
               s == <<a>> \o <<b, a>>
               t == <<a, b, a>>
    <2>1. s \in Seq({a, b}) /\ t \in Seq({a, b}) /\ Len(s) = 3 /\ Len(t) = 3
      <3>1. <<a>> \in Seq({a, b}) /\ <<b, a>> \in Seq({a, b}) /\ t \in Seq({a, b})
        OBVIOUS
      <3>2. Len(<<a>>) = 1 /\ Len(<<b, a>>) = 2 /\ Len(t) = 3
        BY ShortTails
      <3> HIDE DEF a, b
      <3> QED BY <3>1, <3>2, ConcatProperties
    <2>2. \A i \in 1 .. 3 : s[i] = t[i]
      <3> HIDE DEF a, b
      <3> QED OBVIOUS
    <2>3. s = t
      <3> HIDE DEF s, t, a, b
      <3> QED BY <2>1, <2>2, SeqEqual
    <2> QED BY <2>3 DEF OnPath, BeforePath
  <1> QED BY <1>0, <1>1, <1>2

LEMMA GroupFullControl ==
  ASSUME TypeOK, Control, NEW g \in Groups, GroupFull(g)
  PROVE  Control'
  <1>1. pc \in [Groups -> {"idle", "write", "flush", "failed"}] /\ todo \in [Groups -> Seq(Row)]
        /\ chunk \in [Groups -> Seq(Row)] /\ resolved \in BOOLEAN
    BY DEF TypeOK
  <1>2. pc[g] = "write" /\ chunk[g] = << >>
        /\ UNCHANGED <<chunk, generic, resolved, phase, pos, source, done, status, rowGroups>>
    BY DEF GroupFull, BetweenChunks, outVars
  <1>3. CASE g # 0
    <2>1. /\ UNCHANGED job /\ pc' = [pc EXCEPT ![g] = "idle"]
          /\ todo' = [todo EXCEPT ![g] = << >>]
      BY <1>3 DEF GroupFull
    <2>2. CallsMove(g)
      BY <1>1, <1>2, <1>3, <2>1 DEF CallsMove
    <2> QED BY <2>2, CallsMoveControl
  <1>4. CASE g = 0
    <2>1. job' = <<OnRowGroup(0)>> \o job /\ UNCHANGED <<pc, todo>>
      BY <1>4 DEF GroupFull
    <2>2. job = << >> \/ job = OnPath("copyRows")
      BY <1>2, <1>4, ChunkJob DEF GroupFull, BetweenChunks
    <2>3. \/ job = << >> /\ job' = RowGroupJob(0)
          \/ job = OnPath("copyRows") /\ job' = BeforePath("copyRows")
      BY <1>4, GroupFullJob
    <2>4. source = << >> /\ phase = "start" /\ status = "open"
      BY <1>2, <1>4, <2>2, JobOps, NoSource DEF Control, PhaseFits, CallFits
    <2>5. job' # << >> /\ job'[1].op = "rowGroup" /\ \A p \in Paths : job' # BeforePath(p) /\ job' # OnPath(p)
      <3>1. /\ RowGroupJob(0) # << >> /\ BeforePath("copyRows") # << >>
        BY JobTails, Zenon
      <3>2. RowGroupJob(0)[1].op = "rowGroup" /\ BeforePath("copyRows")[1].op = "rowGroup"
        BY JobOps
      <3>3. \A p \in Paths : RowGroupJob(0) # BeforePath(p) /\ RowGroupJob(0) # OnPath(p)
        BY JobsDiffer, Zenon
      <3>4. \A p \in Paths : BeforePath("copyRows") # BeforePath(p) /\ BeforePath("copyRows") # OnPath(p)
        <4>1. \A p : /\ BeforePath("copyRows") = BeforePath(p) => "copyRows" = p
                     /\ BeforePath("copyRows") # OnPath(p)
          BY JobsDiffer, Zenon
        <4> QED BY <4>1 DEF Paths
      <3> QED BY <2>3, <3>1, <3>2, <3>3, <3>4
    <2>6. JobShape'
      BY <2>3 DEF JobShape, Groups
    <2>7. PhaseFits' /\ StatusFits' /\ RoomFits'
      BY <1>2, <2>4, <2>5, JobOps DEF PhaseFits, StatusFits, RoomFits, Control
    <2>8. SourceFits'
      BY <1>2, <2>4, <2>5 DEF SourceFits, PathLeft, Paths
    <2>9. CallFits'
      <3>1. \A h \in Groups \ {0} : job' # RowGroupJob(h) /\ job' # CommitJob(h)
        BY <2>3, JobsDiffer
      <3>2. ~generic => "WriteRows" \in CallKinds \/ Len(job') > 1
        <4>1. CASE job = << >>
          <5>1. Len(<< >>) = 0
            OBVIOUS
          <5>2. ~(Len(job) > 1)
            BY <4>1, <5>1
          <5> QED BY <1>2, <1>4, <5>2 DEF Control, CallFits
        <4>2. CASE job = OnPath("copyRows") /\ job' = BeforePath("copyRows")
          <5>1. Len(BeforePath("copyRows")) = 3
            BY JobTails, Zenon
          <5>2. \A n : n = 3 => n > 1
            OBVIOUS
          <5> QED BY <4>2, <5>1, <5>2, Zenon
        <4> QED BY <2>3, <4>1, <4>2
      <3>3. job # << >> => ~generic
        BY <1>2, <1>4, <2>2, JobsDiffer DEF Control, CallFits
      <3>4. generic => job' = RowGroupJob(0) /\ "Write" \in CallKinds
        <4>1. OnPath("copyRows") # << >>
          BY JobTails, Zenon
        <4>2. generic => job' = RowGroupJob(0)
          BY <2>3, <3>3, <4>1
        <4> QED BY <1>2, <1>4, <4>2 DEF Control, CallFits
      <3>5. job' = RowGroupJob(0) \/ (~generic /\ job' = BeforePath("copyRows"))
        <4>1. OnPath("copyRows") # << >>
          BY JobTails, Zenon
        <4>2. CASE job = << >> /\ job' = RowGroupJob(0)
          BY <4>2
        <4>3. CASE job = OnPath("copyRows") /\ job' = BeforePath("copyRows")
          BY <3>3, <4>1, <4>3
        <4> QED BY <2>3, <4>2, <4>3
      <3>6. /\ \A h \in Groups : pc[h] # "write" => todo[h] = << >> /\ chunk[h] = << >>
            /\ chunk[0] = << >>
        BY <1>2, <1>4 DEF Control, CallFits
      <3> QED BY <1>2, <1>4, <2>1, <2>4, <3>1, <3>2, <3>4, <3>5, <3>6 DEF CallFits
    <2> QED BY <2>6, <2>7, <2>8, <2>9 DEF Control
  <1> QED BY <1>3, <1>4

\* The calls on the current row group and on those of BeginRowGroup.
LEMMA FlushGroupCallControl ==
  ASSUME TypeOK, Control, NEW g \in Groups, FlushGroup(g)
  PROVE  Control'
  <1>1. /\ g # 0 /\ pc[g] = "idle" /\ \A i \in 1 .. Len(job) : job[i].group # g
        /\ pc' = [pc EXCEPT ![g] = "flush"]
        /\ UNCHANGED <<job, phase, pos, source, done, status, rowGroups, todo, chunk, generic, resolved>>
    BY DEF FlushGroup, Idle, mainVars, outVars
  <1>2. MainControl'
    BY <1>1, MainControlSame DEF Control, MainControl
  <1>3. pc \in [Groups -> {"idle", "write", "flush", "failed"}]
    BY DEF TypeOK
  <1>4. job # RowGroupJob(g) /\ job # CommitJob(g)
    <2>1. ASSUME job = RowGroupJob(g) PROVE FALSE
      BY <1>1, <2>1, JobItems, Zenon
    <2>2. ASSUME job = CommitJob(g) PROVE FALSE
      BY <1>1, <2>2, JobItems, Zenon
    <2> QED BY <2>1, <2>2
  <1>5. CallFits'
    BY <1>1, <1>3, <1>4 DEF Control, CallFits
  <1> QED BY <1>2, <1>5 DEF Control, MainControl

\* A call of the main thread begins on an open writer that does nothing.
LEMMA CallControl ==
  ASSUME TypeOK, Control, NEW jobs, Call(jobs),
         \/ jobs = RowGroupJob(0) \/ jobs = CloseJob
         \/ \E g \in Groups \ {0} : jobs = CommitJob(g) /\ pc[g] = "idle"
  PROVE  Control'
  <1>1. /\ job = << >> /\ pc[0] = "idle" /\ status = "open"
        /\ job' = jobs /\ phase' = "start" /\ pos' = 1 /\ done' = 0
        /\ UNCHANGED <<pc, todo, chunk, generic, resolved, source, status, rowGroups>>
    BY DEF Call, MainIdle, callVars, outVars
  <1>2. source = << >> /\ chunk[0] = << >>
    BY <1>1, NoJob DEF Control, CallFits, Groups
  <1>3. JobShape'
    BY <1>1 DEF JobShape, Groups
  <1>4. /\ job' # << >> /\ job'[1].op \in {"rowGroup", "closeColumns"}
        /\ job' # CloseJob4 /\ job' # ResetJob
        /\ \A p \in Paths : job' # BeforePath(p) /\ job' # OnPath(p)
    <2>1. /\ \A g : RowGroupJob(g) # << >> /\ CommitJob(g) # << >>
          /\ CloseJob # << >>
      BY JobTails, Zenon
    <2>2. \A p \in Paths : \A g : /\ RowGroupJob(g) # BeforePath(p) /\ RowGroupJob(g) # OnPath(p)
                                  /\ CommitJob(g) # BeforePath(p) /\ CommitJob(g) # OnPath(p)
      BY JobsDiffer, Zenon
    <2>3. \A p \in Paths : CloseJob # BeforePath(p) /\ CloseJob # OnPath(p)
      BY JobsDiffer, Zenon
    <2>4. job'[1].op \in {"rowGroup", "closeColumns"}
      BY <1>1, JobOps
    <2>5. job' # CloseJob4 /\ job' # ResetJob
      BY <2>4, JobOps
    <2>6. job' # << >>
      BY <1>1, <2>1, Zenon
    <2>7. \A p \in Paths : job' # BeforePath(p) /\ job' # OnPath(p)
      BY <1>1, <2>2, <2>3, Zenon
    <2> QED BY <2>4, <2>5, <2>6, <2>7
  <1>5. PhaseFits'
    BY <1>1, <1>4 DEF PhaseFits
  <1>6. StatusFits'
    BY <1>1, <1>4 DEF StatusFits
  <1>7. SourceFits'
    BY <1>1, <1>2, <1>4 DEF SourceFits, PathLeft, Paths
  <1>8. CallFits'
    <2>1. \A g \in Groups \ {0} : (job' = RowGroupJob(g) \/ job' = CommitJob(g)) => pc'[g] = "idle"
      <3> TAKE g \in Groups \ {0}
      <3>1. /\ RowGroupJob(0) # RowGroupJob(g) /\ RowGroupJob(0) # CommitJob(g)
            /\ CloseJob # RowGroupJob(g) /\ CloseJob # CommitJob(g)
            /\ \A h : CommitJob(h) # RowGroupJob(g) /\ (CommitJob(h) = CommitJob(g) => h = g)
        <4>1. \A a, b : /\ RowGroupJob(a) = RowGroupJob(b) => a = b
                        /\ CommitJob(a) = CommitJob(b) => a = b
                        /\ RowGroupJob(a) # CommitJob(b)
          BY JobsDiffer, Zenon
        <4>2. CloseJob # RowGroupJob(g) /\ CloseJob # CommitJob(g)
          BY JobsDiffer, Zenon
        <4> QED BY <4>1, <4>2
      <3> QED BY <1>1, <3>1
    <2> QED BY <1>1, <1>2, <2>1 DEF Control, CallFits
  <1>9. RoomFits'
    BY <1>1 DEF Control, RoomFits
  <1> QED BY <1>3, <1>5, <1>6, <1>7, <1>8, <1>9 DEF Control

LEMMA WriteRowGroupControl ==
  ASSUME TypeOK, Control, NEW n \in 1 .. MaxCall,
         NEW kind \in CallKinds \cap {"copyable", "columnar", "opaque"}, WriteRowGroup(n, kind)
  PROVE  Control'
  <1> DEFINE path == IF n > MaxRowsPerRowGroup THEN "opaque" ELSE kind
  <1>1. /\ job = << >> /\ pc[0] = "idle" /\ status = "open"
        /\ job' = BeforePath(path) /\ phase' = "start" /\ pos' = 1 /\ done' = 0
        /\ source' = NewRows(n)
        /\ UNCHANGED <<pc, todo, chunk, generic, resolved, status, rowGroups>>
    BY DEF WriteRowGroup, MainIdle, outVars, AfterFlush, BeforePath
  <1>2. path \in Paths /\ (path # "opaque" => n <= MaxRowsPerRowGroup)
    BY WriterAssumption DEF Paths
  <1>3. Len(source') = n /\ source' # << >>
    BY <1>1, WriterAssumption DEF NewRows
  <1>4. chunk[0] = << >>
    BY <1>1 DEF Control, CallFits, Groups
  <1> HIDE DEF path
  <1>5. JobShape'
    BY <1>1, <1>2 DEF JobShape
  <1>6. /\ job' # << >> /\ job'[1].op = "rowGroup" /\ job' # CloseJob4 /\ job' # ResetJob
        /\ \A p : job' # OnPath(p) /\ (job' = BeforePath(p) => p = path)
        /\ \A g : job' # RowGroupJob(g) /\ job' # CommitJob(g)
    <2>1. BeforePath(path) # << >>
      BY JobTails, Zenon
    <2>2. \A p : BeforePath(path) # OnPath(p) /\ (BeforePath(path) = BeforePath(p) => path = p)
      BY JobsDiffer, Zenon
    <2>3. path \in Paths \cup {"copyRows"}
      BY <1>2
    <2>4. \A g : BeforePath(path) # RowGroupJob(g) /\ BeforePath(path) # CommitJob(g)
      BY <2>3, JobsDiffer, Zenon
    <2>5. job'[1].op = "rowGroup"
      BY <1>1, JobOps
    <2>6. job' # CloseJob4 /\ job' # ResetJob
      BY <2>5, JobOps
    <2> QED BY <1>1, <2>1, <2>2, <2>4, <2>5, <2>6
  <1>7. PhaseFits'
    BY <1>1, <1>6 DEF PhaseFits
  <1>8. StatusFits'
    BY <1>1, <1>6 DEF StatusFits
  <1>9. SourceFits'
    BY <1>1, <1>2, <1>3, <1>6 DEF SourceFits, PathLeft, Paths
  <1>10. CallFits'
    BY <1>1, <1>4, <1>6 DEF Control, CallFits
  <1>11. RoomFits'
    BY <1>1 DEF Control, RoomFits
  <1> QED BY <1>5, <1>7, <1>8, <1>9, <1>10, <1>11 DEF Control

LEMMA ResetControl ==
  ASSUME TypeOK, Control, Reset
  PROVE  Control'
  <1>1. /\ job = << >> /\ pc[0] = "idle" /\ MaxResets > 0
        /\ job' = ResetJob /\ phase' = "put" /\ pos' = 1
        /\ UNCHANGED <<pc, todo, chunk, generic, resolved, source, done, status, rowGroups>>
    BY WriterAssumption DEF Reset, callVars, ResetJob, TypeOK
  <1>2. source = << >> /\ chunk[0] = << >>
    BY <1>1, NoJob DEF Control, CallFits, Groups
  <1>3. /\ job' # << >> /\ job'[1].op = "reset" /\ job' # CloseJob4
        /\ \A p \in Paths : job' # BeforePath(p) /\ job' # OnPath(p)
        /\ \A g : job' # RowGroupJob(g) /\ job' # CommitJob(g)
    <2>1. ResetJob # << >>
      BY JobTails, Zenon
    <2>2. ResetJob[1].op = "reset" /\ CloseJob4[1].op = "deferred"
      BY JobOps
    <2>3. \A p \in Paths : ResetJob # BeforePath(p) /\ ResetJob # OnPath(p)
      BY JobsDiffer, Zenon
    <2>4. \A g : ResetJob # RowGroupJob(g) /\ ResetJob # CommitJob(g)
      BY JobsDiffer, Zenon
    <2>5. ResetJob # CloseJob4
      BY <2>2
    <2> QED BY <1>1, <2>1, <2>2, <2>3, <2>4, <2>5, Zenon
  <1>4. JobShape'
    BY <1>1 DEF JobShape
  <1>5. PhaseFits' /\ StatusFits'
    BY <1>1, <1>3 DEF PhaseFits, StatusFits
  <1>6. SourceFits'
    BY <1>1, <1>2, <1>3 DEF SourceFits, PathLeft, Paths
  <1>7. CallFits'
    BY <1>1, <1>2, <1>3 DEF Control, CallFits
  <1>8. RoomFits'
    BY <1>1 DEF Control, RoomFits
  <1> QED BY <1>4, <1>5, <1>6, <1>7, <1>8 DEF Control

\* The steps of writeRowGroup before its end.
LEMMA RowGroupGoesOn ==
  ASSUME TypeOK, Control, Running("rowGroup"), job' = job, CallsSame,
         UNCHANGED <<source, done, status, rowGroups>>,
         \/ phase = "start" /\ Len(rowGroups) # MaxRowGroups /\ phase' = "flush"
         \/ phase \in {"flush", "header", "pages", "bloom"}
            /\ phase' \in {"flush", "header", "pages", "bloom", "append", "abort"}
  PROVE  Control'
  <1>1. job # << >> /\ job[1].op = "rowGroup"
    BY DEF Running
  <1>2. Len(rowGroups) < MaxRowGroups
    <2>1. Len(rowGroups) \in Nat /\ MaxRowGroups \in Nat /\ Len(rowGroups) <= MaxRowGroups
      BY WriterAssumption DEF Control, RoomFits, TypeOK
    <2>2. phase # "start" => Len(rowGroups) < MaxRowGroups
      BY <1>1 DEF Control, RoomFits
    <2> QED BY <2>1, <2>2
  <1>3. phase' \in {"flush", "header", "pages", "bloom", "append", "abort"}
    OBVIOUS
  <1>4. Len(rowGroups') <= MaxRowGroups /\ Len(rowGroups') < MaxRowGroups
    BY <1>2 DEF Control, RoomFits
  <1> QED BY <1>1, <1>3, <1>4, JobGoesOn

LEMMA RowGroupStepControl ==
  ASSUME TypeOK, Control,
         \/ StartRowGroup \/ FlushRowGroupColumn \/ FlushRowGroupColumnFails \/ WriteHeader
         \/ WriteColumnPages \/ NoBloomFilter \/ DeferBloomFilter \/ WriteBloomFilter
         \/ WriteRowGroupFails \/ FlushFilterPagesFails
  PROVE  Control'
  <1>1. Running("rowGroup") /\ job' = job /\ CallsSame /\ UNCHANGED <<source, done, status, rowGroups>>
    <2> USE DEF InRowGroup, CallsSame, callVars, outVars
    <2>1. CASE StartRowGroup
      BY <2>1 DEF StartRowGroup
    <2>2. CASE FlushRowGroupColumn
      BY <2>2 DEF FlushRowGroupColumn
    <2>3. CASE FlushRowGroupColumnFails
      BY <2>3 DEF FlushRowGroupColumnFails
    <2>4. CASE WriteHeader
      BY <2>4 DEF WriteHeader
    <2>5. CASE WriteColumnPages
      BY <2>5 DEF WriteColumnPages
    <2>6. CASE NoBloomFilter
      BY <2>6 DEF NoBloomFilter
    <2>7. CASE DeferBloomFilter
      BY <2>7 DEF DeferBloomFilter
    <2>8. CASE WriteBloomFilter
      BY <2>8 DEF WriteBloomFilter
    <2>9. CASE WriteRowGroupFails
      BY <2>9 DEF WriteRowGroupFails
    <2>10. CASE FlushFilterPagesFails
      BY <2>10 DEF FlushFilterPagesFails
    <2> QED BY <2>1, <2>2, <2>3, <2>4, <2>5, <2>6, <2>7, <2>8, <2>9, <2>10
  <1>2. \/ phase = "start" /\ Len(rowGroups) # MaxRowGroups /\ phase' = "flush"
        \/ phase \in {"flush", "header", "pages", "bloom"}
           /\ phase' \in {"flush", "header", "pages", "bloom", "append", "abort"}
    <2> USE DEF InRowGroup, NextColumnOr
    <2>1. CASE StartRowGroup
      BY <2>1 DEF StartRowGroup
    <2>2. CASE FlushRowGroupColumn
      BY <2>2 DEF FlushRowGroupColumn
    <2>3. CASE FlushRowGroupColumnFails
      BY <2>3 DEF FlushRowGroupColumnFails
    <2>4. CASE WriteHeader
      BY <2>4 DEF WriteHeader
    <2>5. CASE WriteColumnPages
      BY <2>5 DEF WriteColumnPages
    <2>6. CASE NoBloomFilter
      BY <2>6 DEF NoBloomFilter
    <2>7. CASE DeferBloomFilter
      BY <2>7 DEF DeferBloomFilter
    <2>8. CASE WriteBloomFilter
      BY <2>8 DEF WriteBloomFilter
    <2>9. CASE WriteRowGroupFails
      BY <2>9 DEF WriteRowGroupFails
    <2>10. CASE FlushFilterPagesFails
      BY <2>10 DEF FlushFilterPagesFails
    <2> QED BY <2>1, <2>2, <2>3, <2>4, <2>5, <2>6, <2>7, <2>8, <2>9, <2>10
  <1> QED BY <1>1, <1>2, RowGroupGoesOn

LEMMA AppendRowGroupControl ==
  ASSUME TypeOK, Control, AppendRowGroup
  PROVE  Control'
  <1>1. /\ job # << >> /\ job[1].op = "rowGroup" /\ job' = job /\ phase = "append" /\ phase' = "reset"
        /\ CallsSame /\ UNCHANGED <<source, done, status>>
    BY DEF AppendRowGroup, InRowGroup, Running, CallsSame, callVars
  <1>2. Len(rowGroups') <= MaxRowGroups
    <2>1. Len(rowGroups) < MaxRowGroups
      BY <1>1 DEF Control, RoomFits
    <2>2. rowGroups \in Seq(RowGroup) /\ MaxRowGroups \in Nat
      BY WriterAssumption DEF TypeOK
    <2>3. PICK r : rowGroups' = Append(rowGroups, r)
      BY DEF AppendRowGroup
    <2>4. Len(rowGroups') = Len(rowGroups) + 1
      BY <2>2, <2>3
    <2> QED BY <2>1, <2>2, <2>4
  <1> QED BY <1>1, <1>2, JobGoesOn

\* A row group without rows, or the last step of one: the next job follows.
LEMMA RowGroupEnds ==
  ASSUME TypeOK, Control, job # << >>, job[1].op \in {"rowGroup", "reset"}, job' = Tail(job),
         phase' = "start", CallsSame, UNCHANGED <<source, done, status, rowGroups>>,
         (phase = "start" /\ UNCHANGED pos) \/ pos' = 1
  PROVE  Control'
  <1>1. \A p \in Paths : job = BeforePath(p) => pos' = 1
    BY DEF Control, SourceFits
  <1>2. \A p \in Paths \cup {"copyRows"} : job # OnPath(p)
    BY JobOps DEF Paths
  <1> QED BY <1>1, <1>2, JobAdvances

LEMMA SkipEmptyRowGroupControl ==
  ASSUME TypeOK, Control, SkipEmptyRowGroup
  PROVE  Control'
  BY RowGroupEnds DEF SkipEmptyRowGroup, InRowGroup, Running, CallsSame, callVars, outVars

\* Only a call in no job holds a chunk when a row group is written.
LEMMA NoChunk0 ==
  ASSUME TypeOK, Control, job # << >>, job[1].op # "copyRows"
  PROVE  chunk[0] = << >>
  BY JobOps DEF Control, CallFits

\* The call is over for the main thread and for the current row group.
LEMMA CurrentCallAborts ==
  ASSUME TypeOK, Control, job # << >>, job[1].op # "copyRows", UNCHANGED chunk,
         \/ UNCHANGED <<pc, todo>> /\ job[1].op # "rowGroup"
         \/ pc' = [pc EXCEPT ![0] = "idle"] /\ todo' = [todo EXCEPT ![0] = << >>]
  PROVE  CurrentCallEnds
  <1>1. /\ pc \in [Groups -> {"idle", "write", "flush", "failed"}] /\ todo \in [Groups -> Seq(Row)]
        /\ chunk \in [Groups -> Seq(Row)] /\ 0 \in Groups
    BY DEF TypeOK, Groups
  <1>2. chunk[0] = << >>
    BY NoChunk0
  <1>3. CASE UNCHANGED <<pc, todo>> /\ job[1].op # "rowGroup"
    <2>1. pc[0] = "idle"
      BY <1>3, JobOps DEF Control, CallFits
    <2>2. todo[0] = << >>
      BY <1>1, <2>1 DEF Control, CallFits
    <2> QED BY <1>1, <1>2, <1>3, <2>1, <2>2 DEF CurrentCallEnds
  <1>4. CASE pc' = [pc EXCEPT ![0] = "idle"] /\ todo' = [todo EXCEPT ![0] = << >>]
    BY <1>1, <1>2, <1>4 DEF CurrentCallEnds
  <1> QED BY <1>3, <1>4

LEMMA TooManyRowGroupsControl ==
  ASSUME TypeOK, Control, TooManyRowGroups
  PROVE  Control'
  <1>1. /\ job # << >> /\ job[1].op = "rowGroup" /\ phase = "start"
        /\ job' = << >> /\ phase' = phase /\ source' = << >> /\ UNCHANGED <<chunk, rowGroups>>
        /\ pc' = [pc EXCEPT ![0] = "idle"] /\ todo' = [todo EXCEPT ![0] = << >>]
    BY DEF TooManyRowGroups, InRowGroup, Running, AbortCall, outVars
  <1>2. CurrentCallEnds
    BY <1>1, CurrentCallAborts
  <1> QED BY <1>1, <1>2, CallEnds

LEMMA ResetRowGroupColumnControl ==
  ASSUME TypeOK, Control, ResetRowGroupColumn
  PROVE  Control'
  <1>1. /\ job # << >> /\ phase \in {"reset", "abort"}
        /\ UNCHANGED <<chunk, generic, resolved, done, rowGroups>>
        /\ IF pos < NumColumns THEN pos' = pos + 1 /\ UNCHANGED phase
                               ELSE pos' = 1 /\ phase' = "start"
        /\ IF pos < NumColumns
             THEN UNCHANGED <<job, pc, todo, source, status>>
             ELSE IF phase = "reset"
                    THEN job' = Tail(job) /\ UNCHANGED <<pc, todo, source, status>>
                    ELSE AbortCall /\ status' = "failed"
    BY DEF ResetRowGroupColumn, NextColumnOr
  <1>2. job[1].op \in {"rowGroup", "reset"} /\ (phase = "abort" => job[1].op = "rowGroup")
    BY <1>1 DEF Control, PhaseFits
  <1>3. CASE pos < NumColumns
    <2>1. job' = job /\ CallsSame /\ UNCHANGED <<source, done, status, rowGroups, phase>>
      BY <1>1, <1>3 DEF CallsSame
    <2>2. Len(rowGroups') <= MaxRowGroups
      BY <2>1 DEF Control, RoomFits
    <2> QED BY <1>1, <1>2, <2>1, <2>2, JobGoesOn
  <1>4. CASE ~(pos < NumColumns) /\ phase = "reset"
    BY <1>1, <1>2, <1>4, RowGroupEnds DEF CallsSame
  <1>5. CASE ~(pos < NumColumns) /\ phase = "abort"
    <2>1. /\ job' = << >> /\ phase' = "start" /\ source' = << >>
          /\ pc' = [pc EXCEPT ![0] = "idle"] /\ todo' = [todo EXCEPT ![0] = << >>]
      BY <1>1, <1>5 DEF AbortCall
    <2>2. CurrentCallEnds
      BY <1>1, <1>2, <1>5, <2>1, CurrentCallAborts
    <2> QED BY <1>1, <2>1, <2>2, CallEnds
  <1> QED BY <1>1, <1>3, <1>4, <1>5

LEMMA LoadCopiedChunkControl ==
  ASSUME TypeOK, Control, LoadCopiedChunk
  PROVE  Control'
  <1>1. /\ job # << >> /\ job[1].op = "copyable" /\ CallsSame /\ UNCHANGED <<phase, done, status, rowGroups>>
        /\ IF pos < NumColumns THEN UNCHANGED <<job, source>>
                               ELSE pos' = 1 /\ job' = Tail(job) /\ source' = << >>
    BY DEF LoadCopiedChunk, Running, CallsSame, callVars, outVars
  <1>2. job = OnPath("copyable")
    BY <1>1, JobFirst DEF Control, Paths
  <1>3. phase = "start" /\ Len(rowGroups) <= MaxRowGroups
    BY <1>1 DEF Control, PhaseFits, RoomFits
  <1>4. CASE pos < NumColumns
    BY <1>1, <1>3, <1>4, JobGoesOn
  <1>5. CASE ~(pos < NumColumns)
    <2>1. job # OnPath("copyRows") /\ \A p : job # BeforePath(p)
      BY <1>2, JobsDiffer
    <2>2. ~(\A p \in Paths : job # BeforePath(p) /\ job # OnPath(p))
      BY <1>2 DEF Paths
    <2> QED BY <1>1, <1>3, <1>5, <2>1, <2>2, JobAdvances
  <1> QED BY <1>4, <1>5

LEMMA ReencodeBatchControl ==
  ASSUME TypeOK, Control, ReencodeBatch
  PROVE  Control'
  <1>1. /\ job # << >> /\ job[1].op = "columnar" /\ CallsSame /\ UNCHANGED <<phase, status, rowGroups>>
        /\ IF BatchEnd < Len(source)
             THEN done' = BatchEnd /\ UNCHANGED <<job, pos, source>>
             ELSE /\ done' = 0
                  /\ IF pos < NumColumns THEN pos' = pos + 1 /\ UNCHANGED <<job, source>>
                                         ELSE pos' = 1 /\ job' = Tail(job) /\ source' = << >>
    BY DEF ReencodeBatch, Running, CallsSame, callVars, outVars
  <1>2. job = OnPath("columnar")
    BY <1>1, JobFirst DEF Control, Paths
  <1>3. phase = "start" /\ Len(rowGroups) <= MaxRowGroups /\ 0 < Len(source)
    BY <1>1, <1>2 DEF Control, SourceFits, TypeOK, PhaseFits, RoomFits
  <1>4. CASE BatchEnd < Len(source)
    BY <1>1, <1>3, <1>4, JobGoesOn
  <1>5. CASE ~(BatchEnd < Len(source)) /\ pos < NumColumns
    BY <1>1, <1>3, <1>5, JobGoesOn
  <1>6. CASE ~(BatchEnd < Len(source)) /\ ~(pos < NumColumns)
    <2>1. job # OnPath("copyRows") /\ \A p : job # BeforePath(p)
      BY <1>2, JobsDiffer
    <2>2. ~(\A p \in Paths : job # BeforePath(p) /\ job # OnPath(p))
      BY <1>2 DEF Paths
    <2> QED BY <1>1, <1>3, <1>6, <2>1, <2>2, JobAdvances
  <1> QED BY <1>4, <1>5, <1>6

\* The row-oriented path goes on with the copying of the rows.
LEMMA StartCopyRowsJob ==
  ASSUME Control, StartCopyRows
  PROVE  job = OnPath("opaque") /\ job' = OnPath("copyRows")
  <1>1. job # << >> /\ job[1].op = "opaque" /\ job' = <<OnWriter("copyRows")>> \o Tail(job)
    BY DEF StartCopyRows, Running
  <1>2. job = OnPath("opaque")
    BY <1>1, JobFirst DEF Control, Paths
  <1>3. job' = OnPath("copyRows")
    <2>1. Tail(OnPath("opaque")) = RowGroupJob(0)
      BY JobTails, Zenon
    <2>2. <<OnWriter("copyRows")>> \o RowGroupJob(0) = OnPath("copyRows")
      <3>1. \A a, b : <<a>> \o <<b>> = <<a, b>>
        <4> TAKE a, b
        <4> DEFINE s == <<a>> \o <<b>>
                   t == <<a, b>>
        <4>1. s \in Seq({a, b}) /\ t \in Seq({a, b}) /\ Len(s) = 2 /\ Len(t) = 2
          <5>1. <<a>> \in Seq({a, b}) /\ <<b>> \in Seq({a, b}) /\ t \in Seq({a, b})
            OBVIOUS
          <5>2. Len(<<a>>) = 1 /\ Len(<<b>>) = 1 /\ Len(t) = 2
            BY ShortTails
          <5> QED BY <5>1, <5>2, ConcatProperties
        <4>2. \A i \in 1 .. 2 : s[i] = t[i]
          OBVIOUS
        <4>3. s = t
          <5> HIDE DEF s, t
          <5> QED BY <4>1, <4>2, SeqEqual
        <4> QED BY <4>3
      <3> QED BY <3>1, Zenon DEF RowGroupJob, OnPath
    <2> QED BY <1>1, <1>2, <2>1, <2>2
  <1> QED BY <1>2, <1>3

LEMMA StartCopyRowsControl ==
  ASSUME TypeOK, Control, StartCopyRows
  PROVE  Control'
  <1>1. /\ job # << >> /\ job[1].op = "opaque"
        /\ pc' = [pc EXCEPT ![0] = "write"] /\ todo' = [todo EXCEPT ![0] = source]
        /\ generic' = FALSE /\ source' = << >> /\ job' = <<OnWriter("copyRows")>> \o Tail(job)
        /\ UNCHANGED <<chunk, resolved, phase, pos, done, status, rowGroups>>
    BY DEF StartCopyRows, Running, outVars
  <1>2. job = OnPath("opaque") /\ job' = OnPath("copyRows")
    BY StartCopyRowsJob
  <1>4. phase = "start" /\ status = "open"
    BY <1>1 DEF Control, PhaseFits, StatusFits
  <1>5. /\ OnPath("copyRows") # << >> /\ Len(OnPath("copyRows")) = 2
        /\ \A p \in Paths : OnPath("copyRows") # BeforePath(p) /\ OnPath("copyRows") # OnPath(p)
        /\ \A g : OnPath("copyRows") # RowGroupJob(g) /\ OnPath("copyRows") # CommitJob(g)
    <2>1. OnPath("copyRows") # << >> /\ Len(OnPath("copyRows")) = 2
      BY JobTails, Zenon
    <2>2. \A p : OnPath("copyRows") # BeforePath(p) /\ (OnPath("copyRows") = OnPath(p) => p = "copyRows")
      BY JobsDiffer, Zenon
    <2>3. \A p : p \in Paths \cup {"copyRows"} =>
            \A g : OnPath(p) # RowGroupJob(g) /\ OnPath(p) # CommitJob(g)
      BY JobsDiffer, Zenon
    <2>4. "copyRows" \in Paths \cup {"copyRows"} /\ "copyRows" \notin Paths
      BY DEF Paths
    <2> QED BY <2>1, <2>2, <2>3, <2>4
  <1>6. OnPath("copyRows")[1].op = "copyRows" /\ ResetJob[1].op = "reset" /\ CloseJob4[1].op = "deferred"
    BY JobOps
  <1>7. JobShape'
    BY <1>2 DEF JobShape
  <1>8. PhaseFits' /\ StatusFits'
    BY <1>1, <1>2, <1>4, <1>6 DEF PhaseFits, StatusFits
  <1>9. SourceFits'
    BY <1>1, <1>2, <1>5 DEF SourceFits, PathLeft, Paths
  <1>10. CallFits'
    <2>1. /\ pc \in [Groups -> {"idle", "write", "flush", "failed"}] /\ todo \in [Groups -> Seq(Row)]
          /\ 0 \in Groups
      BY DEF TypeOK, Groups
    <2>2. \A h \in Groups : pc'[h] # "write" => todo'[h] = << >> /\ chunk'[h] = << >>
      BY <1>1, <2>1 DEF Control, CallFits
    <2>3. chunk'[0] = << >>
      BY <1>1, NoChunk0
    <2>4. \A n : n = 2 => n > 1
      OBVIOUS
    <2>5. Len(job') > 1
      BY <1>2, <1>5, <2>4, Zenon
    <2>6. \A h \in Groups \ {0} : job' # RowGroupJob(h) /\ job' # CommitJob(h)
      BY <1>2, <1>5
    <2>7. pc'[0] = "write"
      BY <1>1, <2>1
    <2> QED BY <1>1, <1>2, <1>4, <2>2, <2>3, <2>5, <2>6, <2>7 DEF CallFits
  <1>11. RoomFits'
    BY <1>1, <1>4 DEF Control, RoomFits
  <1> QED BY <1>7, <1>8, <1>9, <1>10, <1>11 DEF Control

LEMMA RowsCopiedControl ==
  ASSUME TypeOK, Control, RowsCopied
  PROVE  Control'
  <1>1. /\ job # << >> /\ job[1].op = "copyRows" /\ job' = Tail(job) /\ pc[0] = "idle" /\ CallsSame
        /\ UNCHANGED <<phase, pos, source, done, status, rowGroups>>
    BY DEF RowsCopied, Running, CallsSame, callVars, outVars
  <1>2. job = OnPath("copyRows") /\ phase = "start"
    BY <1>1, JobFirst DEF Control, PhaseFits
  <1>3. \A p \in Paths : job # OnPath(p) /\ job # BeforePath(p)
    BY <1>1, JobOps DEF Paths
  <1> QED BY <1>1, <1>2, <1>3, JobAdvances

LEMMA CopyRowsFailsControl ==
  ASSUME TypeOK, Control, CopyRowsFails
  PROVE  Control'
  <1>1. /\ job # << >> /\ job[1].op = "copyRows" /\ Fail(0)
        /\ UNCHANGED <<phase, pos, source, done, rowGroups>>
    BY DEF CopyRowsFails, Running
  <1>2. job = OnPath("copyRows") /\ phase = "start"
    BY <1>1, JobFirst DEF Control, PhaseFits
  <1>3. source = << >>
    BY <1>2, NoSource
  <1>4. CurrentCallEnds /\ job' = << >>
    BY <1>1 DEF Fail, CurrentCallEnds, Groups, TypeOK
  <1> QED BY <1>1, <1>2, <1>3, <1>4, CallEnds

\* The steps of Close.
LEMMA CloseColumnControl ==
  ASSUME TypeOK, Control, CloseColumn
  PROVE  Control'
  <1>1. /\ job # << >> /\ job[1].op = "closeColumns" /\ CallsSame
        /\ UNCHANGED <<phase, source, done, status, rowGroups>>
        /\ IF pos < NumColumns THEN pos' = pos + 1 /\ UNCHANGED job ELSE pos' = 1 /\ job' = Tail(job)
    BY DEF CloseColumn, Running, CallsSame, callVars, outVars
  <1>2. phase = "start" /\ Len(rowGroups) <= MaxRowGroups
    BY <1>1 DEF Control, PhaseFits, RoomFits
  <1>3. \A p \in Paths \cup {"copyRows"} : job # OnPath(p) /\ job # BeforePath(p)
    BY <1>1, JobOps DEF Paths
  <1>4. CASE pos < NumColumns
    BY <1>1, <1>2, <1>4, JobGoesOn
  <1>5. CASE ~(pos < NumColumns)
    BY <1>1, <1>2, <1>3, <1>5, JobAdvances
  <1> QED BY <1>4, <1>5

LEMMA CloseHeaderControl ==
  ASSUME TypeOK, Control, CloseHeader
  PROVE  Control'
  <1>1. /\ job # << >> /\ job[1].op = "header" /\ CallsSame /\ job' = Tail(job)
        /\ UNCHANGED <<phase, source, done, status, rowGroups>>
    BY DEF CloseHeader, Running, CallsSame, callVars
  <1>2. phase = "start"
    BY <1>1 DEF Control, PhaseFits
  <1>3. \A p \in Paths \cup {"copyRows"} : job # OnPath(p) /\ job # BeforePath(p)
    BY <1>1, JobOps DEF Paths
  <1> QED BY <1>1, <1>2, <1>3, JobAdvances

LEMMA DeferredControl ==
  ASSUME TypeOK, Control, WriteDeferredBloomFilter \/ DeferredBloomFiltersWritten
  PROVE  Control'
  <1>1. /\ job # << >> /\ job[1].op = "deferred" /\ CallsSame /\ UNCHANGED <<job, source, status>>
        /\ phase = "start" /\ phase' \in {"start", "put"}
    BY DEF WriteDeferredBloomFilter, DeferredBloomFiltersWritten, Running, CallsSame, callVars, outVars
  <1>2. Len(rowGroups') = Len(rowGroups)
    <2>1. CASE WriteDeferredBloomFilter
      BY <2>1 DEF WriteDeferredBloomFilter, TypeOK
    <2>2. CASE DeferredBloomFiltersWritten
      BY <2>2 DEF DeferredBloomFiltersWritten, outVars
    <2> QED BY <2>1, <2>2
  <1>3. Len(rowGroups') <= MaxRowGroups
    BY <1>2 DEF Control, RoomFits
  <1> QED BY <1>1, <1>3, JobGoesOn

LEMMA PutDeferredBufferControl ==
  ASSUME TypeOK, Control, PutDeferredBuffer
  PROVE  Control'
  <1>1. /\ job # << >> /\ phase = "put" /\ CallsSame
        /\ UNCHANGED <<job, phase, pos, source, done, status, rowGroups>>
    BY DEF PutDeferredBuffer, CallsSame, callVars, mainVars
  <1>2. job[1].op \in {"reset", "deferred"}
    BY <1>1 DEF Control, PhaseFits
  <1>3. Len(rowGroups') <= MaxRowGroups
    BY <1>1 DEF Control, RoomFits
  <1> QED BY <1>1, <1>2, <1>3, JobGoesOn

LEMMA DeferredBuffersReturnedControl ==
  ASSUME TypeOK, Control, DeferredBuffersReturned
  PROVE  Control'
  <1>1. /\ job # << >> /\ phase = "put" /\ CallsSame /\ UNCHANGED <<pos, source, done>>
        /\ IF job[1].op = "reset"
             THEN phase' = "reset" /\ rowGroups' = << >> /\ UNCHANGED job
             ELSE phase' = "start" /\ job' = Tail(job) /\ UNCHANGED <<status, rowGroups>>
    BY DEF DeferredBuffersReturned, CallsSame, callVars
  <1>2. job[1].op \in {"reset", "deferred"}
    BY <1>1 DEF Control, PhaseFits
  <1>3. CASE job[1].op = "reset"
    BY <1>1, <1>3, WriterAssumption, JobGoesOn
  <1>4. CASE job[1].op = "deferred"
    BY <1>1, <1>4, JobOps, JobAdvances DEF Paths
  <1> QED BY <1>2, <1>3, <1>4

\* The steps that end a call of the main thread.
LEMMA CallEndControl ==
  ASSUME TypeOK, Control,
         \/ WriteRowGroupSourceFails \/ ReencodeBatchFails \/ CloseColumnFails \/ WriteFooter
         \/ CloseFails /\ job[1].op # "deferred"
  PROVE  Control'
  <1>1. /\ job # << >> /\ job[1].op \in {"copyable", "columnar", "closeColumns", "footer", "header"}
        /\ job' = << >> /\ UNCHANGED <<pc, todo, chunk, phase, rowGroups>>
        /\ source' = << >> \/ (source' = source /\ job[1].op \in {"closeColumns", "footer", "header"})
    <2> USE DEF Running, callVars
    <2>1. CASE WriteRowGroupSourceFails
      BY <2>1 DEF WriteRowGroupSourceFails
    <2>2. CASE CloseColumnFails
      BY <2>2 DEF CloseColumnFails
    <2>3. CASE WriteFooter
      BY <2>3 DEF WriteFooter
    <2>4. CASE CloseFails /\ job[1].op # "deferred"
      BY <2>4 DEF CloseFails
    <2>5. CASE ReencodeBatchFails
      BY <2>5 DEF ReencodeBatchFails
    <2> QED BY <2>1, <2>2, <2>3, <2>4, <2>5
  <1>2. phase = "start"
    BY <1>1 DEF Control, PhaseFits
  <1>3. source' = << >>
    <2>1. CASE job[1].op \in {"closeColumns", "footer", "header"}
      <3>1. job \in {CloseJob, CloseJob2, CloseJob5}
        BY <1>1, <2>1, JobFirst DEF Control
      <3>2. source = << >>
        BY <3>1, NoSource
      <3> QED BY <1>1, <3>2
    <2> QED BY <1>1, <2>1
  <1>4. CurrentCallEnds
    BY <1>1, CurrentCallAborts
  <1> QED BY <1>1, <1>2, <1>3, <1>4, CallEnds

LEMMA CloseDeferredFailsControl ==
  ASSUME TypeOK, Control, CloseFails, job[1].op = "deferred"
  PROVE  Control'
  <1>1. /\ job # << >> /\ phase = "start" /\ job' = DeferredJob /\ phase' = "put" /\ status' = "failed"
        /\ UNCHANGED <<pc, todo, chunk, generic, resolved, pos, source, done, rowGroups>>
    BY DEF CloseFails, Running, callVars, DeferredJob
  <1>2. job = CloseJob4 \/ job = DeferredJob
    BY <1>1, JobFirst DEF Control
  <1>3. source = << >>
    BY <1>2, NoSource
  <1>4. /\ job' # << >> /\ job'[1].op = "deferred" /\ job' # CloseJob4 /\ job' # ResetJob
        /\ \A p \in Paths : job' # BeforePath(p) /\ job' # OnPath(p)
        /\ \A g : job' # RowGroupJob(g) /\ job' # CommitJob(g)
    <2>1. DeferredJob # << >> /\ Len(DeferredJob) = 1 /\ Len(CloseJob4) = 2
      BY JobTails, Zenon
    <2>2. DeferredJob[1].op = "deferred" /\ ResetJob[1].op = "reset"
      BY JobOps
    <2>3. \A p \in Paths : DeferredJob # BeforePath(p) /\ DeferredJob # OnPath(p)
      BY JobsDiffer, Zenon
    <2>4. \A g : DeferredJob # RowGroupJob(g) /\ DeferredJob # CommitJob(g)
      BY JobsDiffer, Zenon
    <2>5. 1 # 2
      OBVIOUS
    <2>6. DeferredJob # CloseJob4
      BY <2>1, <2>5, Zenon
    <2>7. DeferredJob # ResetJob
      BY <2>2
    <2> QED BY <1>1, <2>1, <2>2, <2>3, <2>4, <2>6, <2>7, Zenon
  <1>5. pc[0] = "idle" /\ chunk[0] = << >>
    BY <1>1, JobOps, NoChunk0 DEF Control, CallFits
  <1>6. JobShape'
    BY <1>1 DEF JobShape
  <1>7. PhaseFits' /\ StatusFits'
    BY <1>1, <1>4 DEF PhaseFits, StatusFits
  <1>8. SourceFits'
    BY <1>1, <1>3, <1>4 DEF SourceFits, PathLeft, Paths
  <1>9. CallFits'
    BY <1>1, <1>4, <1>5 DEF Control, CallFits
  <1>10. RoomFits'
    BY <1>1 DEF Control, RoomFits
  <1> QED BY <1>6, <1>7, <1>8, <1>9, <1>10 DEF Control

-----------------------------------------------------------------------------
LEMMA ControlInit ==
  ASSUME Init
  PROVE  Control
  <1>1. \A p : BeforePath(p) # << >> /\ OnPath(p) # << >>
    BY JobTails, Zenon
  <1>2. \A g : RowGroupJob(g) # << >> /\ CommitJob(g) # << >>
    BY JobTails, Zenon
  <1>3. CloseJob4 # << >> /\ ResetJob # << >>
    BY JobTails, Zenon
  <1>4. JobShape /\ PhaseFits
    BY <1>3 DEF Init, JobShape, PhaseFits
  <1>5. StatusFits /\ SourceFits
    BY <1>1, <1>3 DEF Init, StatusFits, SourceFits, PathLeft
  <1>6. CallFits
    BY <1>2 DEF Init, CallFits, Groups
  <1>7. RoomFits
    BY WriterAssumption DEF Init, RoomFits
  <1> QED BY <1>4, <1>5, <1>6, <1>7 DEF Control

LEMMA ControlStep ==
  ASSUME TypeOK, Control, [Next]_vars
  PROVE  Control'
  <1>1. CASE UNCHANGED allButPool
    <2>1. UNCHANGED <<pc, todo, chunk, generic, resolved, job, phase, pos, source, done, status, rowGroups>>
      BY <1>1 DEF allButPool, callVars, mainVars, outVars
    <2>2. MainControl'
      BY <2>1, MainControlSame DEF Control, MainControl
    <2>3. CallFits'
      BY <2>1 DEF Control, CallFits
    <2> QED BY <2>2, <2>3 DEF Control, MainControl
  <1>2. CASE ApplicationCall
    <2>1. CASE \E g \in Groups, n \in 1 .. MaxCall :
                 \E kind \in CallKinds \cap {"Write", "WriteRows"} : WriteRows(g, n, kind)
      BY <2>1, WriteRowsControl
    <2>2. CASE \E n \in 1 .. MaxCall :
                 \E kind \in CallKinds \cap {"copyable", "columnar", "opaque"} : WriteRowGroup(n, kind)
      BY <2>2, WriteRowGroupControl
    <2>3. CASE \E g \in Groups : FlushGroup(g)
      BY <2>3, FlushGroupCallControl
    <2>4. CASE \E g \in Groups : Commit(g)
      <3>1. PICK g \in Groups : Commit(g)
        BY <2>4
      <3>2. g # 0 /\ pc[g] = "idle" /\ Call(CommitJob(g))
        BY <3>1 DEF Commit, CommitJob
      <3> QED BY <3>2, CallControl
    <2>5. CASE Flush
      BY <2>5, CallControl DEF Flush, RowGroupJob
    <2>6. CASE Close
      BY <2>6, CallControl DEF Close, CloseJob
    <2>7. CASE Reset
      BY <2>7, ResetControl
    <2> QED BY <1>2, <2>1, <2>2, <2>3, <2>4, <2>5, <2>6, <2>7 DEF ApplicationCall
  <1>3. CASE MainStep
    <2>1. CASE \/ StartRowGroup \/ FlushRowGroupColumn \/ FlushRowGroupColumnFails \/ WriteHeader
               \/ WriteColumnPages \/ NoBloomFilter \/ DeferBloomFilter \/ WriteBloomFilter
               \/ WriteRowGroupFails \/ FlushFilterPagesFails
      BY <2>1, RowGroupStepControl
    <2>2. CASE SkipEmptyRowGroup \/ TooManyRowGroups \/ AppendRowGroup \/ ResetRowGroupColumn
      BY <2>2, SkipEmptyRowGroupControl, TooManyRowGroupsControl, AppendRowGroupControl,
         ResetRowGroupColumnControl
    <2>3. CASE CloseColumn \/ CloseHeader \/ WriteDeferredBloomFilter \/ DeferredBloomFiltersWritten
               \/ PutDeferredBuffer \/ DeferredBuffersReturned
      BY <2>3, CloseColumnControl, CloseHeaderControl, DeferredControl, PutDeferredBufferControl,
         DeferredBuffersReturnedControl
    <2>4. CASE \/ WriteRowGroupSourceFails \/ ReencodeBatchFails \/ CloseColumnFails
               \/ WriteFooter \/ CloseFails
      BY <2>4, CallEndControl, CloseDeferredFailsControl
    <2>5. CASE LoadCopiedChunk \/ StartCopyRows \/ RowsCopied \/ CopyRowsFails \/ ReencodeBatch
      BY <2>5, LoadCopiedChunkControl, StartCopyRowsControl, RowsCopiedControl,
         CopyRowsFailsControl, ReencodeBatchControl
    <2> QED BY <1>3, <2>1, <2>2, <2>3, <2>4, <2>5 DEF MainStep
  <1>4. CASE \E g \in Groups : GroupStep(g)
    BY <1>4, NextChunkControl, GroupFullControl, WriteColumnControl, WriteColumnFailsControl,
       FlushGroupControl DEF GroupStep
  <1> QED BY <1>1, <1>2, <1>3, <1>4, NextCases

\* In every behaviour of the writer, whatever its configuration, the calls keep
\* to the control flow of the code: the job of the main thread is one of a few,
\* the row group of a job is not written by a goroutine meanwhile, a row group
\* is only written while there is room for it in the metadata, and the writer
\* is only used while it is open.
THEOREM ControlCorrect == Spec => []Control
  <1>1. Init => TypeOK /\ Control
    BY TypeInit, ControlInit
  <1>2. TypeOK /\ Control /\ [Next]_vars => (TypeOK /\ Control)'
    BY TypeStep, ControlStep
  <1> QED BY <1>1, <1>2, PTL DEF Spec

-----------------------------------------------------------------------------
(* The page buffer pool is safe: a buffer never has two owners, whatever    *)
(* interleaves and whatever fails.                                          *)

\* Every buffer in use or in the pool was allocated before: the allocator
\* cannot hand out one of them a second time.
PoolBounded ==
  /\ \A i \in 1 .. Len(free) : free[i] < fresh
  /\ \A g \in Groups, k \in Holders : HeldBuffer(g, k) < fresh
  /\ \A j \in 1 .. Len(deferred) : deferred[j].buffer < fresh

\* PoolSafe is inductive together with the types and PoolBounded.
PoolInv == PoolSafe /\ PoolBounded

SameBuffers == \A g \in Groups, k \in Holders : HeldBuffer(g, k)' = HeldBuffer(g, k)

OtherBuffersSame(g0, k0) ==
  \A g \in Groups, k \in Holders :
    (g # g0 \/ k # k0) => HeldBuffer(g, k)' = HeldBuffer(g, k)

\* The holders are the columns and, as 0, what has just been taken.
LEMMA HolderIs ==
  /\ 0 \in Holders /\ 0 \notin Columns
  /\ \A k \in Columns : k \in Holders
  /\ \A k \in Holders : k = 0 \/ k \in Columns
  BY ColumnAssumption DEF Holders, Columns

LEMMA HeldBufferIs ==
  /\ \A g : HeldBuffer(g, 0) = taken[g] /\ HeldBuffer(g, 0)' = taken'[g]
  /\ \A g : \A k \in Columns : /\ HeldBuffer(g, k) = cw[g][k].pageBuffer
                               /\ HeldBuffer(g, k)' = cw'[g][k].pageBuffer
  BY HolderIs DEF HeldBuffer

LEMMA HeldBufferType ==
  ASSUME TypeOK
  PROVE  \A g \in Groups, k \in Holders : HeldBuffer(g, k) \in Nat
  <1>1. \A g \in Groups : taken[g] \in Nat
    BY DEF TypeOK
  <1>2. \A g \in Groups, k \in Columns : cw[g][k].pageBuffer \in Nat
    BY ColumnsType DEF ColumnWriterState
  <1> QED BY <1>1, <1>2, HolderIs, HeldBufferIs

\* The buffers of the initial state.
LEMMA PoolInit == Init => PoolInv
  <1> SUFFICES ASSUME Init PROVE PoolInv
    OBVIOUS
  <1>1. free = << >> /\ deferred = << >> /\ fresh = 1
    BY DEF Init
  <1>2. \A g \in Groups, k \in Columns : cw[g][k].pageBuffer = 0
    BY ResetColumnType DEF Init
  <1>3. \A g \in Groups : taken[g] = 0
    BY DEF Init
  <1>4. \A g \in Groups, k \in Holders : HeldBuffer(g, k) = 0
    BY <1>2, <1>3, HolderIs, HeldBufferIs
  <1> QED BY <1>1, <1>4 DEF PoolInv, PoolSafe, PoolBounded

-----------------------------------------------------------------------------
(* The ways a step may use the pool. *)

\* It does not.
LEMMA PoolUnused ==
  ASSUME PoolInv, SameBuffers, UNCHANGED <<free, fresh, deferred>>
  PROVE  PoolInv'
  BY DEF PoolInv, PoolSafe, PoolBounded, SameBuffers

\* A deferred filter has a buffer.
LEMMA DeferredType ==
  ASSUME TypeOK
  PROVE  /\ Len(deferred) \in Nat
         /\ \A j \in 1 .. Len(deferred) : deferred[j].buffer \in Nat \ {0}
  <1>1. deferred \in Seq(DeferredFilter)
    BY DEF TypeOK
  <1>2. \A j \in 1 .. Len(deferred) : deferred[j] \in DeferredFilter
    BY <1>1
  <1> QED BY <1>1, <1>2 DEF DeferredFilter

\* The buffer the pool hands out has no owner, and leaves the pool.
LEMMA TakenBuffer ==
  ASSUME TypeOK, PoolInv, TakeBuffer
  PROVE  /\ PoolGet \in Nat \ {0} /\ PoolGet < fresh' /\ fresh <= fresh' /\ fresh' \in Nat
         /\ Len(free') \in Nat /\ Len(free') <= Len(free)
         /\ \A i \in 1 .. Len(free') : free'[i] = free[i] /\ free[i] # PoolGet
         /\ \A g \in Groups, k \in Holders : HeldBuffer(g, k) # PoolGet
         /\ \A j \in 1 .. Len(deferred) : deferred[j].buffer # PoolGet
  <1>1. free \in Seq(Nat \ {0}) /\ fresh \in Nat \ {0}
    BY DEF TypeOK
  <1>2. \A g \in Groups, k \in Holders : HeldBuffer(g, k) \in Nat
    BY HeldBufferType
  <1>3. CASE free = << >>
    <2>1. PoolGet = fresh /\ fresh' = fresh + 1 /\ free' = << >>
      BY <1>3 DEF PoolGet, TakeBuffer
    <2>2. /\ PoolGet \in Nat \ {0} /\ PoolGet < fresh' /\ fresh <= fresh' /\ fresh' \in Nat
          /\ Len(free') = 0 /\ Len(free) = 0
      BY <1>1, <1>3, <2>1
    <2>3. \A g \in Groups, k \in Holders : HeldBuffer(g, k) # PoolGet
      BY <1>1, <1>2, <2>1 DEF PoolInv, PoolBounded
    <2>4. \A j \in 1 .. Len(deferred) : deferred[j].buffer # PoolGet
      BY <1>1, <2>1, DeferredType DEF PoolInv, PoolBounded
    <2> QED BY <2>2, <2>3, <2>4
  <1>4. CASE free # << >>
    <2>1. /\ PoolGet = free[Len(free)] /\ fresh' = fresh
          /\ free' = SubSeq(free, 1, Len(free) - 1)
      BY <1>4 DEF PoolGet, TakeBuffer
    <2>2. Len(free) \in Nat \ {0}
      BY <1>1, <1>4
    <2>3. /\ Len(free') = Len(free) - 1
          /\ \A i \in 1 .. Len(free') : free'[i] = free[i]
      <3> DEFINE n == Len(free) - 1
      <3>1. n \in Nat /\ n <= Len(free)
        BY <2>2
      <3>2. Len(SubSeq(free, 1, n)) = n /\ \A i \in 1 .. n : SubSeq(free, 1, n)[i] = free[i]
        <4> HIDE DEF n
        <4> QED BY <1>1, <3>1
      <3> QED BY <2>1, <3>2
    <2>4. PoolGet \in Nat \ {0} /\ PoolGet < fresh
      BY <1>1, <2>1, <2>2 DEF PoolInv, PoolBounded
    <2>5. \A i \in 1 .. Len(free') : free[i] # PoolGet
      BY <2>1, <2>2, <2>3 DEF PoolInv, PoolSafe
    <2>6. /\ \A g \in Groups, k \in Holders : HeldBuffer(g, k) # PoolGet
          /\ \A j \in 1 .. Len(deferred) : deferred[j].buffer # PoolGet
      BY <2>1, <2>2 DEF PoolInv, PoolSafe
    <2> QED BY <1>1, <2>1, <2>2, <2>3, <2>4, <2>5, <2>6
  <1> QED BY <1>3, <1>4

\* A call takes a buffer.
LEMMA CallTakes ==
  ASSUME TypeOK, PoolInv, NEW g0 \in Groups, AcquireBuffer(g0)
  PROVE  PoolInv'
  <1> DEFINE held(g, k) == HeldBuffer(g, k)
             held1(g, k) == IF g = g0 /\ k = 0 THEN PoolGet ELSE held(g, k)
  <1>0. /\ TakeBuffer /\ taken' = [taken EXCEPT ![g0] = PoolGet] /\ UNCHANGED <<cw, deferred>>
    BY DEF AcquireBuffer, rgVars, outVars
  <1>1. \A g \in Groups, k \in Holders : held(g, k) \in Nat /\ HeldBuffer(g, k)' = held1(g, k)
    <2>1. taken \in [Groups -> Nat]
      BY DEF TypeOK
    <2> TAKE g \in Groups, k \in Holders
    <2>2. held(g, k) \in Nat
      BY HeldBufferType
    <2>3. CASE k = 0
      BY <1>0, <2>1, <2>2, <2>3, HeldBufferIs
    <2>4. CASE k # 0
      BY <1>0, <2>2, <2>4, HolderIs, HeldBufferIs
    <2> QED BY <2>2, <2>3, <2>4
  <1>2. \A j \in 1 .. Len(deferred) : deferred[j].buffer \in Nat \ {0}
    BY DeferredType
  <1>3. Len(free) \in Nat /\ fresh \in Nat /\ \A i \in 1 .. Len(free) : free[i] \in Nat \ {0}
    BY DEF TypeOK
  <1>4. /\ PoolGet \in Nat \ {0} /\ PoolGet < fresh' /\ fresh <= fresh' /\ fresh' \in Nat
        /\ Len(free') \in Nat /\ Len(free') <= Len(free)
        /\ \A i \in 1 .. Len(free') : free'[i] = free[i] /\ free[i] # PoolGet
        /\ \A g \in Groups, k \in Holders : held(g, k) # PoolGet
        /\ \A j \in 1 .. Len(deferred) : deferred[j].buffer # PoolGet
    BY <1>0, TakenBuffer
  <1>5. PoolBounded'
    <2>1. \A i \in 1 .. Len(free') : free'[i] < fresh'
      BY <1>3, <1>4 DEF PoolInv, PoolBounded
    <2>2. \A g \in Groups, k \in Holders : held1(g, k) < fresh'
      BY <1>1, <1>3, <1>4 DEF PoolInv, PoolBounded
    <2>3. \A j \in 1 .. Len(deferred) : deferred[j].buffer < fresh'
      BY <1>2, <1>3, <1>4 DEF PoolInv, PoolBounded
    <2> HIDE DEF held1
    <2> QED BY <1>0, <1>1, <2>1, <2>2, <2>3 DEF PoolBounded
  <1>6. PoolSafe'
    <2>1. \A i, j \in 1 .. Len(free') : free'[i] = free'[j] => i = j
      BY <1>3, <1>4 DEF PoolInv, PoolSafe
    <2>2. \A g, h \in Groups : \A k, m \in Holders :
            (held1(g, k) # 0 /\ held1(g, k) = held1(h, m)) => (g = h /\ k = m)
      BY <1>1, <1>4 DEF PoolInv, PoolSafe
    <2>3. \A i \in 1 .. Len(free') :
            /\ \A g \in Groups, k \in Holders : free'[i] # held1(g, k)
            /\ \A j \in 1 .. Len(deferred) : free'[i] # deferred[j].buffer
      BY <1>3, <1>4 DEF PoolInv, PoolSafe
    <2>4. \A j \in 1 .. Len(deferred) :
            \A g \in Groups, k \in Holders : deferred[j].buffer # held1(g, k)
      BY <1>4 DEF PoolInv, PoolSafe
    <2>5. \A i, j \in 1 .. Len(deferred) : deferred[i].buffer = deferred[j].buffer => i = j
      BY DEF PoolInv, PoolSafe
    <2> HIDE DEF held1
    <2> QED BY <1>0, <1>1, <2>1, <2>2, <2>3, <2>4, <2>5 DEF PoolSafe
  <1> QED BY <1>5, <1>6 DEF PoolInv

\* What a call has taken becomes the page buffer of a column, or nobody's.
LEMMA ColumnTakes ==
  ASSUME TypeOK, PoolInv, NEW g0 \in Groups, NEW k0 \in Columns, KeepTaken(g0),
         cw'[g0][k0].pageBuffer \in {cw[g0][k0].pageBuffer, taken[g0]},
         \A g \in Groups, k \in Columns :
           (g # g0 \/ k # k0) => cw'[g][k].pageBuffer = cw[g][k].pageBuffer,
         UNCHANGED deferred
  PROVE  PoolInv'
  <1> DEFINE held(g, k) == HeldBuffer(g, k)
             to == IF cw'[g0][k0].pageBuffer = cw[g0][k0].pageBuffer THEN k0 ELSE 0
             \* Where a holder has its buffer from, if it has one.
             from(g, k) == IF g = g0 /\ k = k0 THEN to ELSE k
  <1>1. /\ taken' = [taken EXCEPT ![g0] = 0] /\ UNCHANGED <<free, fresh>>
    BY DEF KeepTaken
  <1>2. \A g \in Groups, k \in Holders :
          HeldBuffer(g, k)' = IF g = g0 /\ k = 0 THEN 0 ELSE held(g, from(g, k))
    <2> TAKE g \in Groups, k \in Holders
    <2>1. CASE k = 0
      BY <1>1, <2>1, HolderIs, HeldBufferIs DEF TypeOK
    <2>2. CASE k # 0 /\ (g # g0 \/ k # k0)
      BY <2>2, HolderIs, HeldBufferIs
    <2>3. CASE g = g0 /\ k = k0
      BY <2>3, HolderIs, HeldBufferIs
    <2> QED BY <2>1, <2>2, <2>3
  <1>3. /\ \A g \in Groups, k \in Holders : from(g, k) \in Holders
        /\ \A g \in Groups : \A k, m \in Holders :
             (from(g, k) = from(g, m) /\ ~(g = g0 /\ k = 0) /\ ~(g = g0 /\ m = 0)) => k = m
    BY HolderIs
  <1>4. Len(deferred) \in Nat /\ \A j \in 1 .. Len(deferred) : deferred[j].buffer \in Nat \ {0}
    BY DeferredType
  <1>5. Len(free) \in Nat /\ fresh \in Nat \ {0} /\ \A i \in 1 .. Len(free) : free[i] \in Nat \ {0}
    BY DEF TypeOK
  <1> HIDE DEF from, to
  <1>6. PoolBounded'
    BY <1>1, <1>2, <1>3, <1>5 DEF PoolInv, PoolBounded
  <1>7. PoolSafe'
    <2>1. \A g, h \in Groups : \A k, m \in Holders :
            (HeldBuffer(g, k)' # 0 /\ HeldBuffer(g, k)' = HeldBuffer(h, m)') => (g = h /\ k = m)
      BY <1>2, <1>3 DEF PoolInv, PoolSafe
    <2>2. \A i \in 1 .. Len(free) : \A g \in Groups, k \in Holders : free[i] # HeldBuffer(g, k)'
      BY <1>2, <1>3, <1>5 DEF PoolInv, PoolSafe
    <2>3. \A j \in 1 .. Len(deferred) :
            \A g \in Groups, k \in Holders : deferred[j].buffer # HeldBuffer(g, k)'
      BY <1>2, <1>3, <1>4 DEF PoolInv, PoolSafe
    <2> QED BY <1>1, <2>1, <2>2, <2>3 DEF PoolInv, PoolSafe
  <1> QED BY <1>6, <1>7 DEF PoolInv

\* A buffer appended to the pool.
LEMMA ReturnedBuffer ==
  ASSUME TypeOK, NEW id \in Nat \ {0}, PutBuffer(id)
  PROVE  /\ fresh' = fresh /\ fresh \in Nat
         /\ Len(free) \in Nat /\ Len(free') = Len(free) + 1
         /\ \A i \in 1 .. Len(free) : free'[i] = free[i] /\ free[i] \in Nat \ {0}
         /\ free'[Len(free) + 1] = id
  BY DEF TypeOK, PutBuffer

\* A column returns its page buffer, or a call what it has taken.
LEMMA HolderReturns ==
  ASSUME TypeOK, PoolInv, NEW g0 \in Groups, NEW k0 \in Holders,
         PutBufferIfAny(HeldBuffer(g0, k0)), HeldBuffer(g0, k0)' = 0,
         OtherBuffersSame(g0, k0), UNCHANGED deferred
  PROVE  PoolInv'
  <1> DEFINE id == HeldBuffer(g0, k0)
             held(g, k) == HeldBuffer(g, k)
             held1(g, k) == IF g = g0 /\ k = k0 THEN 0 ELSE held(g, k)
  <1>1. \A g \in Groups, k \in Holders : held(g, k) \in Nat /\ HeldBuffer(g, k)' = held1(g, k)
    BY HeldBufferType DEF OtherBuffersSame
  <1>2. Len(deferred) \in Nat /\ \A j \in 1 .. Len(deferred) : deferred[j].buffer \in Nat \ {0}
    BY DeferredType
  <1>3. CASE id = 0
    BY <1>1, <1>3, PoolUnused DEF PutBufferIfAny, SameBuffers
  <1>4. CASE id # 0
    <2>1. id \in Nat \ {0} /\ PutBuffer(id)
      BY <1>1, <1>4 DEF PutBufferIfAny
    <2>2. /\ fresh' = fresh /\ fresh \in Nat
          /\ Len(free) \in Nat /\ Len(free') = Len(free) + 1
          /\ \A i \in 1 .. Len(free) : free'[i] = free[i] /\ free[i] \in Nat \ {0}
          /\ free'[Len(free) + 1] = id
      <3> HIDE DEF id
      <3> QED BY <2>1, ReturnedBuffer
    <2>3. PoolBounded'
      <3>1. \A i \in 1 .. Len(free') : free'[i] < fresh'
        BY <2>2 DEF PoolInv, PoolBounded
      <3>2. \A g \in Groups, k \in Holders : held1(g, k) < fresh'
        BY <1>1, <2>1, <2>2 DEF PoolInv, PoolBounded
      <3>3. \A j \in 1 .. Len(deferred) : deferred[j].buffer < fresh'
        BY <2>2 DEF PoolInv, PoolBounded
      <3> HIDE DEF held1
      <3> QED BY <1>1, <3>1, <3>2, <3>3 DEF PoolBounded
    <2>4. PoolSafe'
      <3>1. \A i, j \in 1 .. Len(free') : free'[i] = free'[j] => i = j
        BY <2>2 DEF PoolInv, PoolSafe
      <3>2. \A g, h \in Groups : \A k, m \in Holders :
              (held1(g, k) # 0 /\ held1(g, k) = held1(h, m)) => (g = h /\ k = m)
        BY DEF PoolInv, PoolSafe
      <3>3. \A i \in 1 .. Len(free') :
              /\ \A g \in Groups, k \in Holders : free'[i] # held1(g, k)
              /\ \A j \in 1 .. Len(deferred) : free'[i] # deferred[j].buffer
        BY <1>4, <2>2 DEF PoolInv, PoolSafe
      <3>4. \A j \in 1 .. Len(deferred) :
              \A g \in Groups, k \in Holders : deferred[j].buffer # held1(g, k)
        BY <1>2 DEF PoolInv, PoolSafe
      <3>5. \A i, j \in 1 .. Len(deferred) : deferred[i].buffer = deferred[j].buffer => i = j
        BY DEF PoolInv, PoolSafe
      <3> HIDE DEF held1
      <3> QED BY <1>1, <3>1, <3>2, <3>3, <3>4, <3>5 DEF PoolSafe
    <2> QED BY <2>3, <2>4 DEF PoolInv
  <1> QED BY <1>3, <1>4

\* What a call has taken becomes the buffer of a deferred filter.
LEMMA DeferredKeeps ==
  ASSUME TypeOK, PoolInv, NEW g0 \in Groups, NEW d \in DeferredFilter, d.buffer = taken[g0],
         KeepTaken(g0), deferred' = Append(deferred, d), UNCHANGED cw
  PROVE  PoolInv'
  <1> DEFINE held(g, k) == HeldBuffer(g, k)
             id == taken[g0]
             n == Len(deferred)
  <1>1. taken' = [taken EXCEPT ![g0] = 0] /\ UNCHANGED <<free, fresh>>
    BY DEF KeepTaken
  <1>2. \A g \in Groups, k \in Holders :
          HeldBuffer(g, k)' = IF g = g0 /\ k = 0 THEN 0 ELSE held(g, k)
    <2>1. taken \in [Groups -> Nat]
      BY DEF TypeOK
    <2> TAKE g \in Groups, k \in Holders
    <2>2. CASE k = 0
      BY <1>1, <2>1, <2>2, HeldBufferIs
    <2>3. CASE k # 0
      BY <2>3, HolderIs, HeldBufferIs
    <2> QED BY <2>2, <2>3
  <1>3. n \in Nat /\ \A j \in 1 .. n : deferred[j].buffer \in Nat \ {0}
    BY DeferredType
  <1>4. /\ Len(deferred') = n + 1
        /\ \A j \in 1 .. n : deferred'[j].buffer = deferred[j].buffer
        /\ deferred'[n + 1].buffer = id
    BY DEF TypeOK
  <1>5. \A j \in 1 .. n + 1 : j \in 1 .. n \/ j = n + 1
    BY <1>3
  <1>6. id \in Nat \ {0} /\ id = held(g0, 0) /\ 0 \in Holders
    BY HolderIs, HeldBufferIs DEF DeferredFilter
  <1>7. Len(free) \in Nat /\ fresh \in Nat \ {0} /\ \A i \in 1 .. Len(free) : free[i] \in Nat \ {0}
    BY DEF TypeOK
  <1> HIDE DEF id, n
  <1>8. PoolBounded'
    <2>1. \A g \in Groups, k \in Holders : HeldBuffer(g, k)' < fresh'
      BY <1>1, <1>2, <1>7 DEF PoolInv, PoolBounded
    <2>2. \A j \in 1 .. n : deferred[j].buffer < fresh
      BY DEF PoolInv, PoolBounded, n
    <2>3. id < fresh
      BY <1>6 DEF PoolInv, PoolBounded
    <2>4. \A j \in 1 .. Len(deferred') : deferred'[j].buffer < fresh'
      BY <1>1, <1>4, <1>5, <2>2, <2>3
    <2> QED BY <1>1, <2>1, <2>4 DEF PoolInv, PoolBounded
  <1>9. PoolSafe'
    <2>1. \A g, h \in Groups : \A k, m \in Holders :
            (HeldBuffer(g, k)' # 0 /\ HeldBuffer(g, k)' = HeldBuffer(h, m)') => (g = h /\ k = m)
      BY <1>2 DEF PoolInv, PoolSafe
    <2>2. /\ \A j \in 1 .. n : deferred[j].buffer # id
          /\ \A i, j \in 1 .. n : deferred[i].buffer = deferred[j].buffer => i = j
      BY <1>6 DEF PoolInv, PoolSafe, n
    <2>3. \A i, j \in 1 .. Len(deferred') :
            deferred'[i].buffer = deferred'[j].buffer => i = j
      BY <1>4, <1>5, <2>2
    <2>4. \A i \in 1 .. Len(free) :
            /\ \A g \in Groups, k \in Holders : free[i] # HeldBuffer(g, k)'
            /\ \A j \in 1 .. Len(deferred') : free[i] # deferred'[j].buffer
      <3>1. \A i \in 1 .. Len(free) :
              /\ \A g \in Groups, k \in Holders : free[i] # held(g, k)
              /\ \A j \in 1 .. n : free[i] # deferred[j].buffer
        BY DEF PoolInv, PoolSafe, n
      <3>2. \A i \in 1 .. Len(free) : free[i] # id
        BY <1>6, <3>1
      <3> HIDE DEF held
      <3> QED BY <1>2, <1>4, <1>5, <1>7, <3>1, <3>2
    <2>5. \A j \in 1 .. Len(deferred') :
            \A g \in Groups, k \in Holders : deferred'[j].buffer # HeldBuffer(g, k)'
      <3>1. \A j \in 1 .. n : \A g \in Groups, k \in Holders : deferred[j].buffer # held(g, k)
        BY DEF PoolInv, PoolSafe, n
      <3>2. \A g \in Groups, k \in Holders : (g # g0 \/ k # 0) => held(g, k) # id
        BY <1>6 DEF PoolInv, PoolSafe
      <3> HIDE DEF held
      <3> QED BY <1>2, <1>3, <1>4, <1>5, <1>6, <3>1, <3>2
    <2> QED BY <1>1, <2>1, <2>3, <2>4, <2>5 DEF PoolInv, PoolSafe
  <1> QED BY <1>8, <1>9 DEF PoolInv

\* The buffer of the first deferred filter is returned.
LEMMA DeferredReturns ==
  ASSUME TypeOK, PoolInv, deferred # << >>, PutBuffer(deferred[1].buffer),
         deferred' = Tail(deferred), SameBuffers
  PROVE  PoolInv'
  <1> DEFINE held(g, k) == HeldBuffer(g, k)
             n == Len(deferred)
             id == deferred[1].buffer
  <1>1. \A g \in Groups, k \in Holders : held(g, k) \in Nat /\ HeldBuffer(g, k)' = held(g, k)
    BY HeldBufferType DEF SameBuffers
  <1>2. n \in Nat \ {0} /\ \A j \in 1 .. n : deferred[j].buffer \in Nat \ {0}
    BY DeferredType DEF TypeOK
  <1>3. Len(deferred') = n - 1 /\ \A j \in 1 .. n - 1 : deferred'[j] = deferred[j + 1]
    BY <1>2 DEF TypeOK
  <1>4. /\ fresh' = fresh /\ fresh \in Nat
        /\ Len(free) \in Nat /\ Len(free') = Len(free) + 1
        /\ \A i \in 1 .. Len(free) : free'[i] = free[i] /\ free[i] \in Nat \ {0}
        /\ free'[Len(free) + 1] = id
    <2>1. id \in Nat \ {0}
      BY <1>2
    <2> HIDE DEF id
    <2> QED BY <2>1, ReturnedBuffer DEF id
  <1>5. PoolBounded'
    <2>1. \A i \in 1 .. Len(free') : free'[i] < fresh'
      <3>1. id < fresh
        BY <1>2 DEF PoolInv, PoolBounded
      <3>2. \A i \in 1 .. Len(free) : free[i] < fresh
        BY DEF PoolInv, PoolBounded
      <3> HIDE DEF id
      <3> QED BY <1>4, <3>1, <3>2
    <2>2. \A g \in Groups, k \in Holders : held(g, k) < fresh'
      BY <1>1, <1>4 DEF PoolInv, PoolBounded
    <2>3. \A j \in 1 .. Len(deferred') : deferred'[j].buffer < fresh'
      BY <1>2, <1>3, <1>4 DEF PoolInv, PoolBounded
    <2> QED BY <1>1, <2>1, <2>2, <2>3 DEF PoolBounded
  <1>6. PoolSafe'
    <2>1. \A i, j \in 1 .. Len(free') : free'[i] = free'[j] => i = j
      <3>1. \A i, j \in 1 .. Len(free) : free[i] = free[j] => i = j
        BY DEF PoolInv, PoolSafe
      <3>2. \A i \in 1 .. Len(free) : free[i] # id
        BY <1>2 DEF PoolInv, PoolSafe
      <3> HIDE DEF id
      <3> QED BY <1>4, <3>1, <3>2
    <2>2. \A g, h \in Groups : \A k, m \in Holders :
            (held(g, k) # 0 /\ held(g, k) = held(h, m)) => (g = h /\ k = m)
      BY DEF PoolInv, PoolSafe
    <2>3. \A i \in 1 .. Len(free') :
            /\ \A g \in Groups, k \in Holders : free'[i] # held(g, k)
            /\ \A j \in 1 .. Len(deferred') : free'[i] # deferred'[j].buffer
      <3>1. \A i \in 1 .. Len(free) :
              /\ \A g \in Groups, k \in Holders : free[i] # held(g, k)
              /\ \A j \in 1 .. n : free[i] # deferred[j].buffer
        BY DEF PoolInv, PoolSafe
      <3>2. /\ \A g \in Groups, k \in Holders : id # held(g, k)
            /\ \A j \in 1 .. n - 1 : id # deferred[j + 1].buffer
        BY <1>2 DEF PoolInv, PoolSafe
      <3> HIDE DEF id, held
      <3> QED BY <1>2, <1>3, <1>4, <3>1, <3>2 DEF n
    <2>4. \A j \in 1 .. Len(deferred') :
            \A g \in Groups, k \in Holders : deferred'[j].buffer # held(g, k)
      BY <1>2, <1>3 DEF PoolInv, PoolSafe
    <2>5. \A i, j \in 1 .. Len(deferred') :
            deferred'[i].buffer = deferred'[j].buffer => i = j
      BY <1>2, <1>3 DEF PoolInv, PoolSafe
    <2> QED BY <1>1, <2>1, <2>2, <2>3, <2>4, <2>5 DEF PoolSafe
  <1> QED BY <1>5, <1>6 DEF PoolInv

-----------------------------------------------------------------------------
(* What each step does with the buffers. *)

\* A column writer replaced by another.
LEMMA SetColumnOther ==
  ASSUME TypeOK, NEW g \in Groups, NEW k \in Columns, NEW c \in ColumnWriterState,
         SetColumn(g, k, c)
  PROVE  /\ cw'[g][k].pageBuffer = c.pageBuffer
         /\ \A h \in Groups, m \in Columns :
              (h # g \/ m # k) => cw'[h][m].pageBuffer = cw[h][m].pageBuffer
  BY DEF SetColumn, TypeOK

\* The columns keep their buffers, and nothing has been taken or let go.
LEMMA SameBuffersIs ==
  ASSUME UNCHANGED taken,
         \A g \in Groups, k \in Columns : cw'[g][k].pageBuffer = cw[g][k].pageBuffer
  PROVE  SameBuffers
  BY HolderIs, HeldBufferIs DEF SameBuffers

\* The columns keep their buffers, and what was taken is returned.
LEMMA TakenReturns ==
  ASSUME TypeOK, PoolInv, NEW g0 \in Groups, ReturnTaken(g0),
         \A g \in Groups, k \in Columns : cw'[g][k].pageBuffer = cw[g][k].pageBuffer,
         UNCHANGED deferred
  PROVE  PoolInv'
  <1>1. taken' = [taken EXCEPT ![g0] = 0] /\ PutBufferIfAny(taken[g0])
    BY DEF ReturnTaken
  <1>2. HeldBuffer(g0, 0)' = 0 /\ PutBufferIfAny(HeldBuffer(g0, 0)) /\ 0 \in Holders
    <2>1. taken \in [Groups -> Nat]
      BY DEF TypeOK
    <2>2. HeldBuffer(g0, 0) = taken[g0] /\ HeldBuffer(g0, 0)' = taken'[g0]
      BY HeldBufferIs
    <2> QED BY <1>1, <2>1, <2>2, HolderIs
  <1>3. OtherBuffersSame(g0, 0)
    <2>1. taken \in [Groups -> Nat]
      BY DEF TypeOK
    <2>2. SUFFICES ASSUME NEW g \in Groups, NEW k \in Holders, g # g0 \/ k # 0
                   PROVE  HeldBuffer(g, k)' = HeldBuffer(g, k)
      BY DEF OtherBuffersSame
    <2>3. CASE k = 0
      BY <1>1, <2>1, <2>2, <2>3, HeldBufferIs
    <2>4. CASE k # 0
      BY <2>4, HolderIs, HeldBufferIs
    <2> QED BY <2>3, <2>4
  <1> QED BY <1>2, <1>3, HolderReturns

\* A column is flushed, or that fails.
LEMMA FlushKeeps ==
  ASSUME TypeOK, PoolInv, NEW g \in Groups, NEW k \in Columns, NEW c \in ColumnWriterState,
         SetColumn(g, k, c), c.pageBuffer \in {cw[g][k].pageBuffer, taken[g]},
         KeepTaken(g), UNCHANGED deferred
  PROVE  PoolInv'
  BY SetColumnOther, ColumnTakes

LEMMA FlushReturns ==
  ASSUME TypeOK, PoolInv, NEW g \in Groups, NEW k \in Columns, NEW c \in ColumnWriterState,
         SetColumn(g, k, c), c.pageBuffer = cw[g][k].pageBuffer,
         ReturnTaken(g), UNCHANGED deferred
  PROVE  PoolInv'
  BY SetColumnOther, TakenReturns

\* A column is reset.
LEMMA ColumnReturns ==
  ASSUME TypeOK, PoolInv, NEW g0 \in Groups, NEW k0 \in Columns, NEW c \in ColumnWriterState,
         SetColumn(g0, k0, c), c.pageBuffer = 0, PutBufferIfAny(cw[g0][k0].pageBuffer),
         UNCHANGED <<taken, deferred>>
  PROVE  PoolInv'
  <1>1. /\ cw'[g0][k0].pageBuffer = 0
        /\ \A g \in Groups, k \in Columns :
             (g # g0 \/ k # k0) => cw'[g][k].pageBuffer = cw[g][k].pageBuffer
    BY SetColumnOther
  <1>2. /\ PutBufferIfAny(HeldBuffer(g0, k0)) /\ HeldBuffer(g0, k0)' = 0 /\ k0 \in Holders
        /\ OtherBuffersSame(g0, k0)
    BY <1>1, HolderIs, HeldBufferIs DEF OtherBuffersSame
  <1> QED BY <1>2, HolderReturns

\* A column changes and keeps its page buffer.
LEMMA SetColumnSame ==
  ASSUME TypeOK, NEW g \in Groups, NEW k \in Columns, NEW c \in ColumnWriterState,
         SetColumn(g, k, c), c.pageBuffer = cw[g][k].pageBuffer, UNCHANGED taken
  PROVE  SameBuffers
  BY SetColumnOther, SameBuffersIs

\* All the column writers of a row group replaced by others with the same
\* page buffers.
LEMMA SetColumnsSame ==
  ASSUME TypeOK, NEW g \in Groups, NEW columns \in [Columns -> ColumnWriterState],
         cw' = [cw EXCEPT ![g] = columns], UNCHANGED taken,
         \A k \in Columns : columns[k].pageBuffer = cw[g][k].pageBuffer
  PROVE  SameBuffers
  <1>1. \A h \in Groups, k \in Columns : cw'[h][k].pageBuffer = cw[h][k].pageBuffer
    BY DEF TypeOK
  <1> QED BY <1>1, SameBuffersIs

\* The steps that change no column writer and do not use the pool.
LEMMA PoolOtherSteps ==
  ASSUME PoolInv, UNCHANGED <<cw, poolVars, deferred>>
  PROVE  PoolInv'
  BY SameBuffersIs, PoolUnused DEF poolVars

\* The calls of the application.
LEMMA PoolApplicationCall ==
  ASSUME TypeOK, PoolInv, ApplicationCall
  PROVE  PoolInv'
  BY PoolOtherSteps DEF ApplicationCall, WriteRows, WriteRowGroup, FlushGroup, Commit, Flush, Close,
    Reset, Call, rgVars, outVars

\* The steps of a call on a row group.
LEMMA PoolGroupStep ==
  ASSUME TypeOK, PoolInv, NEW g \in Groups, GroupStep(g)
  PROVE  PoolInv'
  <1> DEFINE k == col[g]
  <1>0. k \in Columns /\ cw[g][k] \in ColumnWriterState /\ taken[g] \in Nat
    BY PoolType DEF TypeOK
  <1>1. CASE NextChunk(g)
    <2> DEFINE length == ChunkLength(g)
               rows == SubSeq(todo[g], 1, length)
    <2>1. UNCHANGED <<free, fresh, taken, deferred>>
      BY <1>1 DEF NextChunk, poolVars, outVars
    <2>2. CASE Generic(g)
      <3>1. rows \in Seq(Row)
        <4>1. todo[g] \in Seq(Row) /\ numRows[g] \in Nat
          BY DEF TypeOK
        <4>2. length \in Nat /\ length <= Len(todo[g])
          BY <1>1, <4>1, WriterAssumption DEF NextChunk, Full, ChunkLength, Lesser
        <4> HIDE DEF length
        <4> QED BY <4>1, <4>2
      <3>2. cw' = [cw EXCEPT ![g] = WriteToAllColumns(cw[g], rows)]
        BY <1>1, <2>2 DEF NextChunk
      <3> HIDE DEF rows
      <3> QED BY <2>1, <3>1, <3>2, WriteToAllColumnsType, SetColumnsSame, PoolUnused
    <2>3. CASE ~Generic(g)
      BY <1>1, <2>1, <2>3, PoolOtherSteps DEF NextChunk, poolVars
    <2> QED BY <2>2, <2>3
  <1>2. CASE GroupFull(g)
    BY <1>2, PoolOtherSteps DEF GroupFull, rgVars, outVars
  <1>3. CASE WriteColumn(g)
    <2> DEFINE c == WithChunk(g, k)
               full == BufferBytes(c) >= BufferSize[k]
               d == IF full THEN FlushColumn(c, k, taken[g]) ELSE c
    <2>1. c \in ColumnWriterState /\ c.pageBuffer = cw[g][k].pageBuffer
      BY <1>0, WithChunkType
    <2>2. d \in ColumnWriterState /\ d.pageBuffer \in {cw[g][k].pageBuffer, taken[g]}
      <3>1. full \in BOOLEAN
        OBVIOUS
      <3> HIDE DEF c, full
      <3> QED BY <1>0, <2>1, <3>1, FillColumnType
    <2>3. SetColumn(g, k, d) /\ KeepTaken(g) /\ UNCHANGED deferred
      BY <1>3 DEF WriteColumn, outVars
    <2> HIDE DEF c, full, d
    <2> QED BY <1>0, <2>2, <2>3, FlushKeeps
  <1>4. CASE WriteColumnFails(g)
    <2> DEFINE d == FlushColumnFails(WithChunk(g, k), k, taken[g])
    <2>1. d \in ColumnWriterState /\ d.pageBuffer = cw[g][k].pageBuffer
      BY <1>0, WithChunkType, FlushColumnFailsType
    <2>2. SetColumn(g, k, d) /\ ReturnTaken(g) /\ UNCHANGED deferred
      BY <1>4 DEF WriteColumnFails
    <2> HIDE DEF d
    <2> QED BY <1>0, <2>1, <2>2, FlushReturns
  <1>5. CASE FlushGroupColumn(g)
    <2> DEFINE d == FlushColumn(cw[g][k], k, taken[g])
    <2>1. d \in ColumnWriterState /\ d.pageBuffer \in {cw[g][k].pageBuffer, taken[g]}
      BY <1>0, FlushColumnType
    <2>2. SetColumn(g, k, d) /\ KeepTaken(g) /\ UNCHANGED deferred
      BY <1>5 DEF FlushGroupColumn, outVars
    <2> HIDE DEF d
    <2> QED BY <1>0, <2>1, <2>2, FlushKeeps
  <1>6. CASE FlushGroupColumnFails(g)
    <2> DEFINE d == FlushColumnFails(cw[g][k], k, taken[g])
    <2>1. d \in ColumnWriterState /\ d.pageBuffer = cw[g][k].pageBuffer
      BY <1>0, FlushColumnFailsType
    <2>2. SetColumn(g, k, d) /\ ReturnTaken(g) /\ UNCHANGED deferred
      BY <1>6 DEF FlushGroupColumnFails
    <2> HIDE DEF d
    <2> QED BY <1>0, <2>1, <2>2, FlushReturns
  <1> QED BY <1>1, <1>2, <1>3, <1>4, <1>5, <1>6 DEF GroupStep

\* The steps of writeRowGroup.
LEMMA PoolRowGroupStep ==
  ASSUME TypeOK, PoolInv,
         \/ SkipEmptyRowGroup \/ TooManyRowGroups \/ StartRowGroup
         \/ FlushRowGroupColumn \/ FlushRowGroupColumnFails \/ FlushFilterPagesFails
         \/ WriteHeader \/ WriteColumnPages
         \/ NoBloomFilter \/ DeferBloomFilter \/ WriteBloomFilter \/ WriteRowGroupFails
         \/ AppendRowGroup \/ ResetRowGroupColumn
  PROVE  PoolInv'
  <1> DEFINE c == cw[Group][pos]
             flushed == FlushColumn(c, pos, taken[Group])
  <1>0. Group \in Groups /\ pos \in Columns
    BY JobType DEF SkipEmptyRowGroup, TooManyRowGroups, StartRowGroup, FlushRowGroupColumn,
         FlushRowGroupColumnFails, FlushFilterPagesFails, WriteHeader, WriteColumnPages,
         NoBloomFilter, DeferBloomFilter, WriteBloomFilter, WriteRowGroupFails, AppendRowGroup,
         ResetRowGroupColumn, InRowGroup, Running, TypeOK
  <1>1. c \in ColumnWriterState /\ taken[Group] \in Nat
    BY <1>0, ColumnsType, PoolType
  <1>2. /\ flushed \in ColumnWriterState
        /\ flushed.pageBuffer \in {c.pageBuffer, taken[Group]}
    BY <1>0, <1>1, FlushColumnType
  <1>3. CASE SkipEmptyRowGroup \/ TooManyRowGroups \/ StartRowGroup
    BY <1>3, PoolOtherSteps DEF SkipEmptyRowGroup, TooManyRowGroups, StartRowGroup,
         rgVars, outVars
  <1>4. CASE WriteHeader \/ WriteColumnPages \/ NoBloomFilter \/ WriteBloomFilter \/ AppendRowGroup
    BY <1>4, PoolOtherSteps DEF WriteHeader, WriteColumnPages, NoBloomFilter, WriteBloomFilter,
         AppendRowGroup, rgVars, outVars
  <1>5. CASE FlushRowGroupColumn
    <2> DEFINE d == IF c.copied THEN flushed ELSE flushFilterPages(flushed, pos)
    <2>1. d \in ColumnWriterState /\ d.pageBuffer = flushed.pageBuffer
      <3> HIDE DEF flushed
      <3> QED BY <1>0, <1>2, FilterType
    <2>2. SetColumn(Group, pos, d) /\ KeepTaken(Group) /\ UNCHANGED deferred
      BY <1>5 DEF FlushRowGroupColumn, outVars
    <2> HIDE DEF d, flushed
    <2> QED BY <1>0, <1>2, <2>1, <2>2, FlushKeeps
  <1>6. CASE FlushFilterPagesFails
    <2>1. SetColumn(Group, pos, flushed) /\ KeepTaken(Group) /\ UNCHANGED deferred
      BY <1>6 DEF FlushFilterPagesFails, outVars
    <2> HIDE DEF flushed
    <2> QED BY <1>0, <1>2, <2>1, FlushKeeps
  <1>7. CASE FlushRowGroupColumnFails
    <2> DEFINE d == FlushColumnFails(c, pos, taken[Group])
    <2>1. d \in ColumnWriterState /\ d.pageBuffer = c.pageBuffer
      BY <1>0, <1>1, FlushColumnFailsType
    <2>2. SetColumn(Group, pos, d) /\ ReturnTaken(Group) /\ UNCHANGED deferred
      BY <1>7 DEF FlushRowGroupColumnFails, outVars
    <2> HIDE DEF d
    <2> QED BY <1>0, <2>1, <2>2, FlushReturns
  <1>8. CASE DeferBloomFilter
    <2> DEFINE d == [group |-> RowGroupIndex, column |-> pos, values |-> c.filter.values,
                     buffer |-> taken[Group]]
    <2>1. d \in DeferredFilter /\ d.buffer = taken[Group]
      <3>1. RowGroupIndex \in Nat
        BY DEF RowGroupIndex, TypeOK
      <3>2. c.filter.values \in SUBSET Value
        BY <1>1 DEF ColumnWriterState, Filter
      <3>3. taken[Group] \in Nat \ {0}
        BY <1>1, <1>8 DEF DeferBloomFilter, BufferReady
      <3> QED BY <1>0, <3>1, <3>2, <3>3 DEF DeferredFilter
    <2>2. deferred' = Append(deferred, d) /\ KeepTaken(Group) /\ UNCHANGED cw
      BY <1>8 DEF DeferBloomFilter, rgVars
    <2> HIDE DEF d
    <2> QED BY <1>0, <2>1, <2>2, DeferredKeeps
  <1>9. CASE WriteRowGroupFails
    <2>1. ReturnTaken(Group) /\ UNCHANGED <<cw, deferred>>
      BY <1>9 DEF WriteRowGroupFails, rgVars, outVars
    <2> QED BY <1>0, <2>1, TakenReturns
  <1>10. CASE ResetRowGroupColumn
    <2> DEFINE d == resetColumn(c)
    <2>1. d \in ColumnWriterState /\ d.pageBuffer = 0
      BY <1>1, ResetColumnType
    <2>2. /\ SetColumn(Group, pos, d) /\ PutBufferIfAny(c.pageBuffer) /\ UNCHANGED taken
          /\ UNCHANGED deferred
      BY <1>10 DEF ResetRowGroupColumn
    <2> HIDE DEF d
    <2> QED BY <1>0, <2>1, <2>2, ColumnReturns
  <1> QED BY <1>3, <1>4, <1>5, <1>6, <1>7, <1>8, <1>9, <1>10

\* The column of a batch replaced by another.
LEMMA SetBatchColumnOther ==
  ASSUME TypeOK, NEW c \in ColumnWriterState, SetBatchColumn(c)
  PROVE  /\ cw'[0][pos].pageBuffer = c.pageBuffer
         /\ \A h \in Groups, m \in Columns :
              (h # 0 \/ m # pos) => cw'[h][m].pageBuffer = cw[h][m].pageBuffer
  <1>1. 0 \in Groups /\ pos \in Columns
    BY DEF TypeOK, Groups
  <1> QED BY <1>1, BatchColumnType DEF SetBatchColumn, TypeOK

\* The steps of WriteRowGroup that bring the rows in.
LEMMA PoolSourceStep ==
  ASSUME TypeOK, PoolInv,
         LoadCopiedChunk \/ StartCopyRows \/ RowsCopied \/ CopyRowsFails \/ ReencodeBatch
           \/ ReencodeBatchFails \/ WriteRowGroupSourceFails
  PROVE  PoolInv'
  <1>0. 0 \in Groups /\ pos \in Columns /\ source \in Seq(Row) /\ taken[0] \in Nat
    BY PoolType DEF Groups, TypeOK
  <1>1. CASE LoadCopiedChunk
    <2> DEFINE d == loadCopiedChunk(cw[0][pos], pos,
                                    SourceChunk(pos, source, SourcePage, SourceOffset))
    <2>1. d \in ColumnWriterState /\ d.pageBuffer = cw[0][pos].pageBuffer
      <3>1. SourceOffset \in Nat /\ SourcePage \in Nat \ {0} /\ cw[0][pos] \in ColumnWriterState
        BY <1>0, ColumnsType, WriterAssumption DEF SourceOffset
      <3> QED BY <1>0, <3>1, LoadCopiedChunkType
    <2>2. SetColumn(0, pos, d) /\ UNCHANGED <<free, fresh, taken, deferred>>
      BY <1>1 DEF LoadCopiedChunk, poolVars, outVars
    <2> HIDE DEF d
    <2> QED BY <1>0, <2>1, <2>2, SetColumnSame, PoolUnused
  <1>2. CASE StartCopyRows
    BY <1>0, <1>2, WithBloomFiltersType, SetColumnsSame, PoolUnused DEF StartCopyRows, poolVars,
      outVars
  <1>3. CASE RowsCopied \/ CopyRowsFails \/ WriteRowGroupSourceFails
    BY <1>3, PoolOtherSteps DEF RowsCopied, CopyRowsFails, WriteRowGroupSourceFails, rgVars, outVars
  <1>4. CASE ReencodeBatch
    <2> DEFINE d == IF BatchFull THEN FlushColumn(BatchColumn, pos, taken[0]) ELSE BatchColumn
    <2>1. d \in ColumnWriterState /\ d.pageBuffer \in {cw[0][pos].pageBuffer, taken[0]}
      BY <1>0, BatchColumnType, FlushColumnType
    <2>2. SetBatchColumn(d) /\ KeepTaken(0) /\ UNCHANGED deferred
      BY <1>4 DEF ReencodeBatch, outVars
    <2> HIDE DEF d
    <2> QED BY <1>0, <2>1, <2>2, SetBatchColumnOther, ColumnTakes
  <1>5. CASE ReencodeBatchFails
    <2> DEFINE d == FlushColumnFails(BatchColumn, pos, taken[0])
    <2>1. d \in ColumnWriterState /\ d.pageBuffer = cw[0][pos].pageBuffer
      BY <1>0, BatchColumnType, FlushColumnFailsType
    <2>2. SetBatchColumn(d) /\ ReturnTaken(0) /\ UNCHANGED deferred
      BY <1>5 DEF ReencodeBatchFails
    <2> HIDE DEF d
    <2> QED BY <1>0, <2>1, <2>2, SetBatchColumnOther, TakenReturns
  <1> QED BY <1>1, <1>2, <1>3, <1>4, <1>5

\* The steps of Close and Reset.
LEMMA PoolCloseStep ==
  ASSUME TypeOK, PoolInv,
         \/ CloseColumn \/ CloseColumnFails \/ CloseHeader
         \/ WriteDeferredBloomFilter \/ DeferredBloomFiltersWritten
         \/ PutDeferredBuffer \/ DeferredBuffersReturned
         \/ WriteFooter \/ CloseFails
  PROVE  PoolInv'
  <1> DEFINE c == cw[0][pos]
  <1>0. 0 \in Groups /\ pos \in Columns /\ c \in ColumnWriterState /\ taken[0] \in Nat
    BY PoolType DEF Groups, TypeOK
  <1>1. CASE CloseColumn
    <2> DEFINE d == FlushColumn(c, pos, taken[0])
    <2>1. d \in ColumnWriterState /\ d.pageBuffer \in {c.pageBuffer, taken[0]}
      BY <1>0, FlushColumnType
    <2>2. SetColumn(0, pos, d) /\ KeepTaken(0) /\ UNCHANGED deferred
      BY <1>1 DEF CloseColumn, outVars
    <2> HIDE DEF d
    <2> QED BY <1>0, <2>1, <2>2, FlushKeeps
  <1>2. CASE CloseColumnFails
    <2> DEFINE d == FlushColumnFails(c, pos, taken[0])
    <2>1. d \in ColumnWriterState /\ d.pageBuffer = c.pageBuffer
      BY <1>0, FlushColumnFailsType
    <2>2. SetColumn(0, pos, d) /\ ReturnTaken(0) /\ UNCHANGED deferred
      BY <1>2 DEF CloseColumnFails
    <2> HIDE DEF d
    <2> QED BY <1>0, <2>1, <2>2, FlushReturns
  <1>3. CASE CloseHeader \/ WriteDeferredBloomFilter \/ DeferredBloomFiltersWritten
             \/ DeferredBuffersReturned \/ WriteFooter \/ CloseFails
    BY <1>3, PoolOtherSteps DEF CloseHeader, WriteDeferredBloomFilter,
         DeferredBloomFiltersWritten, DeferredBuffersReturned, WriteFooter, CloseFails,
         rgVars, outVars
  <1>4. CASE PutDeferredBuffer
    <2>1. /\ deferred # << >> /\ PutBuffer(deferred[1].buffer)
          /\ deferred' = Tail(deferred) /\ UNCHANGED <<cw, taken>>
      BY <1>4 DEF PutDeferredBuffer, rgVars
    <2> QED BY <2>1, SameBuffersIs, DeferredReturns
  <1> QED BY <1>1, <1>2, <1>3, <1>4

\* Every step keeps the pool safe.
LEMMA PoolStep ==
  ASSUME TypeOK, PoolInv, [Next]_vars
  PROVE  PoolInv'
  <1>1. CASE UNCHANGED vars
    BY <1>1, PoolOtherSteps DEF vars, rgVars, outVars
  <1>2. CASE ApplicationCall
    BY <1>2, PoolApplicationCall
  <1>3. CASE MainStep
    BY <1>3, PoolRowGroupStep, PoolSourceStep, PoolCloseStep DEF MainStep
  <1>4. CASE \E g \in Groups : GroupStep(g) \/ AcquireBuffer(g)
    BY <1>4, PoolGroupStep, CallTakes
  <1> QED BY <1>1, <1>2, <1>3, <1>4 DEF Next

\* A buffer of the pool never has two owners, for any number of concurrent row
\* groups and columns and whatever fails: the pages of two columns are never
\* mixed.  This is about every Get and Put of the column writers' page buffers
\* and of the buffers of the deferred bloom filters in writer.go: a buffer is
\* taken in one step and, in a later one, kept by the column or the filter it
\* was taken for or returned because that failed, and a column that fails is
\* left without its reference; other calls take and return theirs in between.
THEOREM PoolCorrect == Spec => []PoolSafe
  <1>1. Init => TypeOK /\ PoolInv
    BY TypeInit, PoolInit
  <1>2. TypeOK /\ PoolInv /\ [Next]_vars => TypeOK' /\ PoolInv'
    BY TypeStep, PoolStep
  <1>3. PoolInv => PoolSafe
    BY DEF PoolInv
  <1> QED BY <1>1, <1>2, <1>3, PTL DEF Spec

-----------------------------------------------------------------------------
(* The pages in every page buffer follow each other. *)

AllLaidOut == \A g \in Groups, k \in Columns : LaidOut(cw[g][k])

\* Writing to the column buffer, sizing a filter and filling it keep the pages.
LEMMA SamePagesSteps ==
  ASSUME NEW c \in ColumnWriterState, NEW k \in Columns, NEW rows \in Seq(Row), NEW id,
         LaidOut(c)
  PROVE  /\ LaidOut(WriteValues(c, k, rows)) /\ LaidOut(newColumnBuffer(c))
         /\ LaidOut(FlushColumnFails(c, k, id)) /\ LaidOut(resizeBloomFilter(c))
         /\ LaidOut(flushFilterPages(c, k)) /\ LaidOut(resetColumn(c))
  <1>1. SamePages(c, WriteValues(c, k, rows)) /\ SamePages(c, newColumnBuffer(c))
    BY DEF SamePages, WriteValues, newColumnBuffer, ColumnWriterState
  <1>2. SamePages(c, resizeBloomFilter(c)) /\ SamePages(c, flushFilterPages(c, k))
    BY FilterRows DEF SameButFilter
  <1>3. SamePages(c, FlushColumnFails(c, k, id))
    <2> DEFINE f == writePageToFilter(c, k, Buffered(c))
               b == [c EXCEPT !.filter = f]
    <2>1. f \in Filter
      BY BufferedType, ValuesOfType DEF writePageToFilter, Filter, ColumnWriterState
    <2>2. FlushColumnFails(c, k, id) = ResetBuffer(b)
      BY FlushColumnFailsIs
    <2> HIDE DEF f
    <2>3. b \in ColumnWriterState /\ SamePages(c, b)
      BY <2>1 DEF ColumnWriterState, SamePages
    <2> HIDE DEF b
    <2>4. SamePages(b, ResetBuffer(b))
      BY <2>3, ResetBufferRows
    <2> QED BY <2>2, <2>3, <2>4 DEF SamePages
  <1>4. LaidOut(resetColumn(c))
    BY ResetColumnRows, ResetColumnType, BlankRows
  <1> QED BY <1>1, <1>2, <1>3, <1>4, SamePagesSame

\* So does a flush, which adds a page at the end.
LEMMA FlushLaidOut ==
  ASSUME NEW c \in ColumnWriterState, NEW k \in Columns, NEW id \in Nat, LaidOut(c)
  PROVE  LaidOut(FlushColumn(c, k, id))
  <1> DEFINE rows == Buffered(c)
             w == writeDataPage(c, k, rows, id)
             r == ResetBuffer(w)
  <1>1. rows \in Seq(Row)
    BY BufferedType
  <1> HIDE DEF rows
  <1>2. w \in ColumnWriterState /\ LaidOut(w)
    BY <1>1, WriteDataPageType, WriteDataPageRows
  <1> HIDE DEF w
  <1>3. r \in ColumnWriterState /\ SamePages(w, r)
    BY <1>2, ResetBufferType, ResetBufferRows
  <1> HIDE DEF r
  <1>4. SamePages(w, fallbackDictionaryToPlain(r))
    BY <1>3 DEF SamePages, fallbackDictionaryToPlain, ColumnWriterState
  <1>5. LaidOut(r) /\ LaidOut(fallbackDictionaryToPlain(r))
    BY <1>2, <1>3, <1>4, SamePagesSame
  <1> QED BY <1>5 DEF FlushColumn, r, w, rows

\* A column writer is replaced.
LEMMA SetColumnLaidOut ==
  ASSUME TypeOK, AllLaidOut, NEW g \in Groups, NEW k \in Columns, NEW c, LaidOut(c),
         SetColumn(g, k, c)
  PROVE  AllLaidOut'
  BY DEF TypeOK, AllLaidOut, SetColumn

\* All the column writers of a row group are replaced.
LEMMA SetColumnsLaidOut ==
  ASSUME TypeOK, AllLaidOut, NEW g \in Groups, NEW f, \A k \in Columns : LaidOut(f[k]),
         cw' = [cw EXCEPT ![g] = f]
  PROVE  AllLaidOut'
  BY DEF TypeOK, AllLaidOut

\* The steps that touch a column writer.
GroupColumnStep(g) ==
  \/ NextChunk(g) \/ WriteColumn(g) \/ WriteColumnFails(g)
  \/ FlushGroupColumn(g) \/ FlushGroupColumnFails(g)
MainColumnStep ==
  \/ FlushRowGroupColumn \/ FlushRowGroupColumnFails \/ FlushFilterPagesFails
  \/ ResetRowGroupColumn \/ LoadCopiedChunk \/ StartCopyRows
  \/ ReencodeBatch \/ ReencodeBatchFails
  \/ CloseColumn \/ CloseColumnFails

\* The others leave every column writer as it is.
LEMMA ColumnsUnchanged ==
  ASSUME [Next]_vars
  PROVE  (\E g \in Groups : GroupColumnStep(g)) \/ MainColumnStep \/ UNCHANGED cw
  <1>1. CASE UNCHANGED allButPool
    BY <1>1 DEF allButPool, rgVars
  <1>2. CASE ApplicationCall
    BY <1>2 DEF ApplicationCall, WriteRows, WriteRowGroup, FlushGroup, Commit, Flush, Close,
                Reset, Call, rgVars
  <1>3. CASE MainStep
    BY <1>3 DEF MainStep, MainColumnStep, SkipEmptyRowGroup, TooManyRowGroups, StartRowGroup,
                WriteHeader, WriteColumnPages, NoBloomFilter, DeferBloomFilter, WriteBloomFilter,
                WriteRowGroupFails, AppendRowGroup, CloseHeader, WriteDeferredBloomFilter,
                DeferredBloomFiltersWritten, PutDeferredBuffer, DeferredBuffersReturned,
                WriteFooter, CloseFails, RowsCopied, CopyRowsFails, WriteRowGroupSourceFails,
                rgVars
  <1>4. CASE \E g \in Groups : GroupStep(g)
    BY <1>4 DEF GroupStep, GroupColumnStep, GroupFull, rgVars
  <1> QED BY <1>1, <1>2, <1>3, <1>4, NextCases

\* The next chunk of a call and what is left of the call.
LEMMA ChunkParts ==
  ASSUME TypeOK, NEW g \in Groups, ~Full(g)
  PROVE  LET n == ChunkLength(g)
             rows == SubSeq(todo[g], 1, n)
             rest == SubSeq(todo[g], n + 1, Len(todo[g]))
         IN  /\ n \in Nat /\ n <= Len(todo[g]) /\ n <= maxRowsPerWrite
             /\ numRows[g] + n <= MaxRowsPerRowGroup
             /\ todo[g] # << >> => n > 0
             /\ rows \in Seq(Row) /\ rest \in Seq(Row) /\ Len(rows) = n
             /\ rows \o rest = todo[g]
  <1> DEFINE n == ChunkLength(g)
             t == todo[g]
  <1>1. t \in Seq(Row) /\ numRows[g] \in Nat /\ numRows[g] < MaxRowsPerRowGroup
        /\ MaxRowsPerRowGroup \in Nat /\ maxRowsPerWrite \in Nat \ {0}
    BY WriterAssumption DEF TypeOK, Full
  <1>2. /\ n \in Nat /\ n <= Len(t) /\ n <= maxRowsPerWrite
        /\ numRows[g] + n <= MaxRowsPerRowGroup
        /\ Len(t) > 0 => n > 0
    <2> DEFINE room == MaxRowsPerRowGroup - numRows[g]
               length == Len(t)
    <2>1. n = Lesser(Lesser(room, length), maxRowsPerWrite)
      BY DEF ChunkLength
    <2>2. room \in Nat \ {0} /\ length \in Nat /\ numRows[g] + room = MaxRowsPerRowGroup
      BY <1>1
    <2> HIDE DEF n, room, length
    <2>3. n \in Nat /\ n <= length /\ n <= maxRowsPerWrite /\ n <= room /\ (length > 0 => n > 0)
      BY <1>1, <2>1, <2>2 DEF Lesser
    <2>4. numRows[g] + n <= MaxRowsPerRowGroup
      BY <1>1, <2>2, <2>3
    <2> QED BY <2>3, <2>4 DEF length
  <1> HIDE DEF n, t
  <1>3. Len(t) \in Nat /\ (t # << >> => Len(t) > 0) /\ SubSeq(t, 1, Len(t)) = t
    BY <1>1, EmptySeq
  <1>4. /\ SubSeq(t, 1, n) \in Seq(Row) /\ Len(SubSeq(t, 1, n)) = n
        /\ SubSeq(t, n + 1, Len(t)) \in Seq(Row)
        /\ SubSeq(t, 1, n) \o SubSeq(t, n + 1, Len(t)) = SubSeq(t, 1, Len(t))
    <2>1. Len(t) <= Len(t)
      BY <1>3
    <2> QED BY <1>1, <1>2, <1>3, <2>1, RowsJoin, ZenonT(60)
  <1> QED BY <1>2, <1>3, <1>4 DEF n, t

\* What the goroutine of a row group does to its columns.
LEMMA GroupColumnStepLaidOut ==
  ASSUME TypeOK, AllLaidOut, NEW g \in Groups, GroupColumnStep(g)
  PROVE  AllLaidOut'
  <1> DEFINE k == col[g]
             c == WithChunk(g, k)
  <1>1. k \in Columns /\ taken[g] \in Nat /\ chunk[g] \in Seq(Row) /\ cw[g][k] \in ColumnWriterState
    BY PoolType DEF TypeOK
  <1>2. c \in ColumnWriterState /\ LaidOut(c) /\ LaidOut(cw[g][k])
    BY <1>1, WithChunkType, SamePagesSteps DEF AllLaidOut, WithChunk
  <1>3. CASE NextChunk(g)
    <2> DEFINE rows == SubSeq(todo[g], 1, ChunkLength(g))
    <2>1. cw' = IF Generic(g) THEN [cw EXCEPT ![g] = WriteToAllColumns(@, rows)] ELSE cw
      BY <1>3 DEF NextChunk
    <2>2. cw \in [Groups -> [Columns -> ColumnWriterState]]
      BY DEF TypeOK
    <2>3. rows \in Seq(Row)
      BY <1>3, ChunkParts DEF NextChunk
    <2> HIDE DEF rows
    <2>4. \A m \in Columns : LaidOut(WriteToAllColumns(cw[g], rows)[m])
      <3> TAKE m \in Columns
      <3>1. cw[g][m] \in ColumnWriterState /\ LaidOut(cw[g][m])
        BY <2>2 DEF AllLaidOut
      <3>2. newColumnBuffer(cw[g][m]) \in ColumnWriterState /\ LaidOut(newColumnBuffer(cw[g][m]))
        BY <2>3, <3>1, SamePagesSteps, NewColumnBufferType
      <3>3. /\ LaidOut(WriteValues(cw[g][m], m, rows))
            /\ LaidOut(WriteValues(newColumnBuffer(cw[g][m]), m, rows))
        BY <2>3, <3>1, <3>2, SamePagesSteps
      <3> QED BY <3>3 DEF WriteToAllColumns
    <2>5. CASE Generic(g)
      BY <2>1, <2>2, <2>4, <2>5, SetColumnsLaidOut
    <2>6. CASE ~Generic(g)
      BY <2>1, <2>6 DEF AllLaidOut
    <2> QED BY <2>5, <2>6
  <1>4. CASE WriteColumn(g)
    <2> DEFINE full == BufferBytes(c) >= BufferSize[k]
    <2>1. SetColumn(g, k, IF full THEN FlushColumn(c, k, taken[g]) ELSE c)
      BY <1>4 DEF WriteColumn
    <2> HIDE DEF full, c, k
    <2>2. LaidOut(IF full THEN FlushColumn(c, k, taken[g]) ELSE c)
      BY <1>1, <1>2, FlushLaidOut
    <2> QED BY <1>1, <2>1, <2>2, SetColumnLaidOut
  <1>5. CASE WriteColumnFails(g)
    <2>1. SetColumn(g, k, FlushColumnFails(c, k, taken[g]))
      BY <1>5 DEF WriteColumnFails
    <2> HIDE DEF c, k
    <2>2. LaidOut(FlushColumnFails(c, k, taken[g]))
      BY <1>1, <1>2, SamePagesSteps
    <2> QED BY <1>1, <2>1, <2>2, SetColumnLaidOut
  <1>6. CASE FlushGroupColumn(g)
    <2>1. SetColumn(g, k, FlushColumn(cw[g][k], k, taken[g]))
      BY <1>6 DEF FlushGroupColumn
    <2>2. LaidOut(FlushColumn(cw[g][k], k, taken[g]))
      BY <1>1, <1>2, FlushLaidOut
    <2> QED BY <1>1, <2>1, <2>2, SetColumnLaidOut
  <1>7. CASE FlushGroupColumnFails(g)
    <2>1. SetColumn(g, k, FlushColumnFails(cw[g][k], k, taken[g]))
      BY <1>7 DEF FlushGroupColumnFails
    <2>2. LaidOut(FlushColumnFails(cw[g][k], k, taken[g]))
      BY <1>1, <1>2, SamePagesSteps
    <2> QED BY <1>1, <2>1, <2>2, SetColumnLaidOut
  <1> QED BY <1>3, <1>4, <1>5, <1>6, <1>7 DEF GroupColumnStep

\* What the main thread does to the columns of the current row group.
LEMMA MainColumnStepLaidOut ==
  ASSUME TypeOK, AllLaidOut, MainColumnStep
  PROVE  AllLaidOut'
  <1> DEFINE g == Group
  <1>1. pos \in Columns /\ (\A h \in Groups : taken[h] \in Nat) /\ source \in Seq(Row) /\ done \in Nat /\ 0 \in Groups
        /\ cw \in [Groups -> [Columns -> ColumnWriterState]]
    BY PoolType DEF TypeOK, Groups
  <1>2. \A h \in Groups, k \in Columns : cw[h][k] \in ColumnWriterState /\ LaidOut(cw[h][k])
    BY <1>1 DEF AllLaidOut
  <1>3. job # << >> => g \in Groups
    BY JobType
  <1>4. CASE FlushRowGroupColumn
    <2> DEFINE c == cw[g][pos]
               flushed == FlushColumn(c, pos, taken[g])
    <2>1. g \in Groups /\ SetColumn(g, pos, IF c.copied THEN flushed ELSE flushFilterPages(flushed, pos))
      BY <1>3, <1>4 DEF FlushRowGroupColumn, InRowGroup, Running
    <2> HIDE DEF g
    <2>2. flushed \in ColumnWriterState /\ LaidOut(flushed)
      BY <1>1, <1>2, <2>1, FlushLaidOut, FlushColumnType
    <2> HIDE DEF flushed
    <2>3. LaidOut(flushFilterPages(flushed, pos))
      BY <1>1, <2>2, SamePagesSteps
    <2>4. LaidOut(IF c.copied THEN flushed ELSE flushFilterPages(flushed, pos))
      BY <2>2, <2>3
    <2> HIDE DEF c
    <2> QED BY <1>1, <2>1, <2>4, SetColumnLaidOut
  <1>5. CASE FlushRowGroupColumnFails
    <2>1. g \in Groups /\ SetColumn(g, pos, FlushColumnFails(cw[g][pos], pos, taken[g]))
      BY <1>3, <1>5 DEF FlushRowGroupColumnFails, InRowGroup, Running
    <2> HIDE DEF g
    <2>2. LaidOut(FlushColumnFails(cw[g][pos], pos, taken[g]))
      BY <1>1, <1>2, <2>1, SamePagesSteps
    <2> QED BY <1>1, <2>1, <2>2, SetColumnLaidOut
  <1>6. CASE ResetRowGroupColumn
    <2>1. g \in Groups /\ SetColumn(g, pos, resetColumn(cw[g][pos]))
      BY <1>3, <1>6 DEF ResetRowGroupColumn
    <2> HIDE DEF g
    <2>2. LaidOut(resetColumn(cw[g][pos]))
      BY <1>1, <1>2, <2>1, SamePagesSteps
    <2> QED BY <1>1, <2>1, <2>2, SetColumnLaidOut
  <1>7. CASE LoadCopiedChunk
    <2> DEFINE d == loadCopiedChunk(cw[0][pos], pos, SourceChunk(pos, source, SourcePage, SourceOffset))
    <2>1. SetColumn(0, pos, d)
      BY <1>7 DEF LoadCopiedChunk
    <2>2. SourcePage \in Nat \ {0} /\ SourceOffset \in Nat \ {0}
      BY WriterAssumption DEF SourceOffset
    <2>3. LaidOut(d)
      BY <1>1, <1>2, <2>2, CopiedLaidOut
    <2> HIDE DEF d
    <2> QED BY <1>1, <2>1, <2>3, SetColumnLaidOut
  <1>8. \A k \in Columns : WithBloomFilters(cw[0])[k] \in ColumnWriterState
                           /\ LaidOut(WithBloomFilters(cw[0])[k])
    <2> TAKE k \in Columns
    <2>1. cw[0][k] \in ColumnWriterState /\ LaidOut(cw[0][k]) /\ source \in Seq(Row)
      BY <1>1, <1>2
    <2>2. LaidOut(resizeBloomFilter(cw[0][k])) /\ resizeBloomFilter(cw[0][k]) \in ColumnWriterState
      BY <2>1, SamePagesSteps, FilterType
    <2> QED BY <2>1, <2>2 DEF WithBloomFilters
  <1>9. CASE StartCopyRows
    BY <1>1, <1>8, <1>9, SetColumnsLaidOut DEF StartCopyRows
  <1>10. ASSUME NEW c, LaidOut(c), SetBatchColumn(c)
         PROVE  AllLaidOut'
    <2>1. \A k \in Columns : BatchColumns[k] \in ColumnWriterState /\ LaidOut(BatchColumns[k])
      BY <1>1, <1>2, <1>8 DEF BatchColumns
    <2>2. BatchColumns \in [Columns -> ColumnWriterState]
      BY <1>1, WithBloomFiltersType DEF BatchColumns
    <2>3. \A k \in Columns : LaidOut([BatchColumns EXCEPT ![pos] = c][k])
      BY <1>1, <1>10, <2>1, <2>2
    <2> QED BY <1>1, <1>10, <2>3, SetColumnsLaidOut DEF SetBatchColumn
  <1>13. BatchColumn \in ColumnWriterState /\ LaidOut(BatchColumn)
    <2> DEFINE batch == SubSeq(source, done + 1, BatchEnd)
    <2>1. batch \in Seq(Row)
      <3>1. BatchEnd \in Nat /\ BatchEnd <= Len(source)
        BY <1>1, WriterAssumption DEF BatchEnd, Lesser
      <3> QED BY <1>1, <3>1
    <2>2. BatchColumns[pos] \in ColumnWriterState /\ LaidOut(BatchColumns[pos])
      BY <1>1, <1>2, <1>8 DEF BatchColumns
    <2>3. LaidOut(WriteValues(BatchColumns[pos], pos, batch))
      <3> HIDE DEF batch
      <3> QED BY <1>1, <2>1, <2>2, SamePagesSteps
    <2> QED BY <2>3, BatchColumnType DEF BatchColumn
  <1>14. CASE ReencodeBatch
    <2> DEFINE d == IF BatchFull THEN FlushColumn(BatchColumn, pos, taken[0]) ELSE BatchColumn
    <2>1. SetBatchColumn(d)
      BY <1>14 DEF ReencodeBatch
    <2>2. LaidOut(d)
      BY <1>1, <1>13, FlushLaidOut
    <2> HIDE DEF d
    <2> QED BY <1>10, <2>1, <2>2
  <1>15. CASE ReencodeBatchFails
    <2>1. SetBatchColumn(FlushColumnFails(BatchColumn, pos, taken[0]))
      BY <1>15 DEF ReencodeBatchFails
    <2>2. LaidOut(FlushColumnFails(BatchColumn, pos, taken[0]))
      BY <1>1, <1>13, SamePagesSteps
    <2> QED BY <1>10, <2>1, <2>2
  <1>16. CASE FlushFilterPagesFails
    <2>1. g \in Groups /\ SetColumn(g, pos, FlushColumn(cw[g][pos], pos, taken[g]))
      BY <1>3, <1>16 DEF FlushFilterPagesFails, InRowGroup, Running
    <2> HIDE DEF g
    <2>2. LaidOut(FlushColumn(cw[g][pos], pos, taken[g]))
      BY <1>1, <1>2, <2>1, FlushLaidOut
    <2> QED BY <1>1, <2>1, <2>2, SetColumnLaidOut
  <1>11. CASE CloseColumn
    <2>1. SetColumn(0, pos, FlushColumn(cw[0][pos], pos, taken[0]))
      BY <1>11 DEF CloseColumn
    <2>2. LaidOut(FlushColumn(cw[0][pos], pos, taken[0]))
      BY <1>1, <1>2, FlushLaidOut
    <2> QED BY <1>1, <2>1, <2>2, SetColumnLaidOut
  <1>12. CASE CloseColumnFails
    <2>1. SetColumn(0, pos, FlushColumnFails(cw[0][pos], pos, taken[0]))
      BY <1>12 DEF CloseColumnFails
    <2>2. LaidOut(FlushColumnFails(cw[0][pos], pos, taken[0]))
      BY <1>1, <1>2, SamePagesSteps
    <2> QED BY <1>1, <2>1, <2>2, SetColumnLaidOut
  <1> QED BY <1>4, <1>5, <1>6, <1>7, <1>9, <1>11, <1>12, <1>14, <1>15, <1>16 DEF MainColumnStep

\* Every step keeps the pages one after the other.
LEMMA LaidOutStep ==
  ASSUME TypeOK, AllLaidOut, [Next]_vars
  PROVE  AllLaidOut'
  BY ColumnsUnchanged, GroupColumnStepLaidOut, MainColumnStepLaidOut DEF AllLaidOut

-----------------------------------------------------------------------------
(* The segments of the output. *)

FileInv ==
  /\ AllLaidOut
  /\ \A s \in file : s.size > 0
  /\ SegmentsDisjoint

\* A segment written at the tracked offset follows all the others.
LEMMA OutputDisjoint ==
  ASSUME TypeOK, FileInv, NEW segment \in Segment,
         segment.at = offset, segment.size > 0, Output(segment)
  PROVE  (\A s \in file' : s.size > 0) /\ SegmentsDisjoint'
  <1>1. /\ file' = file \cup {segment} /\ offset' = offset + segment.size
        /\ offset \in Nat /\ segment.size \in Nat
    BY DEF Output, TypeOK, Segment
  <1>2. \A s \in file : s.at \in Nat /\ s.size \in Nat /\ s.size > 0 /\ s.at + s.size <= offset
    BY DEF TypeOK, Segment, FileInv, SegmentsDisjoint
  <1>3. \A s \in file' : s.size > 0
    BY <1>1, <1>2
  <1>4. \A s \in file' : s.at + s.size <= offset'
    <2> TAKE s \in file'
    <2>1. CASE s = segment
      BY <1>1, <2>1
    <2>2. CASE s \in file
      BY <1>1, <1>2, <2>2
    <2> QED BY <1>1, <2>1, <2>2
  <1>5. \A s, t \in file' : s = t \/ s.at + s.size <= t.at \/ t.at + t.size <= s.at
    <2> TAKE s, t \in file'
    <2>1. CASE s \in file /\ t \in file
      BY <2>1 DEF FileInv, SegmentsDisjoint
    <2>2. CASE s \in file /\ t = segment
      BY <1>2, <2>2
    <2>3. CASE s = segment /\ t \in file
      BY <1>2, <2>3
    <2> QED BY <1>1, <2>1, <2>2, <2>3
  <1> QED BY <1>3, <1>4, <1>5 DEF SegmentsDisjoint

\* The magic bytes start the file, once.
LEMMA PutMagicDisjoint ==
  ASSUME TypeOK, FileInv, PutMagic
  PROVE  (\A s \in file' : s.size > 0) /\ SegmentsDisjoint'
  <1> DEFINE magic == [at |-> offset, size |-> MagicSize, kind |-> "magic", rows |-> << >>,
                       encoding |-> "PLAIN", values |-> {}]
  <1>1. CASE offset = 0
    <2>1. magic \in Segment /\ magic.at = offset /\ magic.size > 0
      BY DEF TypeOK, Segment, MagicSize
    <2>2. Output(magic)
      BY <1>1 DEF PutMagic
    <2> HIDE DEF magic
    <2> QED BY <2>1, <2>2, OutputDisjoint
  <1>2. CASE offset # 0
    BY <1>2 DEF PutMagic, FileInv, SegmentsDisjoint
  <1> QED BY <1>1, <1>2

\* The pages of a column, written at `base`, follow each other up to the end of
\* its page buffer.
LEMMA DataSegmentsOrdered ==
  ASSUME NEW c \in ColumnWriterState, NEW base \in Nat, LaidOut(c)
  PROVE  /\ \A s \in DataSegments(c, base) :
              /\ s.at \in Nat /\ s.size \in Nat /\ s.size > 0
              /\ base <= s.at /\ s.at + s.size <= base + c.pageBytes
         /\ \A s, t \in DataSegments(c, base) :
              s = t \/ s.at + s.size <= t.at \/ t.at + t.size <= s.at
  <1> DEFINE segment(i) ==
        [at |-> base + c.pages[i].at, size |-> c.pages[i].size, kind |-> "data",
         rows |-> c.pages[i].rows, encoding |-> c.pages[i].encoding, values |-> {}]
      P == 1 .. Len(c.pages)
  <1>1. DataSegments(c, base) = {segment(i) : i \in P}
    BY DEF DataSegments
  <1>2. ASSUME NEW i \in P
        PROVE  /\ segment(i).at = base + c.pages[i].at /\ segment(i).size = c.pages[i].size
               /\ c.pages[i].at \in Nat /\ c.pages[i].size \in Nat /\ c.pages[i].size > 0
               /\ c.pages[i].at + c.pages[i].size <= c.pageBytes
               /\ \A j \in P : i < j => c.pages[i].at + c.pages[i].size <= c.pages[j].at
    <2>1. c.pages[i] \in Page /\ c.pages[i].rows \in Seq(Row)
      BY PageRowsType
    <2>2. c.pages[i].size = HeaderSize + Len(c.pages[i].rows) /\ HeaderSize \in Nat \ {0}
      BY ColumnAssumption DEF LaidOut, PageSize
    <2>3. c.pages[i].at \in Nat /\ c.pages[i].size \in Nat
      BY <2>1 DEF Page
    <2>4. Len(c.pages[i].rows) \in Nat
      BY <2>1
    <2>5. c.pages[i].size > 0
      BY <2>2, <2>4
    <2> QED BY <2>3, <2>5 DEF LaidOut
  <1>3. c.pageBytes \in Nat
    BY DEF ColumnWriterState
  <1> HIDE DEF segment
  <1>4. \A i \in P : /\ segment(i).at \in Nat /\ segment(i).size \in Nat /\ segment(i).size > 0
                     /\ base <= segment(i).at
                     /\ segment(i).at + segment(i).size <= base + c.pageBytes
    <2> TAKE i \in P
    <2> DEFINE at == c.pages[i].at
               size == c.pages[i].size
    <2>1. /\ segment(i).at = base + at /\ segment(i).size = size
          /\ at \in Nat /\ size \in Nat /\ size > 0 /\ at + size <= c.pageBytes
      BY <1>2
    <2> HIDE DEF at, size
    <2> QED BY <1>3, <2>1
  <1>5. \A i, j \in P : i < j => segment(i).at + segment(i).size <= segment(j).at
    <2> TAKE i, j \in P
    <2> DEFINE at == c.pages[i].at
               size == c.pages[i].size
               next == c.pages[j].at
    <2>1. /\ segment(i).at = base + at /\ segment(i).size = size /\ segment(j).at = base + next
          /\ at \in Nat /\ size \in Nat /\ next \in Nat
          /\ i < j => at + size <= next
      BY <1>2
    <2> HIDE DEF at, size, next
    <2> QED BY <2>1
  <1>6. \A i, j \in P : i = j \/ i < j \/ j < i
    BY DEF ColumnWriterState
  <1> HIDE DEF P
  <1>7. \A s, t \in DataSegments(c, base) :
          s = t \/ s.at + s.size <= t.at \/ t.at + t.size <= s.at
    <2> TAKE s, t \in DataSegments(c, base)
    <2>1. PICK i \in P : s = segment(i)
      BY <1>1
    <2>2. PICK j \in P : t = segment(j)
      BY <1>1
    <2> QED BY <1>5, <1>6, <2>1, <2>2
  <1> QED BY <1>1, <1>4, <1>7

\* The dictionary page and the data pages of a column follow what was written.
LEMMA WriteColumnPagesDisjoint ==
  ASSUME TypeOK, FileInv, WriteColumnPages
  PROVE  (\A s \in file' : s.size > 0) /\ SegmentsDisjoint'
  <1> DEFINE c == cw[Group][pos]
             dict == pos \in DictionaryColumns
             base == IF dict THEN offset + HeaderSize + DictionaryBytes(c) ELSE offset
             first == IF dict THEN {DictionarySegment(c, offset)} ELSE {}
             data == DataSegments(c, base)
  <1>1. Group \in Groups /\ pos \in Columns
    BY JobType DEF WriteColumnPages, InRowGroup, Running, TypeOK
  <1>2. c \in ColumnWriterState /\ LaidOut(c)
    BY <1>1, ColumnsType DEF FileInv, AllLaidOut
  <1>3. offset \in Nat /\ HeaderSize \in Nat \ {0} /\ DictionaryBytes(c) \in Nat /\ c.pageBytes \in Nat
    BY <1>2, ColumnAssumption, DictionaryBytesType DEF TypeOK, ColumnWriterState
  <1>4. file' = file \cup first \cup data
    BY DEF WriteColumnPages
  <1>15. offset' = base + c.pageBytes
    BY DEF WriteColumnPages
  <1> HIDE DEF c
  <1> DEFINE size == HeaderSize + DictionaryBytes(c)
  <1>16. size \in Nat \ {0} /\ base = IF dict THEN offset + size ELSE offset
    BY <1>3
  <1>5. base \in Nat /\ offset <= base /\ base <= offset'
    <2> HIDE DEF size, base
    <2> QED BY <1>3, <1>15, <1>16
  <1>6. \A s \in first : /\ s.at \in Nat /\ s.size \in Nat /\ s.size > 0
                         /\ s.at = offset /\ s.at + s.size = base
    <2> DEFINE d == DictionarySegment(c, offset)
    <2>1. d.at = offset /\ d.size = size
      BY DEF DictionarySegment
    <2> HIDE DEF d, size, base
    <2>2. dict => d.at + d.size = base
      BY <1>16, <2>1
    <2> QED BY <1>3, <1>16, <2>1, <2>2 DEF d
  <1>7. \A s \in file : s.at \in Nat /\ s.size \in Nat /\ s.size > 0 /\ s.at + s.size <= offset
    BY DEF TypeOK, Segment, FileInv, SegmentsDisjoint
  <1>8. \A s \in data : /\ s.at \in Nat /\ s.size \in Nat /\ s.size > 0
                        /\ base <= s.at /\ s.at + s.size <= offset'
    <2> HIDE DEF base
    <2> QED BY <1>2, <1>15, <1>5, DataSegmentsOrdered
  <1>9. \A s, t \in data : s = t \/ s.at + s.size <= t.at \/ t.at + t.size <= s.at
    <2> HIDE DEF base
    <2> QED BY <1>2, <1>5, DataSegmentsOrdered
  <1>10. \A s, t \in first : s = t
    OBVIOUS
  <1>11. \A s, t \in file : s = t \/ s.at + s.size <= t.at \/ t.at + t.size <= s.at
    BY DEF FileInv, SegmentsDisjoint
  <1> HIDE DEF base, first, data
  <1>12. \A s \in file' : s.size > 0
    BY <1>4, <1>6, <1>7, <1>8
  <1>13. \A s \in file' : s.at + s.size <= offset'
    <2>1. offset' \in Nat
      BY <1>3, <1>15, <1>5
    <2>2. \A s \in file : s.at + s.size <= offset'
      BY <1>3, <1>5, <1>7, <2>1
    <2>3. \A s \in first : s.at + s.size <= offset'
      BY <1>5, <1>6
    <2> QED BY <1>4, <1>8, <2>2, <2>3
  <1>14. \A s, t \in file' : s = t \/ s.at + s.size <= t.at \/ t.at + t.size <= s.at
    <2>1. \A s \in file, t \in first : s.at + s.size <= t.at
      BY <1>6, <1>7
    <2>2. \A s \in file, t \in data : s.at + s.size <= t.at
      BY <1>3, <1>5, <1>7, <1>8
    <2>3. \A s \in first, t \in data : s.at + s.size <= t.at
      BY <1>6, <1>8
    <2> QED BY <1>4, <1>9, <1>10, <1>11, <2>1, <2>2, <2>3
  <1> QED BY <1>12, <1>13, <1>14 DEF SegmentsDisjoint

\* The steps that touch the output.
OutputStep ==
  \/ WriteHeader \/ WriteColumnPages \/ WriteBloomFilter
  \/ CloseHeader \/ WriteDeferredBloomFilter \/ WriteFooter \/ DeferredBuffersReturned

\* The others leave it as it is.
LEMMA OutputUnchanged ==
  ASSUME [Next]_vars
  PROVE  OutputStep \/ UNCHANGED <<file, offset>>
  <1>1. CASE UNCHANGED allButPool
    BY <1>1 DEF allButPool, outVars
  <1>2. CASE ApplicationCall
    BY <1>2 DEF ApplicationCall, WriteRows, WriteRowGroup, FlushGroup, Commit, Flush, Close,
                Reset, Call, outVars
  <1>3. CASE MainStep
    BY <1>3 DEF MainStep, OutputStep, SkipEmptyRowGroup, TooManyRowGroups, StartRowGroup,
                FlushRowGroupColumn, FlushRowGroupColumnFails, FlushFilterPagesFails,
                NoBloomFilter, DeferBloomFilter,
                WriteRowGroupFails, AppendRowGroup, ResetRowGroupColumn, CloseColumn,
                CloseColumnFails, DeferredBloomFiltersWritten, PutDeferredBuffer, CloseFails,
                LoadCopiedChunk, StartCopyRows, RowsCopied, CopyRowsFails, ReencodeBatch,
                ReencodeBatchFails,
                WriteRowGroupSourceFails, outVars
  <1>4. CASE \E g \in Groups : GroupStep(g)
    BY <1>4 DEF GroupStep, GroupFull, NextChunk, WriteColumn, WriteColumnFails,
                FlushGroupColumn, FlushGroupColumnFails, outVars
  <1> QED BY <1>1, <1>2, <1>3, <1>4, NextCases

\* What the steps that touch the output do to it.
LEMMA OutputStepDisjoint ==
  ASSUME TypeOK, FileInv, OutputStep
  PROVE  (\A s \in file' : s.size > 0) /\ SegmentsDisjoint'
  <1>1. offset \in Nat /\ HeaderSize \in Nat \ {0} /\ pos \in Columns
    BY ColumnAssumption DEF TypeOK
  <1>2. \A values \in SUBSET Value :
          /\ BloomSegment(values, offset) \in Segment
          /\ BloomSegment(values, offset).at = offset /\ BloomSegment(values, offset).size > 0
    BY <1>1, BloomSegmentType DEF BloomSegment, BloomSize
  <1>3. CASE WriteHeader \/ CloseHeader
    BY <1>3, PutMagicDisjoint DEF WriteHeader, CloseHeader
  <1>4. CASE WriteColumnPages
    BY <1>4, WriteColumnPagesDisjoint
  <1>5. CASE WriteBloomFilter
    <2> DEFINE values == cw[Group][pos].filter.values
    <2>1. Group \in Groups
      BY <1>5, JobType DEF WriteBloomFilter, InRowGroup, Running
    <2>2. values \in SUBSET Value
      BY <1>1, <2>1, ColumnsType DEF ColumnWriterState, Filter
    <2>3. Output(BloomSegment(values, offset))
      BY <1>5 DEF WriteBloomFilter
    <2> HIDE DEF values
    <2> QED BY <1>2, <2>2, <2>3, OutputDisjoint
  <1>6. CASE WriteDeferredBloomFilter
    <2> DEFINE values == deferred[done + 1].values
    <2>1. values \in SUBSET Value
      <3>1. done < Len(deferred) /\ done \in Nat /\ deferred \in Seq(DeferredFilter)
        BY <1>6 DEF WriteDeferredBloomFilter, TypeOK
      <3>2. deferred[done + 1] \in DeferredFilter
        BY <3>1
      <3> QED BY <3>2 DEF DeferredFilter
    <2>2. Output(BloomSegment(values, offset))
      BY <1>6 DEF WriteDeferredBloomFilter
    <2> HIDE DEF values
    <2> QED BY <1>2, <2>1, <2>2, OutputDisjoint
  <1>7. CASE WriteFooter
    <2> DEFINE footer == [at |-> offset, size |-> FooterSize, kind |-> "footer", rows |-> << >>,
                          encoding |-> "PLAIN", values |-> {}]
    <2>1. footer \in Segment /\ footer.at = offset /\ footer.size > 0
      BY <1>1 DEF Segment, FooterSize
    <2>2. Output(footer)
      BY <1>7 DEF WriteFooter
    <2> HIDE DEF footer
    <2> QED BY <2>1, <2>2, OutputDisjoint
  <1>8. CASE DeferredBuffersReturned
    <2>1. CASE job[1].op = "reset"
      BY <1>8, <2>1 DEF DeferredBuffersReturned, SegmentsDisjoint
    <2>2. CASE job[1].op # "reset"
      BY <1>8, <2>2 DEF DeferredBuffersReturned, FileInv, SegmentsDisjoint
    <2> QED BY <2>1, <2>2
  <1> QED BY <1>3, <1>4, <1>5, <1>6, <1>7, <1>8 DEF OutputStep

\* Every step keeps the segments of the output apart.
LEMMA FileStep ==
  ASSUME TypeOK, FileInv, [Next]_vars
  PROVE  FileInv'
  <1>1. AllLaidOut'
    BY LaidOutStep DEF FileInv
  <1>2. CASE OutputStep
    BY <1>1, <1>2, OutputStepDisjoint DEF FileInv
  <1>3. CASE UNCHANGED <<file, offset>>
    BY <1>1, <1>3 DEF FileInv, SegmentsDisjoint
  <1> QED BY <1>2, <1>3, OutputUnchanged

LEMMA FileInit ==
  ASSUME Init
  PROVE  FileInv
  <1>1. LaidOut(NewColumnWriter)
    BY DEF LaidOut, NewColumnWriter
  <1>2. AllLaidOut
    BY <1>1 DEF AllLaidOut, Init
  <1> QED BY <1>2 DEF FileInv, SegmentsDisjoint, Init

\* In every behaviour of the writer no two segments of the output overlap and
\* none goes beyond the offset that the metadata is computed from: whatever
\* fails in the middle of a row group, whatever was copied verbatim from another
\* file, and whatever sizes the page buffers have accumulated.
THEOREM FileSegmentsDisjoint == Spec => []SegmentsDisjoint
  <1>1. Init => FileInv
    BY FileInit
  <1>2. TypeOK /\ FileInv /\ [Next]_vars => FileInv'
    BY FileStep
  <1>3. FileInv => SegmentsDisjoint
    BY DEF FileInv
  <1> QED BY <1>1, <1>2, <1>3, TypeCorrect, PTL DEF Spec

=============================================================================
