------------------------------ MODULE WireProofs ------------------------------
(***************************************************************************)
(* What holds of the codec for any messages, any receivers and any frame   *)
(* that the network cuts short, changes or leaves whole: what the decoder  *)
(* holds is typed, it never reads past the datagram, and a receiver that   *)
(* requires a signature decodes what the holder of its key sent.  In the   *)
(* second half: what the decoder sees of the cells that come next, and how *)
(* frames are laid out, part by part as the sections of the decoder take   *)
(* them (OwnLayout, ForeignLayout), on which RoundTripProofs builds.       *)
(***************************************************************************)
EXTENDS Wire, FiniteSetTheorems, SequenceTheorems, WellFoundedInduction, TLAPS

(* Sums over sets and sequences are natural numbers. The folds of the community *)
(* modules are recursive functions chosen with CHOOSE: that one exists is proved *)
(* without induction, from a least size at which there would be none.            *)

\* A non-empty set of numbers has a least one.
LEMMA Least ==
    ASSUME NEW T \in SUBSET Nat, T # {}
    PROVE  \E n \in T : \A k \in T : n <= k
<1>1. PICK n \in T : \A k \in T : <<k, n>> \notin OpToRel(<, Nat)
  BY NatLessThanWellFounded, WFMin
<1>2. OpToRel(<, Nat) = {ss \in Nat \X Nat : ss[1] < ss[2]}
  BY Zenon DEF OpToRel
<1>3. \A k \in T : n <= k
  <2> SUFFICES ASSUME NEW k \in T, k < n PROVE FALSE
    OBVIOUS
  <2>1. <<k, n>> \in {ss \in Nat \X Nat : ss[1] < ss[2]}
    OBVIOUS
  <2>2. QED
    BY <1>1, <1>2, <2>1
<1>4. QED
  BY <1>3

AnyOf(s) == CHOOSE x \in s : TRUE

Adds(g, sets, f) ==
    g = [s \in sets |-> IF s = {} THEN 0 ELSE f[AnyOf(s)] + g[s \ {AnyOf(s)}]]

UpTo(S, n) == {s \in SUBSET S : Cardinality(s) <= n}

\* The sums over the sets of at most n elements: the function MapThenSumSet recurses by.
LEMMA SumsExist ==
    ASSUME NEW S, IsFiniteSet(S), NEW f \in [S -> Nat], NEW n \in Nat
    PROVE  \E g \in [UpTo(S, n) -> Nat] : Adds(g, UpTo(S, n), f)
<1> DEFINE Fine(k) == \E g \in [UpTo(S, k) -> Nat] : Adds(g, UpTo(S, k), f)
           Bad == {k \in Nat : ~Fine(k)}
<1> SUFFICES ASSUME Bad # {} PROVE FALSE
  OBVIOUS
<1>1. PICK m \in Bad : \A k \in Bad : m <= k
  BY Least
<1>2. \A s \in SUBSET S : IsFiniteSet(s) /\ Cardinality(s) \in Nat /\ (Cardinality(s) = 0 <=> s = {})
  BY FS_Subset, FS_CardinalityType, FS_EmptySet
<1>3. ~Fine(m)
  BY <1>1
<1>4. CASE m = 0
  <2>1. UpTo(S, 0) = {{}}
    BY <1>2 DEF UpTo
  <2>2. [s \in {{}} |-> 0] \in [{{}} -> Nat]
    OBVIOUS
  <2>3. Adds([s \in {{}} |-> 0], {{}}, f)
    BY DEF Adds
  <2>4. QED
    BY <1>3, <1>4, <2>1, <2>2, <2>3
<1>5. CASE m > 0
  <2>1. m - 1 \in Nat /\ Fine(m - 1)
    BY <1>1, <1>5
  <2>2. PICK g \in [UpTo(S, m - 1) -> Nat] : Adds(g, UpTo(S, m - 1), f)
    BY <2>1
  <2> DEFINE h == [s \in UpTo(S, m) |-> IF s = {} THEN 0 ELSE f[AnyOf(s)] + g[s \ {AnyOf(s)}]]
  <2>3. \A s \in UpTo(S, m) : s # {} => AnyOf(s) \in s /\ AnyOf(s) \in S /\ s \ {AnyOf(s)} \in UpTo(S, m - 1)
    <3> SUFFICES ASSUME NEW s \in UpTo(S, m), s # {}
                 PROVE  AnyOf(s) \in s /\ AnyOf(s) \in S /\ s \ {AnyOf(s)} \in UpTo(S, m - 1)
      OBVIOUS
    <3>1. AnyOf(s) \in s /\ s \subseteq S /\ Cardinality(s) <= m
      BY DEF AnyOf, UpTo
    <3>2. Cardinality(s \ {AnyOf(s)}) = Cardinality(s) - 1
      BY <1>2, <3>1, FS_RemoveElement
    <3>3. QED
      BY <1>1, <1>2, <3>1, <3>2 DEF UpTo
  <2>4. h \in [UpTo(S, m) -> Nat]
    BY <2>2, <2>3
  <2>5. \A s \in UpTo(S, m - 1) : s \in UpTo(S, m) /\ h[s] = g[s]
    <3>1. \A s \in UpTo(S, m - 1) : s \in UpTo(S, m)
      BY <1>1, <1>2, <1>5 DEF UpTo
    <3>2. \A s \in UpTo(S, m - 1) : g[s] = IF s = {} THEN 0 ELSE f[AnyOf(s)] + g[s \ {AnyOf(s)}]
      BY <2>2 DEF Adds
    <3>3. QED
      BY <3>1, <3>2
  <2>6. Adds(h, UpTo(S, m), f)
    <3>1. \A s \in UpTo(S, m) : s # {} => g[s \ {AnyOf(s)}] = h[s \ {AnyOf(s)}]
      BY <2>3, <2>5
    <3> HIDE DEF h
    <3>2. h = [s \in UpTo(S, m) |-> IF s = {} THEN 0 ELSE f[AnyOf(s)] + h[s \ {AnyOf(s)}]]
      BY <3>1 DEF h
    <3>3. QED
      BY <3>2 DEF Adds
  <2>7. QED
    BY <1>3, <2>4, <2>6
<1>6. QED
  BY <1>1, <1>4, <1>5

\* A sum of natural numbers is one.
LEMMA SumsAreNatural ==
    ASSUME NEW S, IsFiniteSet(S), NEW f \in [S -> Nat], NEW g, Adds(g, SUBSET S, f)
    PROVE  g[S] \in Nat
<1> DEFINE Bad == {k \in Nat : \E s \in SUBSET S : Cardinality(s) = k /\ g[s] \notin Nat}
<1>1. \A s \in SUBSET S : IsFiniteSet(s) /\ Cardinality(s) \in Nat
  BY FS_Subset, FS_CardinalityType
<1>2. Bad = {}
  <2> SUFFICES ASSUME Bad # {} PROVE FALSE
    OBVIOUS
  <2>1. PICK m \in Bad : \A k \in Bad : m <= k
    BY Least
  <2>2. PICK s \in SUBSET S : Cardinality(s) = m /\ g[s] \notin Nat
    BY <2>1
  <2>3. g[s] = IF s = {} THEN 0 ELSE f[AnyOf(s)] + g[s \ {AnyOf(s)}]
    BY DEF Adds
  <2>4. s # {} /\ AnyOf(s) \in s
    BY <2>2, <2>3 DEF AnyOf
  <2>5. Cardinality(s \ {AnyOf(s)}) = m - 1 /\ m - 1 \in Nat
    <3>1. Cardinality(s \ {AnyOf(s)}) = Cardinality(s) - 1
      BY <1>1, <2>4, FS_RemoveElement
    <3>2. Cardinality(s \ {AnyOf(s)}) \in Nat
      BY <1>1
    <3>3. QED
      BY <2>2, <3>1, <3>2
  <2>6. g[s \ {AnyOf(s)}] \in Nat
    BY <2>1, <2>5
  <2>7. f[AnyOf(s)] \in Nat
    BY <2>4
  <2>8. QED
    BY <2>2, <2>3, <2>6, <2>7
<1>3. QED
  BY <1>1, <1>2

\* The bytes of some cells are a natural number.
LEMMA WidthIsNatural ==
    ASSUME NEW S, \A c \in S : c.width \in Nat, NEW cells \in Seq(S)
    PROVE  Width(cells) \in Nat
<1> DEFINE D == DOMAIN cells
           f == [i \in D |-> cells[i].width]
<1>1. D = 1..Len(cells) /\ Len(cells) \in Nat /\ \A i \in D : cells[i] \in S
  OBVIOUS
<1>2. IsFiniteSet(D) /\ Cardinality(D) \in Nat
  BY <1>1, FS_Interval, FS_CardinalityType
<1>3. f \in [D -> Nat]
  BY <1>1
<1>4. UpTo(D, Cardinality(D)) = SUBSET D
  BY <1>2, FS_Subset DEF UpTo
<1> HIDE DEF f, D
<1>5. PICK g \in [SUBSET D -> Nat] : Adds(g, SUBSET D, f)
  <2>1. \E g \in [UpTo(D, Cardinality(D)) -> Nat] : Adds(g, UpTo(D, Cardinality(D)), f)
    BY <1>2, <1>3, SumsExist
  <2>2. QED
    BY <1>4, <2>1
<1> DEFINE iter == CHOOSE iter : iter = [s \in SUBSET D |->
                      IF s = {} THEN 0
                      ELSE cells[CHOOSE x \in s : TRUE].width + iter[s \ {CHOOSE x \in s : TRUE}]]
<1>6. Width(cells) = iter[D]
  BY DEF Width, FoldSeq, FoldFunction, FoldFunctionOnSet, MapThenFoldSet, D
<1>7. iter = [s \in SUBSET D |-> IF s = {} THEN 0
                               ELSE cells[CHOOSE x \in s : TRUE].width
                                    + iter[s \ {CHOOSE x \in s : TRUE}]]
  <2>1. \A s \in SUBSET D : s # {} => AnyOf(s) \in D
    BY DEF AnyOf
  <2>2. g = [s \in SUBSET D |-> IF s = {} THEN 0 ELSE cells[AnyOf(s)].width + g[s \ {AnyOf(s)}]]
    BY <1>5, <2>1 DEF Adds, f
  <2>3. QED
    BY <2>2 DEF AnyOf
<1>8. Adds(iter, SUBSET D, f)
  <2>1. \A s \in SUBSET D : s # {} => cells[AnyOf(s)].width = f[AnyOf(s)]
    BY DEF AnyOf, f
  <2> HIDE DEF iter
  <2>2. iter = [s \in SUBSET D |-> IF s = {} THEN 0 ELSE cells[AnyOf(s)].width + iter[s \ {AnyOf(s)}]]
    BY <1>7 DEF AnyOf
  <2>3. QED
    BY <2>1, <2>2 DEF Adds
<1> HIDE DEF iter
<1>9. QED
  BY <1>2, <1>3, <1>6, <1>8, SumsAreNatural

Joins(g, seqs, n) ==
    g = [i \in 1..n |-> IF i = 1 THEN seqs[i] ELSE g[i - 1] \o seqs[i]]

\* The concatenations of the first k sequences: the function FlattenSeq recurses by.
LEMMA JoinsExist ==
    ASSUME NEW S, NEW seqs \in Seq(Seq(S)), NEW n \in 0..Len(seqs)
    PROVE  \E g \in [1..n -> Seq(S)] : Joins(g, seqs, n)
<1> DEFINE Fine(k) == \E g \in [1..k -> Seq(S)] : Joins(g, seqs, k)
           Bad == {k \in 0..Len(seqs) : ~Fine(k)}
<1> SUFFICES ASSUME Bad # {} PROVE FALSE
  OBVIOUS
<1>0. Len(seqs) \in Nat /\ \A i \in 1..Len(seqs) : seqs[i] \in Seq(S)
  OBVIOUS
<1>1. PICK m \in Bad : \A k \in Bad : m <= k
  <2>1. Bad \subseteq Nat
    BY <1>0
  <2> HIDE DEF Bad
  <2>2. QED
    BY <2>1, Least
<1>2. ~Fine(m) /\ m \in 0..Len(seqs)
  BY <1>1
<1>3. CASE m = 0
  <2> DEFINE e == [i \in 1..0 |-> <<>>]
  <2>1. e \in [1..0 -> Seq(S)]
    OBVIOUS
  <2>2. Joins(e, seqs, 0)
    BY DEF Joins
  <2>3. QED
    BY <1>2, <1>3, <2>1, <2>2
<1>4. CASE m > 0
  <2>1. m - 1 \in 0..Len(seqs) /\ ~(m <= m - 1)
    BY <1>0, <1>2, <1>4
  <2>2. Fine(m - 1)
    BY <1>1, <1>2, <2>1
  <2>3. PICK g \in [1..(m - 1) -> Seq(S)] : Joins(g, seqs, m - 1)
    BY <2>2
  <2> DEFINE h == [i \in 1..m |-> IF i = 1 THEN seqs[i] ELSE g[i - 1] \o seqs[i]]
  <2>4. \A i \in 1..m : seqs[i] \in Seq(S) /\ (i # 1 => i - 1 \in 1..(m - 1) /\ g[i - 1] \in Seq(S))
    BY <1>0, <1>2, <2>3
  <2>5. h \in [1..m -> Seq(S)]
    BY <2>4
  <2>6. \A i \in 1..(m - 1) : h[i] = g[i]
    <3>1. \A i \in 1..(m - 1) : g[i] = IF i = 1 THEN seqs[i] ELSE g[i - 1] \o seqs[i]
      BY <2>3 DEF Joins
    <3>2. \A i \in 1..(m - 1) : i \in 1..m
      BY <1>0, <1>2
    <3>3. QED
      BY <3>1, <3>2
  <2>7. Joins(h, seqs, m)
    <3>1. \A i \in 1..m : i # 1 => g[i - 1] = h[i - 1]
      BY <2>4, <2>6
    <3> HIDE DEF h
    <3>2. h = [i \in 1..m |-> IF i = 1 THEN seqs[i] ELSE h[i - 1] \o seqs[i]]
      BY <3>1 DEF h
    <3>3. QED
      BY <3>2 DEF Joins
  <2>8. QED
    BY <1>2, <2>5, <2>7
<1>5. QED
  BY <1>0, <1>2, <1>3, <1>4

\* Sequences of sequences join to a sequence over the same set.
LEMMA FlattenIsASequence ==
    ASSUME NEW S, NEW seqs \in Seq(Seq(S))
    PROVE  FlattenSeq(seqs) \in Seq(S)
<1> DEFINE n == Len(seqs)
           flatten == CHOOSE g : Joins(g, seqs, n)
<1>0. n \in Nat /\ \A i \in 1..n : seqs[i] \in Seq(S)
  OBVIOUS
<1>1. FlattenSeq(seqs) = IF n = 0 THEN seqs ELSE flatten[n]
  BY DEF FlattenSeq, Joins
<1>2. CASE n = 0
  BY <1>1, <1>2
<1>3. CASE n # 0
  <2>1. Joins(flatten, seqs, n)
    BY <1>0, JoinsExist
  <2> HIDE DEF flatten, n
  <2> DEFINE Bad == {i \in 1..n : flatten[i] \notin Seq(S)}
  <2>2. Bad = {}
    <3> SUFFICES ASSUME Bad # {} PROVE FALSE
      OBVIOUS
    <3>1. PICK m \in Bad : \A k \in Bad : m <= k
      <4>1. Bad \subseteq Nat
        BY <1>0
      <4> HIDE DEF Bad
      <4>2. QED
        BY <4>1, Least
    <3>2. m \in 1..n /\ flatten[m] \notin Seq(S) /\ seqs[m] \in Seq(S)
      BY <1>0, <3>1
    <3>3. m = 1 \/ flatten[m - 1] \in Seq(S)
      BY <1>0, <3>1, <3>2
    <3>4. flatten[m] = IF m = 1 THEN seqs[m] ELSE flatten[m - 1] \o seqs[m]
      BY <2>1, <3>2 DEF Joins
    <3>5. QED
      BY <3>2, <3>3, <3>4
  <2>3. QED
    BY <1>0, <1>1, <1>3, <2>2
<1>4. QED
  BY <1>2, <1>3

-----------------------------------------------------------------------------
(* What a cell may hold: cells other than a signature. *)

Numbers == {"publisher id", "count", "writer id", "size", "token",
            "nonce length", "promoted size", "field count", "array length", "time"}

FlagKinds == {"flags", "ext1", "ext2", "group flags", "security flags", "flags1", "flags2",
              "DataValue"}

FlagNames == DOMAIN PidSize \cup
    {"publisher id", "payload header", "extended", "group header", "security", "class id",
     "frame time", "frame picoseconds", "ext2", "chunk", "promoted", "discovery", "group",
     "group sequence", "group version", "number", "signed", "footer", "encrypted", "DataValue",
     "Variant", "flags2", "sequence", "raw", "status", "major", "minor", "keep alive", "delta",
     "timestamp", "picoseconds", "value", "time", "server time"}

Skips == {"nonce", "class id", "group version", "number", "frame time", "frame picoseconds",
          "promoted", "footer size", "timestamp", "picoseconds", "message status", "major",
          "minor", "server time"}

Variants == {<<"null", "NULL">>} \cup ({"scalar", "array", "matrix"} \X DOMAIN ScalarSize)

\* A number within the width it is written with.
Residues == 0..SeqModulus - 1

\* A count taken modulo the size of a field is one of the numbers the field can hold.
LEMMA Residue ==
    /\ \A n \in Nat : n % SeqModulus \in Residues
    /\ Residues \subseteq Nat
BY WireConstants DEF Residues

Cells ==
    [kind : Numbers, value : Nat, width : Nat]
    \cup [kind : FlagKinds, value : SUBSET FlagNames, width : Nat]
    \cup [kind : Skips, value : {None}, width : Nat]
    \cup [kind : {"sequence", "group sequence"}, value : Residues, width : Nat]
    \cup [kind : {"group"}, value : Nat \cup {None}, width : Nat]
    \cup [kind : {"status"}, value : {"good", "bad"}, width : Nat]
    \cup [kind : {"scalar"}, value : Values \cup {Damaged}, width : Nat]
    \cup [kind : {"variant"}, value : Variants, width : Nat]

\* What the kind of a cell says of its value.
LEMMA CellKinds ==
    ASSUME NEW c \in Cells
    PROVE  /\ c.width \in Nat /\ c.kind # "signature"
           /\ c.kind \in Numbers => c.value \in Nat
           /\ c.kind \in {"sequence", "group sequence"} => c.value \in Residues
           /\ c.kind = "group" => c.value \in Nat \cup {None}
           /\ c.kind = "status" => c.value \in {"good", "bad"}
           /\ c.kind = "scalar" => c.value \in Values \cup {Damaged}
           /\ c.kind = "variant" => c.value \in Variants
BY DEF Cells, Numbers, FlagKinds, Skips

\* Cells, kind by kind.
LEMMA KindOfCell ==
    ASSUME NEW K, NEW V, [kind : K, value : V, width : Nat] \subseteq Cells,
           NEW kind \in K, NEW value \in V, NEW width \in Nat
    PROVE  Cell(kind, value, width) \in Seq(Cells)
<1>1. [kind |-> kind, value |-> value, width |-> width] \in Cells
  BY Zenon
<1>2. QED
  BY <1>1 DEF Cell

\* A number, flags, or nothing, in a cell of a kind that holds it, is one cell.
LEMMA NumberCell ==
    ASSUME NEW kind \in Numbers, NEW value \in Nat, NEW width \in Nat
    PROVE  Cell(kind, value, width) \in Seq(Cells)
<1>1. [kind : Numbers, value : Nat, width : Nat] \subseteq Cells
  BY Zenon DEF Cells
<1>2. QED
  BY <1>1, KindOfCell

\* Flags in a cell of a kind that holds flags.
LEMMA FlagsCell ==
    ASSUME NEW kind \in FlagKinds, NEW value \in SUBSET FlagNames, NEW width \in Nat
    PROVE  Cell(kind, value, width) \in Seq(Cells)
<1>1. [kind : FlagKinds, value : SUBSET FlagNames, width : Nat] \subseteq Cells
  BY Zenon DEF Cells
<1>2. QED
  BY <1>1, KindOfCell

\* A cell that the decoder steps over and that says nothing.
LEMMA SkippedCell ==
    ASSUME NEW kind \in Skips, NEW width \in Nat
    PROVE  Cell(kind, None, width) \in Seq(Cells)
<1>1. [kind : Skips, value : {None}, width : Nat] \subseteq Cells
  BY Zenon DEF Cells
<1>2. QED
  BY <1>1, KindOfCell

\* Sequences of cells, joined and left out.
LEMMA Joined ==
    ASSUME NEW S, NEW front \in Seq(S), NEW back \in Seq(S)
    PROVE  front \o back \in Seq(S)
OBVIOUS

\* Cells that are there on a condition.
LEMMA GivenCells ==
    ASSUME NEW S, NEW given, NEW cells, given => cells \in Seq(S)
    PROVE  If(given, cells) \in Seq(S)
BY DEF If

\* The encodings of a value, a Variant and a DataValue.
LEMMA ScalarCells ==
    ASSUME NEW type \in DOMAIN ScalarSize, NEW values \in Seq(Values \cup {Damaged})
    PROVE  Scalars(type, values) \in Seq(Cells)
<1>1. ScalarSize[type] \in Nat
  BY DEF ScalarSize
<1>2. \A i \in 1..Len(values) : 
         [kind |-> "scalar", value |-> values[i], width |-> ScalarSize[type]] \in Cells
  BY <1>1 DEF Cells
<1>3. QED
  BY <1>2 DEF Scalars

\* A field encoded as a Variant is cells.
LEMMA VariantCells ==
    ASSUME NEW f \in FieldValue
    PROVE  Variant(f) \in Seq(Cells)
<1>1. \A x \in Variants : Cell("variant", x, 1) \in Seq(Cells)
  BY DEF Cell, Cells
<1>2. CASE f.type = "NULL" \/ f.value = None
  BY <1>1, <1>2 DEF Variant, Variants
<1>3. CASE ~(f.type = "NULL" \/ f.value = None) /\ IsArray(f.value)
  <2>1. f.type \in DOMAIN ScalarSize /\ f.value \in Seq(Values \cup {Damaged})
    BY <1>3 DEF FieldValue, IsArray
  <2>2. Scalars(f.type, f.value) \in Seq(Cells)
    BY <2>1, ScalarCells
  <2>3. Cell("array length", Len(f.value), 4) \in Seq(Cells)
    <3>1. "array length" \in Numbers /\ Len(f.value) \in Nat /\ 4 \in Nat
      BY <2>1 DEF Numbers
    <3>2. QED
      BY <3>1, NumberCell
  <2>4. Cell("variant", <<"array", f.type>>, 1) \in Seq(Cells)
    BY <1>1, <2>1 DEF Variants
  <2>5. QED
    BY <1>3, <2>2, <2>3, <2>4, Joined, Zenon DEF Variant
<1>4. CASE ~(f.type = "NULL" \/ f.value = None) /\ ~IsArray(f.value)
  <2>1. f.type \in DOMAIN ScalarSize /\ f.value \in Values \cup {Damaged}
    BY <1>4 DEF FieldValue, IsArray
  <2>2. Scalars(f.type, <<f.value>>) \in Seq(Cells)
    <3>1. <<f.value>> \in Seq(Values \cup {Damaged})
      BY <2>1
    <3>2. QED
      BY <2>1, <3>1, ScalarCells
  <2>3. Cell("variant", <<"scalar", f.type>>, 1) \in Seq(Cells)
    BY <1>1, <2>1 DEF Variants
  <2>4. QED
    BY <1>4, <2>2, <2>3, Joined, Zenon DEF Variant
<1>5. QED
  BY <1>2, <1>3, <1>4

\* A status code is a cell.
LEMMA StatusCell ==
    ASSUME NEW status \in {"good", "bad"}
    PROVE  Cell("status", status, 4) \in Seq(Cells)
BY DEF Cell, Cells

\* A field encoded as a DataValue is cells.
LEMMA DataValueCells ==
    ASSUME NEW f \in FieldValue
    PROVE  DataValue(f) \in Seq(Cells)
<1> DEFINE mask == Flag(f.type # "NULL" /\ f.value # None, "value")
                   \cup Flag(f.status # "good", "status") \cup Flag(f.time # None, "time")
<1>1. mask \in SUBSET FlagNames /\ ("time" \in mask => f.time \in Nat) /\ f.status \in {"good", "bad"}
  <2>1. f.time \in Nat \cup {None} /\ f.status \in {"good", "bad"}
    BY DEF FieldValue
  <2>2. mask \subseteq {"value", "status", "time"}
    BY DEF Flag
  <2>3. "time" \in mask => f.time # None
    BY DEF Flag
  <2>4. {"value", "status", "time"} \subseteq FlagNames
    BY DEF FlagNames
  <2> HIDE DEF mask
  <2>5. QED
    BY <2>1, <2>2, <2>3, <2>4
<1> HIDE DEF mask
<1>2. Cell("DataValue", mask, 1) \in Seq(Cells)
  BY <1>1, FlagsCell DEF FlagKinds
<1>3. If("value" \in mask, Variant(f)) \in Seq(Cells)
  BY VariantCells, GivenCells
<1>4. If("status" \in mask, Cell("status", f.status, 4)) \in Seq(Cells)
  BY <1>1, StatusCell, GivenCells
<1>5. If("time" \in mask, Cell("time", f.time, 8)) \in Seq(Cells)
  <2>1. "time" \in mask => Cell("time", f.time, 8) \in Seq(Cells)
    BY <1>1, NumberCell DEF Numbers
  <2>2. QED
    BY <2>1, GivenCells
<1>6. DataValue(f) = Cell("DataValue", mask, 1) \o If("value" \in mask, Variant(f))
        \o If("status" \in mask, Cell("status", f.status, 4))
        \o If("time" \in mask, Cell("time", f.time, 8))
  BY DEF DataValue, mask
<1>7. QED
  BY <1>2, <1>3, <1>4, <1>5, <1>6, Joined, ZenonT(30)

-----------------------------------------------------------------------------
(* What is sent: fields of a message whose encoding is typed. *)

Encodable(m) ==
    /\ m.pid \in Nat /\ m.pid_type \in DOMAIN PidSize
    /\ m.group \in Nat \cup {None} /\ m.sequence \in Nat \cup {None}
    /\ m.messages \in Seq(DataSet)

Sendable(s) ==
    /\ s = [message |-> s.message, datavalue |-> s.datavalue, key |-> s.key,
            options |-> s.options, fate |-> s.fate]
    /\ Encodable(s.message)
    /\ s.options # None => Expressible(s.message, s.options)

\* Cells of a header.
LEMMA SequenceCell ==
    ASSUME NEW kind \in {"sequence", "group sequence"}, NEW value \in Residues
    PROVE  Cell(kind, value, 2) \in Seq(Cells)
<1>1. [kind : {"sequence", "group sequence"}, value : Residues, width : Nat] \subseteq Cells
  BY Zenon DEF Cells
<1>2. QED
  BY <1>1, KindOfCell

\* The writer group is a cell, also where there is none.
LEMMA GroupCell ==
    ASSUME NEW value \in Nat \cup {None}
    PROVE  Cell("group", value, 2) \in Seq(Cells)
BY DEF Cell, Cells

\* What DataSetMessages, headers and a whole NetworkMessage encode to is cells.
LEMMA DataSetCells ==
    ASSUME NEW d \in DataSet, NEW datavalue
    PROVE  DataSetMessage(d, datavalue) \in Seq(Cells)
<1> DEFINE dv == UseDataValue(d, datavalue)
           flags == {IF dv THEN "DataValue" ELSE "Variant"} \cup Flag(d.sequence # None, "sequence")
           bodies == [i \in DOMAIN d.fields |->
                         IF dv THEN DataValue(d.fields[i]) ELSE Variant(d.fields[i])]
<1>1. d.fields \in Seq(FieldValue) /\ Len(d.fields) \in Nat /\ d.sequence \in Nat \cup {None}
  BY DEF DataSet
<1>2. CASE d.keep_alive
  <2>1. {"flags2"} \in SUBSET FlagNames /\ {"keep alive"} \in SUBSET FlagNames
    BY DEF FlagNames
  <2>2. "flags1" \in FlagKinds /\ "flags2" \in FlagKinds /\ 1 \in Nat
    BY DEF FlagKinds
  <2>3. Cell("flags1", {"flags2"}, 1) \in Seq(Cells) /\ Cell("flags2", {"keep alive"}, 1) \in Seq(Cells)
    BY <2>1, <2>2, FlagsCell, Zenon
  <2>4. QED
    BY <1>2, <2>3, Joined, Zenon DEF DataSetMessage
<1>3. CASE ~d.keep_alive
  <2>1. flags \in SUBSET FlagNames
    BY DEF FlagNames, Flag
  <2>2. bodies \in Seq(Seq(Cells))
    <3>1. \A i \in 1..Len(d.fields) : d.fields[i] \in FieldValue
      BY <1>1
    <3>2. \A i \in 1..Len(d.fields) :
             (IF dv THEN DataValue(d.fields[i]) ELSE Variant(d.fields[i])) \in Seq(Cells)
      BY <3>1, VariantCells, DataValueCells, Zenon
    <3>3. QED
      BY <1>1, <3>2
  <2> HIDE DEF flags, bodies, dv
  <2>3. Cell("flags1", flags, 1) \in Seq(Cells)
    <3>1. "flags1" \in FlagKinds /\ 1 \in Nat
      BY DEF FlagKinds
    <3>2. QED
      BY <2>1, <3>1, FlagsCell, Zenon
  <2>4. d.sequence # None => Cell("sequence", d.sequence % SeqModulus, 2) \in Seq(Cells)
    <3>1. d.sequence # None => d.sequence % SeqModulus \in Residues
      BY <1>1, Residue
    <3>2. QED
      BY <3>1, SequenceCell, Zenon
  <2>5. Cell("field count", Len(d.fields), 2) \in Seq(Cells)
    <3>1. "field count" \in Numbers /\ 2 \in Nat
      BY DEF Numbers
    <3>2. QED
      BY <1>1, <3>1, NumberCell, Zenon
  <2>6. FlattenSeq(bodies) \in Seq(Cells)
    BY <2>2, FlattenIsASequence
  <2>7. DataSetMessage(d, datavalue) =
          Cell("flags1", flags, 1)
          \o If(d.sequence # None, Cell("sequence", d.sequence % SeqModulus, 2))
          \o Cell("field count", Len(d.fields), 2) \o FlattenSeq(bodies)
    BY <1>3 DEF DataSetMessage, flags, bodies, dv
  <2>8. If(d.sequence # None, Cell("sequence", d.sequence % SeqModulus, 2)) \in Seq(Cells)
    BY <2>4, GivenCells, Zenon
  <2>9. Cell("flags1", flags, 1)
        \o If(d.sequence # None, Cell("sequence", d.sequence % SeqModulus, 2))
        \o Cell("field count", Len(d.fields), 2) \o FlattenSeq(bodies) \in Seq(Cells)
    BY <2>3, <2>5, <2>6, <2>8, Joined, Zenon
  <2>10. QED
    BY <2>7, <2>9
<1>4. QED
  BY <1>2, <1>3

\* There is one body of cells for each DataSetMessage.
LEMMA BodiesAreCells ==
    ASSUME NEW m, Encodable(m), NEW datavalue
    PROVE  /\ Bodies(m, datavalue) \in Seq(Seq(Cells))
           /\ Len(Bodies(m, datavalue)) = Len(m.messages)
<1>1. m.messages \in Seq(DataSet)
  BY DEF Encodable
<1>2. \A i \in 1..Len(m.messages) : DataSetMessage(m.messages[i], datavalue) \in Seq(Cells)
  <2>1. \A i \in 1..Len(m.messages) : m.messages[i] \in DataSet
    BY <1>1
  <2>2. QED
    BY <2>1, DataSetCells, Zenon
<1>3. QED
  BY <1>1, <1>2 DEF Bodies

\* The group header is cells.
LEMMA GroupCells ==
    ASSUME NEW m, Encodable(m)
    PROVE  GroupHeader(m) \in Seq(Cells)
<1> DEFINE flags == Flag(m.group # None, "group") \cup Flag(m.sequence # None, "group sequence")
<1>1. m.group \in Nat \cup {None} /\ m.sequence \in Nat \cup {None}
  BY DEF Encodable
<1>2. flags \in SUBSET FlagNames
  BY DEF Flag, FlagNames
<1>3. GroupHeader(m) =
        If(flags # {}, Cell("group flags", flags, 1)
            \o If(m.group # None, Cell("group", m.group, 2))
            \o If(m.sequence # None, Cell("group sequence", m.sequence % SeqModulus, 2)))
  BY DEF GroupHeader
<1> HIDE DEF flags
<1>4. Cell("group flags", flags, 1) \in Seq(Cells)
  <2>1. "group flags" \in FlagKinds /\ 1 \in Nat
    BY DEF FlagKinds
  <2>2. QED
    BY <1>2, <2>1, FlagsCell, Zenon
<1>5. Cell("group", m.group, 2) \in Seq(Cells)
  BY <1>1, GroupCell, Zenon
<1>6. m.sequence # None => Cell("group sequence", m.sequence % SeqModulus, 2) \in Seq(Cells)
  <2>1. m.sequence # None => m.sequence % SeqModulus \in Residues
    BY <1>1, Residue
  <2>2. QED
    BY <2>1, SequenceCell, Zenon
<1>7. QED
  BY <1>3, <1>4, <1>5, <1>6, Joined, GivenCells, ZenonT(30)

\* What the encoder makes is cells, with a signature behind them if there is a key.
LEMMA EncodeCells ==
    ASSUME NEW m, Encodable(m), NEW datavalue, NEW key
    PROVE  \E cells \in Seq(Cells) : Encode(m, datavalue, key) = Signed(cells, key)
<1> DEFINE extended == m.pid_type # "BYTE" \/ key # None
           bodies == Bodies(m, datavalue)
           sizes == [i \in DOMAIN bodies |->
                       [kind |-> "size", value |-> Width(bodies[i]), width |-> 2]]
           writers == [i \in DOMAIN m.messages |->
                       [kind |-> "writer id", value |-> m.messages[i].writer, width |-> 2]]
           flags == {"publisher id", "payload header"} \cup Flag(extended, "extended")
                    \cup Flag(m.group # None \/ m.sequence # None, "group header")
           ext1 == {m.pid_type} \cup Flag(key # None, "security")
           security == Cell("security flags", {"signed"}, 1) \o Cell("token", 1, 4)
                       \o Cell("nonce length", 8, 1) \o Cell("nonce", None, 8)
           cells == Cell("flags", flags, 1) \o If(extended, Cell("ext1", ext1, 1))
                    \o Cell("publisher id", m.pid, PidSize[m.pid_type]) \o GroupHeader(m)
                    \o Cell("count", Len(m.messages), 1) \o writers \o If(key # None, security)
                    \o If(Len(bodies) > 1, sizes) \o FlattenSeq(bodies)
<1>1. Encode(m, datavalue, key) = Signed(cells, key)
  BY DEF Encode
<1>2. /\ m.pid \in Nat /\ m.pid_type \in DOMAIN PidSize /\ PidSize[m.pid_type] \in Nat
      /\ m.messages \in Seq(DataSet) /\ Len(m.messages) \in Nat
  BY DEF Encodable, PidSize
<1>3. flags \in SUBSET FlagNames /\ ext1 \in SUBSET FlagNames /\ {"signed"} \in SUBSET FlagNames
  BY <1>2 DEF FlagNames, Flag
<1>4. bodies \in Seq(Seq(Cells))
  BY BodiesAreCells
<1>5. sizes \in Seq(Cells)
  <2> HIDE DEF bodies
  <2>1. \A i \in 1..Len(bodies) : Width(bodies[i]) \in Nat
    <3>1. \A i \in 1..Len(bodies) : bodies[i] \in Seq(Cells)
      BY <1>4
    <3>2. \A c \in Cells : c.width \in Nat
      BY CellKinds
    <3>3. QED
      BY <3>1, <3>2, WidthIsNatural
  <2>2. \A i \in 1..Len(bodies) :
           [kind |-> "size", value |-> Width(bodies[i]), width |-> 2] \in Cells
    BY <2>1 DEF Cells, Numbers
  <2>3. QED
    BY <1>4, <2>2
<1>6. writers \in Seq(Cells)
  <2>1. \A i \in 1..Len(m.messages) : m.messages[i].writer \in Nat
    <3>1. \A i \in 1..Len(m.messages) : m.messages[i] \in DataSet
      BY <1>2
    <3>2. QED
      BY <3>1 DEF DataSet
  <2>2. \A i \in 1..Len(m.messages) :
           [kind |-> "writer id", value |-> m.messages[i].writer, width |-> 2] \in Cells
    BY <2>1 DEF Cells, Numbers
  <2>3. DOMAIN m.messages = 1..Len(m.messages)
    BY <1>2
  <2>4. writers = [i \in 1..Len(m.messages) |->
                     [kind |-> "writer id", value |-> m.messages[i].writer, width |-> 2]]
    BY <2>3
  <2> HIDE DEF writers
  <2>5. writers \in [1..Len(m.messages) -> Cells]
    BY <2>2, <2>4, Zenon
  <2>6. QED
    BY <1>2, <2>5
<1>7. FlattenSeq(bodies) \in Seq(Cells)
  BY <1>4, FlattenIsASequence
<1>8. GroupHeader(m) \in Seq(Cells)
  BY GroupCells
<1> HIDE DEF extended, bodies, sizes, writers, flags, ext1
<1>9. /\ {"flags", "ext1", "security flags"} \subseteq FlagKinds
      /\ {"publisher id", "count", "token", "nonce length"} \subseteq Numbers
      /\ "nonce" \in Skips /\ {1, 4, 8} \subseteq Nat
  BY DEF FlagKinds, Numbers, Skips
<1>10. /\ Cell("flags", flags, 1) \in Seq(Cells) /\ Cell("ext1", ext1, 1) \in Seq(Cells)
       /\ Cell("security flags", {"signed"}, 1) \in Seq(Cells)
  BY <1>3, <1>9, FlagsCell
<1>11. /\ Cell("publisher id", m.pid, PidSize[m.pid_type]) \in Seq(Cells)
       /\ Cell("count", Len(m.messages), 1) \in Seq(Cells)
       /\ Cell("token", 1, 4) \in Seq(Cells) /\ Cell("nonce length", 8, 1) \in Seq(Cells)
  BY <1>2, <1>9, NumberCell
<1>12. Cell("nonce", None, 8) \in Seq(Cells)
  BY <1>9, SkippedCell
<1>13. security \in Seq(Cells)
  BY <1>10, <1>11, <1>12, Joined, Zenon
<1> HIDE DEF security
<1>14. cells \in Seq(Cells)
  BY <1>5, <1>6, <1>7, <1>8, <1>10, <1>11, <1>13, Joined, GivenCells, Zenon
<1> HIDE DEF cells
<1>15. QED
  BY <1>1, <1>14

-----------------------------------------------------------------------------
(* A frame of another make is made of cells as well. *)

\* The body that another maker of frames gives its one message is cells.
LEMMA ForeignBodyCells ==
    ASSUME NEW d \in DataSet, Len(d.fields) = 1, d.fields[1].value \in Values,
           d.sequence \in Residues, NEW X
    PROVE  ForeignBody(d, X) \in Seq(Cells)
<1> DEFINE f == d.fields[1]
           flags1 == {"flags2", "sequence", IF "raw" \in X THEN "raw" ELSE "DataValue"}
                     \cup (X \cap {"status", "major", "minor"})
           flags2 == X \cap {"keep alive", "delta", "timestamp", "picoseconds"}
           mask == {"value", "status", "server time", "picoseconds"}
           variant == <<IF "matrix" \in X THEN "matrix" ELSE "scalar", "BYTE">>
           fields == Cell("field count", 1, 2) \o Cell("DataValue", mask, 1)
                     \o Cell("variant", variant, 1) \o Scalars("BYTE", <<f.value>>)
                     \o Cell("status", f.status, 4) \o Cell("server time", None, 8)
                     \o Cell("picoseconds", None, 2)
           cells == Cell("flags1", flags1, 1) \o Cell("flags2", flags2, 1)
                    \o Cell("sequence", d.sequence, 2)
                    \o If("timestamp" \in X, Cell("timestamp", None, 8))
                    \o If("picoseconds" \in X, Cell("picoseconds", None, 2))
                    \o If("status" \in X, Cell("message status", None, 2))
                    \o If("major" \in X, Cell("major", None, 4))
                    \o If("minor" \in X, Cell("minor", None, 4))
                    \o If(X \cap {"keep alive"} = {}, fields)
<1>1. ForeignBody(d, X) = cells
  BY DEF ForeignBody
<1>2. flags1 \in SUBSET FlagNames /\ flags2 \in SUBSET FlagNames /\ mask \in SUBSET FlagNames
  BY DEF FlagNames
<1>3. /\ d.sequence \in Residues /\ f.status \in {"good", "bad"}
      /\ <<f.value>> \in Seq(Values \cup {Damaged})
  <2>1. d.fields \in Seq(FieldValue)
    BY DEF DataSet
  <2>2. f \in FieldValue
    BY <2>1
  <2>3. QED
    BY <2>1, <2>2 DEF FieldValue
<1>4. variant \in Variants /\ "BYTE" \in DOMAIN ScalarSize
  BY DEF Variants, ScalarSize
<1> HIDE DEF f, flags1, flags2, mask, variant
<1>5. /\ {"flags1", "flags2", "DataValue"} \subseteq FlagKinds /\ "field count" \in Numbers
      /\ {"timestamp", "picoseconds", "message status", "major", "minor", "server time"} \subseteq Skips
      /\ {1, 2, 4, 8} \subseteq Nat
  BY DEF FlagKinds, Numbers, Skips
<1>6. /\ Cell("flags1", flags1, 1) \in Seq(Cells) /\ Cell("flags2", flags2, 1) \in Seq(Cells)
      /\ Cell("DataValue", mask, 1) \in Seq(Cells)
  BY <1>2, <1>5, FlagsCell
<1>7. /\ Cell("sequence", d.sequence, 2) \in Seq(Cells) /\ Cell("field count", 1, 2) \in Seq(Cells)
      /\ Cell("status", f.status, 4) \in Seq(Cells) /\ Cell("variant", variant, 1) \in Seq(Cells)
      /\ Scalars("BYTE", <<f.value>>) \in Seq(Cells)
  <2>1. Cell("sequence", d.sequence, 2) \in Seq(Cells)
    BY <1>3, SequenceCell, Zenon
  <2>2. Cell("field count", 1, 2) \in Seq(Cells)
    BY <1>5, NumberCell
  <2>3. Cell("variant", variant, 1) \in Seq(Cells)
    BY <1>4 DEF Cell, Cells
  <2>4. Cell("status", f.status, 4) \in Seq(Cells)
    BY <1>3, StatusCell
  <2>5. Scalars("BYTE", <<f.value>>) \in Seq(Cells)
    BY <1>3, <1>4, ScalarCells, Zenon
  <2>6. QED
    BY <2>1, <2>2, <2>3, <2>4, <2>5
<1>8. /\ Cell("timestamp", None, 8) \in Seq(Cells) /\ Cell("picoseconds", None, 2) \in Seq(Cells)
      /\ Cell("message status", None, 2) \in Seq(Cells) /\ Cell("major", None, 4) \in Seq(Cells)
      /\ Cell("minor", None, 4) \in Seq(Cells) /\ Cell("server time", None, 8) \in Seq(Cells)
  BY <1>5, SkippedCell
<1>9. fields \in Seq(Cells)
  BY <1>6, <1>7, <1>8, Joined, Zenon
<1> HIDE DEF fields
<1>10. cells \in Seq(Cells)
  BY <1>6, <1>7, <1>8, <1>9, Joined, GivenCells, Zenon
<1> HIDE DEF cells
<1>11. QED
  BY <1>1, <1>10

\* A frame of another maker is cells, with a signature behind them if there is a key.
LEMMA ForeignCells ==
    ASSUME NEW m, Encodable(m), Len(m.messages) = 1, Len(m.messages[1].fields) = 1,
           m.messages[1].fields[1].value \in Values,
           m.messages[1].sequence \in Residues, NEW key, NEW X
    PROVE  \E cells \in Seq(Cells) : Foreign(m, key, X) = Signed(cells, key)
<1> DEFINE flags == {"extended", "group header"} \cup (X \cap {"publisher id", "payload header"})
           ext1 == {m.pid_type} \cup (X \cap {"class id", "frame time", "frame picoseconds", "ext2"})
                   \cup Flag(key # None, "security")
           ext2 == X \cap {"chunk", "promoted", "discovery"}
           group == {"group", "group version", "number"}
           secure == {"signed", "footer"} \cup (X \cap {"encrypted"})
           security == Cell("security flags", secure, 1)
                       \o Cell("token", 7, 4) \o Cell("nonce length", 1, 1)
                       \o Cell("nonce", None, 1) \o Cell("footer size", None, 2)
           payload == Cell("count", 1, 1) \o Cell("writer id", m.messages[1].writer, 2)
           promoted == Cell("promoted size", 3, 2) \o Cell("promoted", None, 3)
           head ==
               Cell("flags", flags, 1) \o Cell("ext1", ext1, 1)
               \o If("ext2" \in X, Cell("ext2", ext2, 1))
               \o If("publisher id" \in X, Cell("publisher id", m.pid, PidSize[m.pid_type]))
               \o If("class id" \in X, Cell("class id", None, 16))
               \o Cell("group flags", group, 1) \o Cell("group", m.group, 2)
               \o Cell("group version", None, 4) \o Cell("number", None, 2)
           cells ==
               head \o If("payload header" \in X, payload)
               \o If("frame time" \in X, Cell("frame time", None, 8))
               \o If("frame picoseconds" \in X, Cell("frame picoseconds", None, 2))
               \o If("promoted" \in X, promoted)
               \o If(key # None, security) \o ForeignBody(m.messages[1], X)
<1>1. Foreign(m, key, X) = Signed(cells, key)
  BY DEF Foreign
<1>2. /\ m.pid \in Nat /\ m.pid_type \in DOMAIN PidSize /\ PidSize[m.pid_type] \in Nat
      /\ m.group \in Nat \cup {None} /\ m.messages \in Seq(DataSet)
  BY DEF Encodable, PidSize
<1>3. m.messages[1] \in DataSet
  BY <1>2
<1>4. m.messages[1].writer \in Nat /\ ForeignBody(m.messages[1], X) \in Seq(Cells)
  BY <1>3, ForeignBodyCells DEF DataSet
<1>5. /\ flags \in SUBSET FlagNames /\ ext1 \in SUBSET FlagNames /\ ext2 \in SUBSET FlagNames
      /\ group \in SUBSET FlagNames /\ secure \in SUBSET FlagNames
  BY <1>2 DEF FlagNames, Flag
<1> HIDE DEF flags, ext1, ext2, group, secure
<1>6. /\ {"flags", "ext1", "ext2", "group flags", "security flags"} \subseteq FlagKinds
      /\ {"publisher id", "count", "writer id", "token", "nonce length", "promoted size"}
         \subseteq Numbers
      /\ {"class id", "group version", "number", "frame time", "frame picoseconds", "promoted",
          "nonce", "footer size"} \subseteq Skips
      /\ {1, 2, 3, 4, 7, 8, 16} \subseteq Nat
  BY DEF FlagKinds, Numbers, Skips
<1>7. /\ Cell("flags", flags, 1) \in Seq(Cells) /\ Cell("ext1", ext1, 1) \in Seq(Cells)
      /\ Cell("ext2", ext2, 1) \in Seq(Cells) /\ Cell("group flags", group, 1) \in Seq(Cells)
      /\ Cell("security flags", secure, 1) \in Seq(Cells)
  BY <1>5, <1>6, FlagsCell
<1>8. /\ Cell("publisher id", m.pid, PidSize[m.pid_type]) \in Seq(Cells)
      /\ Cell("count", 1, 1) \in Seq(Cells)
      /\ Cell("writer id", m.messages[1].writer, 2) \in Seq(Cells)
      /\ Cell("token", 7, 4) \in Seq(Cells) /\ Cell("nonce length", 1, 1) \in Seq(Cells)
      /\ Cell("promoted size", 3, 2) \in Seq(Cells)
  BY <1>2, <1>4, <1>6, NumberCell
<1>9. /\ Cell("class id", None, 16) \in Seq(Cells) /\ Cell("group version", None, 4) \in Seq(Cells)
      /\ Cell("number", None, 2) \in Seq(Cells) /\ Cell("frame time", None, 8) \in Seq(Cells)
      /\ Cell("frame picoseconds", None, 2) \in Seq(Cells)
      /\ Cell("promoted", None, 3) \in Seq(Cells) /\ Cell("nonce", None, 1) \in Seq(Cells)
      /\ Cell("footer size", None, 2) \in Seq(Cells)
  BY <1>6, SkippedCell
<1>10. Cell("group", m.group, 2) \in Seq(Cells)
  BY <1>2, GroupCell, Zenon
<1>11. security \in Seq(Cells) /\ payload \in Seq(Cells) /\ promoted \in Seq(Cells)
  BY <1>7, <1>8, <1>9, Joined, Zenon
<1> HIDE DEF security, payload, promoted
<1>12. head \in Seq(Cells)
  BY <1>7, <1>8, <1>9, <1>10, Joined, GivenCells, Zenon
<1> HIDE DEF head
<1>13. cells \in Seq(Cells)
  BY <1>4, <1>9, <1>11, <1>12, Joined, GivenCells, Zenon
<1> HIDE DEF cells
<1>14. QED
  BY <1>1, <1>13

-----------------------------------------------------------------------------
(* The inductive invariant, and what it says of the datagram a section reads. *)

Sealed(body, over, key) ==
    body \o Cell("signature", [key |-> key, over |-> over], SignatureLength)

\* Cells, or cells before a signature over those that were sent.
Datagram(f) ==
    \/ f \in Seq(Cells)
    \/ \E body, over \in Seq(Cells) : \E key : f = Sealed(body, over, key)

Sending == pc \in {"send", "refused"}

\* What the datagram is: cells, whole or what is left of them, or all of them, or
\* cells of which one was changed, before the signature over those sent.
Framed ==
    \/ Sending
    \/ frame \in Seq(Cells)
    \/ \E body, over \in Seq(Cells) :
          frame = Sealed(body, over, sent.key) /\ (body = over => sent.fate = "whole")

Whole ==
    /\ pc \in {"send", "under way"} => sent.fate = "whole"
    /\ pc = "under way" => \/ frame \in Seq(Cells)
                           \/ \E cells \in Seq(Cells) : frame = Sealed(cells, cells, sent.key)

\* The records of the decoder have the fields they start with.
ReaderTyped ==
    /\ reader = [pos |-> reader.pos, end |-> reader.end, on |-> reader.on,
                 count |-> reader.count, writers |-> reader.writers, left |-> reader.left]
    /\ reader.pos \in Nat /\ reader.end \in Nat /\ reader.count \in Nat /\ reader.left \in Nat
    /\ reader.writers \in Seq(Nat)

MessageTyped ==
    /\ message = [pid |-> message.pid, pid_type |-> message.pid_type, group |-> message.group,
                  sequence |-> message.sequence, messages |-> message.messages,
                  signed |-> message.signed, verified |-> message.verified,
                  token |-> message.token]
    /\ Encodable(message)

Typed ==
    /\ pc \in Sections \cup Ends \cup {"send", "refused", "under way"}
    /\ receiver \in Receivers /\ Sendable(sent) /\ ReaderTyped /\ MessageTyped

\* How far the decoder is: there are messages to come, or fields of the last.
Progress ==
    /\ pc \in Sections \cup Ends => reader.pos <= Len(frame)
    /\ Len(message.messages) <= reader.count
    /\ pc \in Sections \ {"message", "field"} => message.messages = <<>>
    /\ pc \in {"times", "security", "sizes"} => reader.count > 0
    /\ pc = "message" => Len(message.messages) < reader.count
    /\ pc = "field" => message.messages # <<>> /\ reader.left > 0
    /\ reader.writers = <<>> \/ Len(reader.writers) = reader.count

\* Past the security header of a receiver that requires a signature or has verified one.
Trusted ==
    /\ pc \in {"sizes", "message", "field", "decoded"}
    /\ receiver.require \/ message.verified # None
    => sent.key = receiver.key /\ sent.fate = "whole"

Inv == Typed /\ Framed /\ Whole /\ Progress /\ Trusted

-----------------------------------------------------------------------------

\* Cells before a signature: what is before it, and what the last cell is.
LEMMA SealedFront ==
    ASSUME NEW body \in Seq(Cells), NEW over, NEW key
    PROVE  /\ Len(Sealed(body, over, key)) = Len(body) + 1 /\ Len(body) \in Nat
           /\ \A i \in 1..Len(body) : Sealed(body, over, key)[i] = body[i] /\ body[i] \in Cells
<1> DEFINE s == [kind |-> "signature", value |-> [key |-> key, over |-> over],
                 width |-> SignatureLength]
<1>1. Sealed(body, over, key) = body \o <<s>>
  BY DEF Sealed, Cell
<1> HIDE DEF s
<1>2. /\ Len(body \o <<s>>) = Len(body) + 1 /\ Len(body) \in Nat
      /\ \A i \in 1..Len(body) : (body \o <<s>>)[i] = body[i] /\ body[i] \in Cells
  OBVIOUS
<1>3. QED
  BY <1>1, <1>2

\* What seals a frame is the last of it, and has a size.
LEMMA SealedLast ==
    ASSUME NEW body \in Seq(Cells), NEW over, NEW key,
           NEW last, last = Sealed(body, over, key)[Len(body) + 1]
    PROVE  /\ last.width \in Nat
           /\ Sealed(body, over, key) \in Seq(Cells \cup {last})
<1> DEFINE s == [kind |-> "signature", value |-> [key |-> key, over |-> over],
                 width |-> SignatureLength]
<1>1. Sealed(body, over, key) = body \o <<s>>
  BY DEF Sealed, Cell
<1>2. s.width \in Nat
  BY DEF SignatureLength
<1> HIDE DEF s
<1>3. (body \o <<s>>)[Len(body) + 1] = s
  OBVIOUS
<1>4. body \o <<s>> \in Seq(Cells \cup {s})
  <2>1. body \in Seq(Cells \cup {s}) /\ <<s>> \in Seq(Cells \cup {s})
    OBVIOUS
  <2>2. QED
    BY <2>1, Joined, Zenon
<1>5. last = s
  BY <1>1, <1>3
<1>6. QED
  BY <1>1, <1>2, <1>4, <1>5

\* What seals a frame is a signature,
LEMMA SealedKind ==
    ASSUME NEW body \in Seq(Cells), NEW over, NEW key
    PROVE  Sealed(body, over, key)[Len(body) + 1].kind = "signature"
<1> DEFINE s == [kind |-> "signature", value |-> [key |-> key, over |-> over],
                 width |-> SignatureLength]
<1>1. Sealed(body, over, key) = body \o <<s>>
  BY DEF Sealed, Cell
<1>2. s.kind = "signature"
  OBVIOUS
<1> HIDE DEF s
<1>3. (body \o <<s>>)[Len(body) + 1] = s
  OBVIOUS
<1>4. QED
  BY <1>1, <1>2, <1>3

\* and names the key and what it was made over.
LEMMA SealedValue ==
    ASSUME NEW body \in Seq(Cells), NEW over, NEW key
    PROVE  Sealed(body, over, key)[Len(body) + 1].value = [key |-> key, over |-> over]
<1> DEFINE s == [kind |-> "signature", value |-> [key |-> key, over |-> over],
                 width |-> SignatureLength]
<1>1. Sealed(body, over, key) = body \o <<s>>
  BY DEF Sealed, Cell
<1>2. s.value = [key |-> key, over |-> over]
  OBVIOUS
<1> HIDE DEF s
<1>3. (body \o <<s>>)[Len(body) + 1] = s
  OBVIOUS
<1>4. QED
  BY <1>1, <1>2, <1>3

\* A datagram, and the front of one, has a width.
LEMMA WidthOfFront ==
    ASSUME NEW f, Datagram(f)
    PROVE  /\ Len(f) \in Nat /\ Width(f) \in Nat
           /\ \A n \in 0..Len(f) : Width(SubSeq(f, 1, n)) \in Nat
           /\ \E S : f \in Seq(S)
<1>1. CASE f \in Seq(Cells)
  <2>1. \A n \in 0..Len(f) : SubSeq(f, 1, n) \in Seq(Cells)
    BY <1>1
  <2>2. \A c \in Cells : c.width \in Nat
    BY CellKinds
  <2>3. Len(f) \in Nat
    BY <1>1
  <2>4. QED
    BY <1>1, <2>1, <2>2, <2>3, WidthIsNatural
<1>2. ASSUME NEW body \in Seq(Cells), NEW over, NEW key, f = Sealed(body, over, key)
      PROVE  /\ Len(f) \in Nat /\ Width(f) \in Nat
             /\ \A n \in 0..Len(f) : Width(SubSeq(f, 1, n)) \in Nat
             /\ \E S : f \in Seq(S)
  <2> DEFINE s == Sealed(body, over, key)[Len(body) + 1]
             T == Cells \cup {s}
  <2>1. f \in Seq(T)
    BY <1>2, SealedLast
  <2>2. s.width \in Nat
    BY SealedLast
  <2> HIDE DEF s
  <2>3. \A c \in T : c.width \in Nat
    BY <2>2, CellKinds
  <2> HIDE DEF T
  <2>4. Len(f) \in Nat /\ \A n \in 0..Len(f) : SubSeq(f, 1, n) \in Seq(T)
    BY <2>1
  <2>5. QED
    BY <2>1, <2>3, <2>4, WidthIsNatural
<1>3. QED
  BY <1>1, <1>2, Zenon DEF Datagram

\* A cell of a datagram is one of those, or its signature.
LEMMA CellAt ==
    ASSUME NEW f, Datagram(f), NEW i \in 1..Len(f)
    PROVE  f[i] \in Cells \/ f[i].kind = "signature"
<1>1. CASE f \in Seq(Cells)
  BY <1>1
<1>2. ASSUME NEW body \in Seq(Cells), NEW over, NEW key, f = Sealed(body, over, key)
      PROVE  f[i] \in Cells \/ f[i].kind = "signature"
  <2>1. Len(f) = Len(body) + 1 /\ Len(body) \in Nat
    BY <1>2, SealedFront
  <2>2. i \in 1..Len(body) \/ i = Len(body) + 1
    BY <2>1
  <2>3. Sealed(body, over, key)[Len(body) + 1].kind = "signature"
    BY SealedKind
  <2>5. \A j \in 1..Len(body) : f[j] \in Cells
    BY <1>2, SealedFront
  <2>6. QED
    BY <1>2, <2>2, <2>3, <2>5
<1>3. QED
  BY <1>1, <1>2, Zenon DEF Datagram

\* Past sending, the frame is a datagram.
LEMMA FrameIsDatagram ==
    ASSUME Framed, ~Sending
    PROVE  Datagram(frame) /\ Len(frame) \in Nat
<1>1. Datagram(frame)
  BY Zenon DEF Framed, Datagram
<1>2. QED
  BY <1>1, WidthOfFront

(* What a section reads is what it takes. *)

Kinds == Numbers \cup FlagKinds \cup Skips \cup {"sequence", "group sequence", "group", "status", "scalar", "variant"}

\* What a section takes, with widths of S.
Wanted(S) == Seq(Kinds \X S)

\* Cells that are wanted: one, and more after them.
LEMMA OneWanted ==
    ASSUME NEW S, NEW kind \in Kinds, NEW width \in S
    PROVE  <<<<kind, width>>>> \in Wanted(S)
BY DEF Wanted

\* What is wanted may be joined, and may depend on a condition.
LEMMA JoinWanted ==
    ASSUME NEW S
    PROVE  /\ \A want, more \in Wanted(S) : want \o more \in Wanted(S)
           /\ \A given, want : (given => want \in Wanted(S)) => If(given, want) \in Wanted(S)
BY DEF Wanted, If

\* What a section took is cells of the kinds it wanted.
LEMMA ReadAsWanted ==
    ASSUME Framed, ~Sending, reader.pos \in Nat,
           NEW S, NEW want \in Wanted(S), Taken(want), NEW i \in 1..Len(want)
    PROVE  /\ reader.pos + i \in 1..Len(frame)
           /\ frame[reader.pos + i] \in Cells /\ frame[reader.pos + i].kind = want[i][1]
<1>1. /\ Len(want) \in Nat /\ DOMAIN want = 1..Len(want) /\ want[i] \in Kinds \X S
      /\ want[i][1] \in Kinds
  BY DEF Wanted
<1>2. "signature" \notin Kinds
  BY DEF Kinds, Numbers, FlagKinds, Skips
<1>3. frame[reader.pos + i].kind = want[i][1] /\ reader.pos + Len(want) <= Len(frame)
  BY <1>1 DEF Taken, AsTaken, There
<1>4. Datagram(frame) /\ Len(frame) \in Nat
  BY FrameIsDatagram
<1>5. reader.pos + i \in 1..Len(frame)
  BY <1>1, <1>3, <1>4
<1>6. QED
  BY <1>1, <1>2, <1>3, <1>4, <1>5, CellAt

\* What a section gets of a kind, or the default, has the type of the kind.
LEMMA GotAsWanted ==
    ASSUME Framed, ~Sending, reader.pos \in Nat,
           NEW S, NEW want \in Wanted(S), Taken(want), NEW kind, NEW default
    PROVE  \/ Got(want, kind, default) = default
           \/ /\ kind \in Numbers => Got(want, kind, default) \in Nat
              /\ kind \in {"sequence", "group sequence"} =>
                    Got(want, kind, default) \in Residues
              /\ kind = "group" => Got(want, kind, default) \in Nat \cup {None}
              /\ kind = "status" => Got(want, kind, default) \in {"good", "bad"}
<1>1. CASE ~\E i \in DOMAIN want : want[i][1] = kind
  BY <1>1 DEF Got
<1>2. CASE \E i \in DOMAIN want : want[i][1] = kind
  <2> DEFINE n == CHOOSE i \in DOMAIN want : want[i][1] = kind
  <2>1. n \in DOMAIN want /\ want[n][1] = kind
    BY <1>2
  <2>2. Got(want, kind, default) = frame[reader.pos + n].value
    BY <1>2 DEF Got
  <2> HIDE DEF n
  <2>3. n \in 1..Len(want)
    BY <2>1 DEF Wanted
  <2>4. frame[reader.pos + n] \in Cells /\ frame[reader.pos + n].kind = kind
    BY <2>1, <2>3, ReadAsWanted
  <2>5. QED
    BY <2>2, <2>4, CellKinds
<1>3. QED
  BY <1>1, <1>2

\* Past what was taken, the reader is within the frame.
LEMMA PassWithin ==
    ASSUME Framed, ~Sending, ReaderTyped, NEW S, NEW want \in Wanted(S), Taken(want)
    PROVE  /\ reader.pos + Len(want) \in 0..Len(frame) /\ reader.pos + Len(want) \in Nat
           /\ Pass(want) = [pos |-> reader.pos + Len(want), end |-> reader.end, on |-> reader.on,
                            count |-> reader.count, writers |-> reader.writers,
                            left |-> reader.left]
<1>1. Len(want) \in Nat /\ reader.pos \in Nat /\ Len(frame) \in Nat
  BY FrameIsDatagram DEF ReaderTyped, Wanted
<1>2. reader.pos + Len(want) <= Len(frame)
  BY DEF Taken, There
<1>3. PICK p, e, o, c, w, l :
        reader = [pos |-> p, end |-> e, on |-> o, count |-> c, writers |-> w, left |-> l]
  BY Zenon DEF ReaderTyped
<1>4. Pass(want) = [pos |-> p + Len(want), end |-> e, on |-> o, count |-> c, writers |-> w,
                    left |-> l]
  BY <1>3 DEF Pass
<1>5. QED
  BY <1>1, <1>2, <1>3, <1>4

-----------------------------------------------------------------------------
(* The steps before the decoder: what is sent, relayed or refused, and the frame cut short. *)

\* Signing leaves cells alone or seals them.
LEMMA SignedCells ==
    ASSUME NEW cells \in Seq(Cells), NEW key
    PROVE  \/ Signed(cells, key) = cells
           \/ Signed(cells, key) = Sealed(cells, cells, key)
<1>1. CASE key # None
  BY <1>1 DEF Signed, Sealed, If
<1>2. CASE key = None
  <2>1. cells \o <<>> = cells
    OBVIOUS
  <2>2. QED
    BY <1>2, <2>1 DEF Signed, If
<1>3. QED
  BY <1>1, <1>2

\* Only the fate of what is sent changes.
LEMMA Fated ==
    ASSUME NEW s, Sendable(s), NEW fate
    PROVE  /\ Sendable([s EXCEPT !.fate = fate]) /\ [s EXCEPT !.fate = fate].fate = fate
           /\ [s EXCEPT !.fate = fate].key = s.key
<1>1. PICK m, d, k, o, f : s = [message |-> m, datavalue |-> d, key |-> k, options |-> o, fate |-> f]
  BY Zenon DEF Sendable
<1> DEFINE t == [message |-> m, datavalue |-> d, key |-> k, options |-> o, fate |-> fate]
<1>2. [s EXCEPT !.fate = fate] = t
  BY <1>1
<1>3. s.message = m /\ s.options = o /\ s.key = k
  BY <1>1
<1>4. /\ t.message = m /\ t.options = o /\ t.key = k /\ t.fate = fate /\ t.datavalue = d
  OBVIOUS
<1>5. t = [message |-> t.message, datavalue |-> t.datavalue, key |-> t.key,
           options |-> t.options, fate |-> t.fate]
  OBVIOUS
<1> HIDE DEF t
<1>6. Sendable(t)
  BY <1>3, <1>4, <1>5, Zenon DEF Sendable
<1>7. QED
  BY <1>2, <1>3, <1>4, <1>6

\* A decoder starts with an empty message.
LEMMA BlankTyped ==
    message' = Blank => MessageTyped' /\ message'.messages = <<>>
<1>1. "BYTE" \in DOMAIN PidSize
  BY DEF PidSize
<1>2. Encodable(Blank)
  BY <1>1 DEF Encodable, Blank
<1>3. Blank = [pid |-> Blank.pid, pid_type |-> Blank.pid_type, group |-> Blank.group,
               sequence |-> Blank.sequence, messages |-> Blank.messages,
               signed |-> Blank.signed, verified |-> Blank.verified, token |-> Blank.token]
  BY DEF Blank
<1>4. Blank.messages = <<>>
  BY DEF Blank
<1>5. QED
  BY <1>2, <1>3, <1>4 DEF MessageTyped

\* At the start nothing is under way.
LEMMA InvInit == Init => Inv
<1> SUFFICES ASSUME Init PROVE Inv
  OBVIOUS
<1>1. Encodable(Blank) /\ Blank.messages = <<>>
  BY DEF Encodable, Blank, PidSize
<1>2. MessageTyped /\ message.messages = <<>>
  <2>1. Blank = [pid |-> Blank.pid, pid_type |-> Blank.pid_type, group |-> Blank.group,
                 sequence |-> Blank.sequence, messages |-> Blank.messages,
                 signed |-> Blank.signed, verified |-> Blank.verified, token |-> Blank.token]
    BY DEF Blank
  <2>2. QED
    BY <1>1, <2>1 DEF Init, MessageTyped
<1>3. ReaderTyped /\ reader.count = 1 /\ reader.writers = <<>>
  BY DEF Init, ReaderTyped
<1>4. Sendable(sent) /\ sent.fate = "whole"
  <2>1. sent \in [message : Message, datavalue : BOOLEAN, key : {sent.key},
                  options : {sent.options}, fate : {"whole"}]
    BY WireConstants DEF Init
  <2>2. sent.message \in Message /\ sent.fate = "whole"
    BY <2>1
  <2>3. sent = [message |-> sent.message, datavalue |-> sent.datavalue, key |-> sent.key,
                options |-> sent.options, fate |-> sent.fate]
    BY <2>1
  <2>4. Encodable(sent.message)
    BY <2>2 DEF Encodable, Message
  <2>5. QED
    BY <2>2, <2>3, <2>4, WireConstants DEF Init, Sendable
<1>5. pc = "send"
  BY DEF Init
<1>6. Typed
  BY <1>2, <1>3, <1>4, <1>5 DEF Typed, Init
<1>7. Progress
  BY <1>2, <1>3, <1>5 DEF Progress, Sections, Ends
<1>8. QED
  BY <1>4, <1>5, <1>6, <1>7 DEF Inv, Framed, Sending, Whole, Trusted

\* What is sent is cells, sealed or not, and whole.
LEMMA InvSends == Inv /\ Sends => Inv'
<1> SUFFICES ASSUME Inv, Sends PROVE Inv'
  OBVIOUS
<1>1. UNCHANGED <<sent, receiver, reader, message>> /\ pc = "send" /\ pc' \in {"refused", "under way"}
  BY DEF Sends
<1>2. Typed'
  BY <1>1 DEF Inv, Typed, ReaderTyped, MessageTyped
<1>3. Progress'
  BY <1>1 DEF Inv, Progress, Sections, Ends
<1>4. Trusted' /\ sent'.fate = "whole"
  BY <1>1 DEF Inv, Trusted, Whole
<1>5. CASE pc' = "refused"
  BY <1>2, <1>3, <1>4, <1>5 DEF Inv, Framed, Sending, Whole
<1>6. CASE pc' # "refused"
  <2>1. frame' = IF sent.options = None THEN Encode(sent.message, sent.datavalue, sent.key)
                 ELSE Foreign(sent.message, sent.key, sent.options)
    BY <1>1, <1>6 DEF Sends
  <2>2. \E cells \in Seq(Cells) : frame' = Signed(cells, sent.key)
    <3>1. Sendable(sent) /\ Encodable(sent.message)
      BY DEF Inv, Typed, Sendable
    <3>2. CASE sent.options = None
      BY <2>1, <3>1, <3>2, EncodeCells
    <3>3. CASE sent.options # None
      <4>1. Expressible(sent.message, sent.options)
        BY <3>1, <3>3 DEF Sendable
      <4>2. /\ Len(sent.message.messages) = 1 /\ Len(sent.message.messages[1].fields) = 1
            /\ sent.message.messages[1].fields[1].value \in Values
            /\ sent.message.messages[1].sequence \in Residues
        BY <4>1 DEF Expressible, Residues
      <4>3. frame' = Foreign(sent.message, sent.key, sent.options)
        BY <2>1, <3>3
      <4>4. QED
        BY <3>1, <4>2, <4>3, ForeignCells, Zenon
    <3>4. QED
      BY <3>2, <3>3
  <2>3. \/ frame' \in Seq(Cells)
        \/ \E cells \in Seq(Cells) : frame' = Sealed(cells, cells, sent'.key)
    BY <1>1, <2>2, SignedCells
  <2>4. Framed' /\ Whole'
    BY <1>4, <2>3, Zenon DEF Framed, Whole
  <2>5. QED
    BY <1>2, <1>3, <1>4, <2>4 DEF Inv
<1>7. QED
  BY <1>5, <1>6

\* A relay sends again what it decoded.
LEMMA InvRelay == Inv /\ Relay => Inv'
<1> SUFFICES ASSUME Inv, Relay PROVE Inv'
  OBVIOUS
<1>1. /\ pc = "decoded" /\ pc' = "send" /\ receiver' \in Receivers
      /\ UNCHANGED <<frame, reader, message>>
  BY DEF Relay
<1>2. Sendable(sent') /\ sent'.fate = "whole"
  <2>1. PICK key : sent' = [message |-> message, datavalue |-> None, key |-> key,
                            options |-> None, fate |-> "whole"]
    BY DEF Relay
  <2>2. Encodable(message)
    BY DEF Inv, Typed, MessageTyped
  <2>3. QED
    BY <2>1, <2>2 DEF Sendable
<1>3. Typed'
  BY <1>1, <1>2 DEF Inv, Typed, ReaderTyped, MessageTyped
<1>4. Progress'
  BY <1>1 DEF Inv, Progress, Sections, Ends
<1>5. QED
  BY <1>1, <1>2, <1>3, <1>4 DEF Inv, Framed, Sending, Whole, Trusted

\* A section that fails leaves what was decoded.
LEMMA InvFails ==
    ASSUME Inv, pc \in Sections, NEW want, NEW supported, Fails(want, supported)
    PROVE  Inv'
<1>1. pc' \in {"garbled", "rejected"} /\ UNCHANGED <<sent, receiver, frame, reader, message, relayed>>
  BY DEF Fails
<1>2. Typed'
  BY <1>1 DEF Inv, Typed, ReaderTyped, MessageTyped, Ends
<1>3. Progress'
  BY <1>1 DEF Inv, Progress, Sections, Ends
<1>4. Framed'
  BY <1>1, Zenon DEF Inv, Framed, Sending, Sections
<1>5. QED
  BY <1>1, <1>2, <1>3, <1>4 DEF Inv, Whole, Trusted

-----------------------------------------------------------------------------
(* The steps of the decoder: what any of them leaves typed. *)

\* What a section makes of the records.
LEMMA ReaderMade ==
    ASSUME NEW p \in Nat, NEW e \in Nat, NEW o, NEW c \in Nat, NEW w \in Seq(Nat), NEW l \in Nat,
           reader' = [pos |-> p, end |-> e, on |-> o, count |-> c, writers |-> w, left |-> l]
    PROVE  /\ ReaderTyped' /\ reader'.pos = p /\ reader'.count = c /\ reader'.writers = w
           /\ reader'.left = l
BY DEF ReaderTyped

\* A message put together from typed parts is typed, and its parts are those.
LEMMA MessageMade ==
    ASSUME NEW p \in Nat, NEW t \in DOMAIN PidSize, NEW g \in Nat \cup {None},
           NEW s \in Nat \cup {None}, NEW m \in Seq(DataSet), NEW a, NEW v, NEW k,
           message' = [pid |-> p, pid_type |-> t, group |-> g, sequence |-> s, messages |-> m,
                       signed |-> a, verified |-> v, token |-> k]
    PROVE  MessageTyped' /\ message'.messages = m /\ message'.verified = v
<1> DEFINE r == [pid |-> p, pid_type |-> t, group |-> g, sequence |-> s, messages |-> m,
                 signed |-> a, verified |-> v, token |-> k]
<1>1. /\ r.pid = p /\ r.pid_type = t /\ r.group = g /\ r.sequence = s /\ r.messages = m
      /\ r.verified = v
      /\ r = [pid |-> r.pid, pid_type |-> r.pid_type, group |-> r.group,
              sequence |-> r.sequence, messages |-> r.messages, signed |-> r.signed,
              verified |-> r.verified, token |-> r.token]
  OBVIOUS
<1> HIDE DEF r
<1>2. Encodable(r)
  BY <1>1 DEF Encodable
<1>3. message' = r
  BY DEF r
<1>4. QED
  BY <1>1, <1>2, <1>3 DEF MessageTyped

\* A typed message, taken apart.
LEMMA MessageIs ==
    ASSUME MessageTyped
    PROVE  \E p \in Nat, t \in DOMAIN PidSize, g \in Nat \cup {None}, s \in Nat \cup {None},
              m \in Seq(DataSet),
              a \in {message.signed}, v \in {message.verified}, k \in {message.token} :
              message = [pid |-> p, pid_type |-> t, group |-> g, sequence |-> s, messages |-> m,
                         signed |-> a, verified |-> v, token |-> k]
BY Zenon DEF MessageTyped, Encodable

\* What arrives is whole, cut short or changed in one cell: a seal over all of it is
\* kept only when it is whole.
LEMMA InvArrive == Inv /\ Arrive => Inv'
<1> SUFFICES ASSUME Inv, Arrive PROVE Inv'
  OBVIOUS
<1>1. /\ pc = "under way" /\ pc' = "header" /\ UNCHANGED <<receiver, relayed>>
      /\ reader' = [pos |-> 0, end |-> Width(frame'), on |-> {}, count |-> 1, writers |-> <<>>,
                    left |-> 0]
      /\ message' = Blank
  BY DEF Arrive
<1>2. /\ Sendable(sent) /\ sent.fate = "whole"
      /\ \/ frame \in Seq(Cells)
         \/ \E cells \in Seq(Cells) : frame = Sealed(cells, cells, sent.key)
  BY <1>1 DEF Inv, Typed, Whole
<1>3. /\ Sendable(sent')
      /\ \/ frame' \in Seq(Cells)
         \/ \E body, over \in Seq(Cells) : /\ frame' = Sealed(body, over, sent'.key)
                                           /\ body = over => sent'.fate = "whole"
  <2>1. CASE UNCHANGED frame /\ UNCHANGED sent
    BY <1>2, <2>1, Zenon
  <2>2. ASSUME NEW k \in 0..Len(frame) - 1, frame' = SubSeq(frame, 1, k),
               sent' = [sent EXCEPT !.fate = "cut"]
        PROVE  Sendable(sent') /\ frame' \in Seq(Cells)
    <3>1. Sendable(sent')
      BY <1>2, <2>2, Fated
    <3>2. CASE frame \in Seq(Cells)
      BY <2>2, <3>1, <3>2
    <3>3. ASSUME NEW cells \in Seq(Cells), frame = Sealed(cells, cells, sent.key)
          PROVE  frame' \in Seq(Cells)
      <4>1. Len(frame) = Len(cells) + 1 /\ Len(cells) \in Nat
            /\ \A i \in 1..Len(cells) : frame[i] \in Cells
        BY <3>3, SealedFront
      <4>2. k \in Nat /\ k <= Len(cells) /\ \A i \in 1..k : frame[i] \in Cells
        BY <4>1
      <4>3. PICK S : frame \in Seq(S)
        <5>1. Datagram(frame)
          BY <3>3, Zenon DEF Datagram
        <5>2. QED
          BY <5>1, WidthOfFront
      <4>4. frame' = [i \in 1..k |-> frame[i]]
        BY <2>2, <4>1, <4>2, <4>3
      <4>5. QED
        BY <4>2, <4>4
    <3>4. QED
      BY <1>2, <3>1, <3>2, <3>3
  <2>3. ASSUME NEW i \in 1..Len(frame), frame[i].kind = "scalar", frame[i].value # Damaged,
               frame' = [frame EXCEPT ![i].value = Damaged],
               sent' = [sent EXCEPT !.fate = "damaged"]
        PROVE  /\ Sendable(sent')
               /\ \/ frame' \in Seq(Cells)
                  \/ \E body, over \in Seq(Cells) : /\ frame' = Sealed(body, over, sent'.key)
                                                    /\ body # over
    <3> DEFINE c == [frame[i] EXCEPT !.value = Damaged]
    <3>1. Sendable(sent') /\ sent'.key = sent.key
      BY <1>2, <2>3, Fated
    <3>2. frame[i] \in Cells
      <4>1. Datagram(frame)
        BY <1>2, Zenon DEF Datagram
      <4>2. frame[i] \in Cells \/ frame[i].kind = "signature"
        BY <4>1, CellAt
      <4>3. QED
        BY <2>3, <4>2
    <3>3. c \in Cells /\ c.value = Damaged
      <4>1. frame[i] \in [kind : {"scalar"}, value : Values \cup {Damaged}, width : Nat]
        BY <2>3, <3>2 DEF Cells, Numbers, FlagKinds, Skips
      <4>2. QED
        BY <4>1 DEF Cells
    <3>4. frame' = [frame EXCEPT ![i] = c]
      BY <2>3
    <3> HIDE DEF c
    <3>5. CASE frame \in Seq(Cells)
      BY <3>1, <3>3, <3>4, <3>5
    <3>6. ASSUME NEW cells \in Seq(Cells), frame = Sealed(cells, cells, sent.key)
          PROVE  \E body \in Seq(Cells) :
                    frame' = Sealed(body, cells, sent'.key) /\ body # cells
      <4> DEFINE body == [cells EXCEPT ![i] = c]
                 last == [kind |-> "signature", value |-> [key |-> sent.key, over |-> cells],
                          width |-> SignatureLength]
      <4>1. /\ Len(frame) = Len(cells) + 1 /\ Len(cells) \in Nat
            /\ \A j \in 1..Len(cells) : frame[j] = cells[j]
        BY <3>6, SealedFront
      <4>2. i \in 1..Len(cells)
        <5>1. frame[Len(cells) + 1].kind = "signature"
          BY <3>6, SealedKind
        <5>2. i # Len(cells) + 1
          BY <2>3, <5>1
        <5>3. QED
          BY <4>1, <5>2
      <4>3. body \in Seq(Cells) /\ Len(body) = Len(cells)
        BY <3>3, <4>2
      <4>4. body # cells
        <5>1. body[i] = c /\ cells[i] = frame[i]
          BY <4>1, <4>2
        <5>2. QED
          BY <2>3, <3>3, <5>1
      <4>5. frame = cells \o <<last>> /\ Sealed(body, cells, sent'.key) = body \o <<last>>
        BY <3>1, <3>6 DEF Sealed, Cell
      <4> HIDE DEF last
      <4>6. [cells \o <<last>> EXCEPT ![i] = c] = body \o <<last>>
        <5> DEFINE T == Cells \cup {last}
                   n == Len(cells) + 1
        <5>1. cells \o <<last>> \in Seq(T) /\ body \o <<last>> \in Seq(T) /\ c \in T
          <6>1. cells \in Seq(T) /\ body \in Seq(T) /\ <<last>> \in Seq(T) /\ c \in T
            BY <3>3, <4>3
          <6>2. QED
            BY <6>1, Joined, Zenon
        <5>2. /\ Len(cells \o <<last>>) = n /\ Len(body \o <<last>>) = n
              /\ (cells \o <<last>>)[n] = last /\ (body \o <<last>>)[n] = last
          BY <4>1, <4>3
        <5>3. /\ \A j \in 1..Len(cells) : (cells \o <<last>>)[j] = cells[j]
              /\ \A j \in 1..Len(cells) : (body \o <<last>>)[j] = body[j]
          BY <4>1, <4>3
        <5>4. \A j \in 1..Len(cells) : body[j] = IF j = i THEN c ELSE cells[j]
          BY <4>2
        <5> DEFINE base == cells \o <<last>>
                   other == [base EXCEPT ![i] = c]
        <5> HIDE DEF T, body, base
        <5>0. base \in Seq(T) /\ Len(base) = n /\ n \in Nat /\ i \in 1..n /\ i # n
          BY <4>1, <4>2, <5>1, <5>2 DEF base
        <5>5. other \in Seq(T) /\ Len(other) = n
          BY <5>0, <5>1
        <5>6. \A j \in 1..n : other[j] = (body \o <<last>>)[j]
          <6>1. \A j \in 1..n : j \in 1..Len(cells) \/ j = n
            BY <4>1
          <6>2. \A j \in 1..n : other[j] = IF j = i THEN c ELSE base[j]
            BY <5>0
          <6> HIDE DEF other
          <6>3. base[n] = last /\ \A j \in 1..Len(cells) : base[j] = cells[j]
            BY <5>2, <5>3 DEF base
          <6>4. QED
            BY <5>0, <5>2, <5>3, <5>4, <6>1, <6>2, <6>3
        <5> HIDE DEF other
        <5>7. other = body \o <<last>>
          BY <5>1, <5>2, <5>5, <5>6
        <5>8. QED
          BY <5>7 DEF other, base
      <4>7. QED
        BY <3>4, <4>3, <4>4, <4>5, <4>6
    <3>7. QED
      BY <1>2, <3>1, <3>5, <3>6
  <2>4. QED
    BY <2>1, <2>2, <2>3, Zenon DEF Arrive
<1>4. Framed'
  BY <1>3, Zenon DEF Framed
<1>5. Width(frame') \in Nat /\ Len(frame') \in Nat
  <2>1. Datagram(frame')
    BY <1>3, Zenon DEF Datagram
  <2>2. QED
    BY <2>1, WidthOfFront
<1>6. ReaderTyped' /\ reader'.pos = 0 /\ reader'.count = 1 /\ reader'.writers = <<>>
  <2>1. <<>> \in Seq(Nat) /\ 0 \in Nat /\ 1 \in Nat
    OBVIOUS
  <2>2. QED
    BY <1>1, <1>5, <2>1, ReaderMade
<1>7. MessageTyped' /\ message'.messages = <<>>
  BY <1>1, BlankTyped
<1>8. Typed'
  BY <1>1, <1>3, <1>6, <1>7 DEF Inv, Typed, Sections
<1>9. Progress'
  <2>1. Len(message'.messages) = 0 /\ reader'.pos <= Len(frame')
    BY <1>5, <1>6, <1>7
  <2>2. pc' = "header"
    BY <1>1
  <2>3. QED
    BY <1>6, <1>7, <2>1, <2>2 DEF Progress
<1>10. QED
  BY <1>1, <1>4, <1>8, <1>9 DEF Inv, Whole, Trusted

(* The sections. *)

\* A section that goes on keeps the datagram and what was sent.
LEMMA InvGoes ==
    ASSUME Inv, pc \in Sections, NEW want, NEW supported, NEW next \in Sections \cup Ends,
           Goes(want, supported, next), ReaderTyped', MessageTyped', Progress', Trusted'
    PROVE  Inv'
<1>1. pc' = next /\ UNCHANGED <<sent, receiver, frame, relayed>>
  BY DEF Goes
<1>2. Typed'
  BY <1>1 DEF Inv, Typed
<1>3. Framed'
  BY <1>1, Zenon DEF Inv, Framed, Sending, Sections
<1>4. pc' \notin {"send", "under way"}
  BY <1>1 DEF Sections, Ends
<1>5. QED
  BY <1>2, <1>3, <1>4 DEF Inv, Whole

\* A section reads a datagram into typed records.
LEMMA SectionReads ==
    ASSUME Inv, pc \in Sections
    PROVE  /\ Framed /\ ~Sending /\ ReaderTyped /\ MessageTyped /\ reader.pos \in Nat
           /\ Len(frame) \in Nat
<1>1. Framed /\ ~Sending /\ ReaderTyped /\ MessageTyped /\ reader.pos \in Nat
  BY DEF Inv, Typed, ReaderTyped, Sending, Sections
<1>2. QED
  BY <1>1, FrameIsDatagram

-----------------------------------------------------------------------------
(* The sections of the NetworkMessage header. *)

\* A section that only moves the reader on.
LEMMA PassMade ==
    ASSUME Inv, pc \in Sections, NEW S, NEW want \in Wanted(S), Taken(want), reader' = Pass(want)
    PROVE  /\ ReaderTyped' /\ reader'.pos <= Len(frame) /\ reader'.count = reader.count
           /\ reader'.writers = reader.writers /\ reader'.left = reader.left
<1>1. Framed /\ ~Sending /\ ReaderTyped
  BY SectionReads
<1>2. /\ reader.pos + Len(want) \in 0..Len(frame) /\ reader.pos + Len(want) \in Nat
      /\ Pass(want) = [pos |-> reader.pos + Len(want), end |-> reader.end, on |-> reader.on,
                       count |-> reader.count, writers |-> reader.writers,
                       left |-> reader.left]
  BY <1>1, PassWithin
<1>3. /\ ReaderTyped' /\ reader'.pos = reader.pos + Len(want) /\ reader'.count = reader.count
      /\ reader'.writers = reader.writers /\ reader'.left = reader.left
  BY <1>1, <1>2, ReaderMade DEF ReaderTyped
<1>4. QED
  BY <1>2, <1>3

\* Of a message under construction only the headers were read.
LEMMA HeaderOnly ==
    ASSUME Inv, pc \in Sections \ {"message", "field"}, Len(frame') = Len(frame),
           pc' \in Sections \ {"message", "field"}, message'.messages = <<>>,
           reader'.pos <= Len(frame), reader'.count \in Nat,
           pc' \in {"times", "security", "sizes"} => reader'.count > 0,
           reader'.writers = <<>> \/ Len(reader'.writers) = reader'.count
    PROVE  Progress'
<1>1. Len(message'.messages) = 0 /\ Len(message'.messages) <= reader'.count
  OBVIOUS
<1>2. QED
  BY <1>1 DEF Progress

\* Sections of the header.
LEMMA InvFlags == Inv /\ DecodeFlags => Inv'
<1> SUFFICES ASSUME Inv, DecodeFlags PROVE Inv'
  OBVIOUS
<1> DEFINE flags == FlagsOf("flags")
           ext1 == IF "extended" \in flags /\ There(2) THEN frame[reader.pos + 2].value ELSE {}
           ext2 == IF "ext2" \in ext1 /\ There(3) THEN frame[reader.pos + 3].value ELSE {}
           want == <<<<"flags", 1>>>> \o If("extended" \in flags, <<<<"ext1", 1>>>>)
                   \o If("ext2" \in ext1, <<<<"ext2", 1>>>>)
           supported == ext2 \cap {"chunk", "discovery"} = {}
           type == IF ext1 \cap DOMAIN PidSize = {} THEN "BYTE"
                   ELSE CHOOSE t \in ext1 : t \in DOMAIN PidSize
<1>1. pc = "header" /\ pc \in Sections
  BY DEF DecodeFlags, Sections
<1>2. ASSUME Fails(want, supported) PROVE Inv'
  BY <1>1, <1>2, InvFails
<1>3. ASSUME Goes(want, supported, "publisher id"),
             reader' = [Pass(want) EXCEPT !.on = flags \cup ext1 \cup ext2],
             message' = [message EXCEPT !.pid_type = type]
      PROVE  Inv'
  <2>1. want \in Wanted(Nat)
    <3>1. "flags" \in Kinds /\ "ext1" \in Kinds /\ "ext2" \in Kinds /\ 1 \in Nat
      BY DEF Kinds, FlagKinds
    <3> HIDE DEF flags, ext1
    <3>2. QED
      BY <3>1, OneWanted, JoinWanted, Zenon
  <2>2. type \in DOMAIN PidSize
    <3> HIDE DEF ext1
    <3>1. "BYTE" \in DOMAIN PidSize
      BY DEF PidSize
    <3>2. QED
      BY <3>1
  <2> HIDE DEF want, supported, flags, ext1, ext2, type
  <2>3. Taken(want) /\ pc' = "publisher id" /\ frame' = frame
    BY <1>3 DEF Goes
  <2>4. /\ Framed /\ ~Sending /\ ReaderTyped /\ MessageTyped
    BY <1>1, SectionReads
  <2>5. /\ reader.pos + Len(want) \in 0..Len(frame) /\ reader.pos + Len(want) \in Nat
        /\ Pass(want) = [pos |-> reader.pos + Len(want), end |-> reader.end, on |-> reader.on,
                         count |-> reader.count, writers |-> reader.writers,
                         left |-> reader.left]
    BY <2>1, <2>3, <2>4, PassWithin
  <2>6. reader' = [pos |-> reader.pos + Len(want), end |-> reader.end,
                   on |-> flags \cup ext1 \cup ext2, count |-> reader.count,
                   writers |-> reader.writers, left |-> reader.left]
    <3> DEFINE on == flags \cup ext1 \cup ext2
               passed == [pos |-> reader.pos + Len(want), end |-> reader.end, on |-> reader.on,
                          count |-> reader.count, writers |-> reader.writers,
                          left |-> reader.left]
    <3>1. reader' = [passed EXCEPT !.on = on]
      BY <1>3, <2>5, Zenon
    <3> HIDE DEF on
    <3>2. [passed EXCEPT !.on = on] =
             [pos |-> reader.pos + Len(want), end |-> reader.end, on |-> on,
              count |-> reader.count, writers |-> reader.writers, left |-> reader.left]
      OBVIOUS
    <3>3. QED
      BY <3>1, <3>2, Zenon DEF on
  <2>7. /\ ReaderTyped' /\ reader'.pos = reader.pos + Len(want) /\ reader'.count = reader.count
        /\ reader'.writers = reader.writers
    BY <2>4, <2>5, <2>6, ReaderMade DEF ReaderTyped
  <2>8. MessageTyped' /\ message'.messages = message.messages
    <3>1. PICK p \in Nat, t \in DOMAIN PidSize, g \in Nat \cup {None}, s \in Nat \cup {None},
               m \in Seq(DataSet),
               a \in {message.signed}, v \in {message.verified}, k \in {message.token} :
               message = [pid |-> p, pid_type |-> t, group |-> g, sequence |-> s,
                          messages |-> m, signed |-> a, verified |-> v, token |-> k]
      BY <2>4, MessageIs
    <3>2. message' = [pid |-> p, pid_type |-> type, group |-> g, sequence |-> s,
                      messages |-> m, signed |-> a, verified |-> v, token |-> k]
      BY <1>3, <3>1
    <3>3. QED
      BY <2>2, <3>1, <3>2, MessageMade
  <2>9. message.messages = <<>> /\ (reader.writers = <<>> \/ Len(reader.writers) = reader.count)
        /\ reader.count \in Nat
    BY <1>1, <2>4 DEF Inv, Progress, ReaderTyped
  <2>10. Progress'
    <3>1. reader'.pos <= Len(frame) /\ Len(frame') = Len(frame)
      <4>1. reader.pos + Len(want) <= Len(frame)
        BY <2>3 DEF Taken, There
      <4>2. QED
        BY <2>3, <2>7, <4>1
    <3>2. pc \in Sections \ {"message", "field"} /\ pc' \in Sections \ {"message", "field"}
          /\ pc' \notin {"times", "security", "sizes"}
      BY <1>1, <2>3 DEF Sections
    <3>3. QED
      BY <2>7, <2>8, <2>9, <3>1, <3>2, HeaderOnly
  <2>11. Trusted'
    BY <2>3 DEF Trusted
  <2>12. QED
    BY <1>1, <1>3, <2>7, <2>8, <2>10, <2>11, InvGoes DEF Sections
<1>4. QED
  BY <1>2, <1>3 DEF DecodeFlags

\* The invariant is kept where the publisher id is decoded,
LEMMA InvPublisherId == Inv /\ DecodePublisherId => Inv'
<1> SUFFICES ASSUME Inv, DecodePublisherId PROVE Inv'
  OBVIOUS
<1> DEFINE want == If("publisher id" \in reader.on,
                      <<<<"publisher id", PidSize[message.pid_type]>>>>)
                   \o If("class id" \in reader.on, <<<<"class id", 16>>>>)
<1>1. pc = "publisher id" /\ pc \in Sections
  BY DEF DecodePublisherId, Sections
<1>2. ASSUME Fails(want, TRUE) PROVE Inv'
  BY <1>1, <1>2, InvFails
<1>3. ASSUME Goes(want, TRUE, "group header"), reader' = Pass(want),
             message' = [message EXCEPT !.pid = Got(want, "publisher id", @)]
      PROVE  Inv'
  <2>1. Framed /\ ~Sending /\ reader.pos \in Nat /\ MessageTyped
    BY <1>1, SectionReads
  <2>2. want \in Wanted(Nat)
    <3>1. "publisher id" \in Kinds /\ "class id" \in Kinds /\ 16 \in Nat
      BY DEF Kinds, Numbers, Skips
    <3>2. PidSize[message.pid_type] \in Nat
      BY <2>1 DEF MessageTyped, Encodable, PidSize
    <3>3. QED
      BY <3>1, <3>2, OneWanted, JoinWanted, Zenon
  <2> HIDE DEF want
  <2>3. Taken(want) /\ pc' = "group header" /\ frame' = frame
    BY <1>3 DEF Goes
  <2>4. /\ ReaderTyped' /\ reader'.pos <= Len(frame) /\ reader'.count = reader.count
        /\ reader'.writers = reader.writers
    BY <1>1, <1>3, <2>2, <2>3, PassMade
  <2>5. MessageTyped' /\ message'.messages = message.messages
    <3>1. PICK p \in Nat, t \in DOMAIN PidSize, g \in Nat \cup {None}, s \in Nat \cup {None},
               m \in Seq(DataSet),
               a \in {message.signed}, v \in {message.verified}, k \in {message.token} :
               message = [pid |-> p, pid_type |-> t, group |-> g, sequence |-> s,
                          messages |-> m, signed |-> a, verified |-> v, token |-> k]
      BY <2>1, MessageIs
    <3> DEFINE q == Got(want, "publisher id", p)
    <3>2. message' = [pid |-> q, pid_type |-> t, group |-> g, sequence |-> s,
                      messages |-> m, signed |-> a, verified |-> v, token |-> k]
      BY <1>3, <3>1
    <3>3. q \in Nat
      <4>1. "publisher id" \in Numbers
        BY DEF Numbers
      <4>2. QED
        BY <2>1, <2>2, <2>3, <4>1, GotAsWanted
    <3> HIDE DEF q
    <3>4. QED
      BY <3>1, <3>2, <3>3, MessageMade
  <2>6. message.messages = <<>> /\ (reader.writers = <<>> \/ Len(reader.writers) = reader.count)
        /\ reader.count \in Nat
    BY <1>1 DEF Inv, Typed, Progress, ReaderTyped
  <2>7. Progress'
    BY <1>1, <2>3, <2>4, <2>5, <2>6, HeaderOnly DEF Sections
  <2>8. Trusted'
    BY <2>3 DEF Trusted
  <2>9. QED
    BY <1>1, <1>3, <2>4, <2>5, <2>7, <2>8, InvGoes DEF Sections
<1>4. QED
  BY <1>2, <1>3 DEF DecodePublisherId

\* and where the group header is.
LEMMA InvGroupHeader == Inv /\ DecodeGroupHeader => Inv'
<1> SUFFICES ASSUME Inv, DecodeGroupHeader PROVE Inv'
  OBVIOUS
<1> DEFINE flags == FlagsOf("group flags")
           want == If("group header" \in reader.on,
                      <<<<"group flags", 1>>>> \o If("group" \in flags, <<<<"group", 2>>>>)
                      \o If("group version" \in flags, <<<<"group version", 4>>>>)
                      \o If("number" \in flags, <<<<"number", 2>>>>)
                      \o If("group sequence" \in flags, <<<<"group sequence", 2>>>>))
<1>1. pc = "group header" /\ pc \in Sections
  BY DEF DecodeGroupHeader, Sections
<1>2. ASSUME Fails(want, TRUE) PROVE Inv'
  BY <1>1, <1>2, InvFails
<1>3. ASSUME Goes(want, TRUE, "payload header"), reader' = Pass(want),
             message' = [message EXCEPT !.group = Got(want, "group", None),
                                        !.sequence = Got(want, "group sequence", None)]
      PROVE  Inv'
  <2>1. Framed /\ ~Sending /\ reader.pos \in Nat /\ MessageTyped
    BY <1>1, SectionReads
  <2>2. want \in Wanted(Nat)
    <3>1. /\ "group flags" \in Kinds /\ "group" \in Kinds /\ "group version" \in Kinds
          /\ "number" \in Kinds /\ "group sequence" \in Kinds /\ 1 \in Nat /\ 2 \in Nat /\ 4 \in Nat
      BY DEF Kinds, FlagKinds, Numbers, Skips
    <3> HIDE DEF flags
    <3>2. QED
      BY <3>1, OneWanted, JoinWanted, Zenon
  <2> HIDE DEF want
  <2>3. Taken(want) /\ pc' = "payload header" /\ frame' = frame
    BY <1>3 DEF Goes
  <2>4. /\ ReaderTyped' /\ reader'.pos <= Len(frame) /\ reader'.count = reader.count
        /\ reader'.writers = reader.writers
    BY <1>1, <1>3, <2>2, <2>3, PassMade
  <2>5. MessageTyped' /\ message'.messages = message.messages
    <3>1. PICK p \in Nat, t \in DOMAIN PidSize, g \in Nat \cup {None}, s \in Nat \cup {None},
               m \in Seq(DataSet),
               a \in {message.signed}, v \in {message.verified}, k \in {message.token} :
               message = [pid |-> p, pid_type |-> t, group |-> g, sequence |-> s,
                          messages |-> m, signed |-> a, verified |-> v, token |-> k]
      BY <2>1, MessageIs
    <3> DEFINE h == Got(want, "group", None)
               n == Got(want, "group sequence", None)
    <3>2. message' = [pid |-> p, pid_type |-> t, group |-> h, sequence |-> n,
                      messages |-> m, signed |-> a, verified |-> v, token |-> k]
      BY <1>3, <3>1
    <3>3. h \in Nat \cup {None}
      BY <2>1, <2>2, <2>3, GotAsWanted
    <3>4. n \in Nat \cup {None}
      <4>1. n = None \/ n \in Residues
        BY <2>1, <2>2, <2>3, GotAsWanted
      <4>2. QED
        BY <4>1, Residue
    <3> HIDE DEF h, n
    <3>5. QED
      BY <3>1, <3>2, <3>3, <3>4, MessageMade
  <2>6. message.messages = <<>> /\ (reader.writers = <<>> \/ Len(reader.writers) = reader.count)
        /\ reader.count \in Nat
    BY <1>1 DEF Inv, Typed, Progress, ReaderTyped
  <2>7. Progress'
    BY <1>1, <2>3, <2>4, <2>5, <2>6, HeaderOnly DEF Sections
  <2>8. Trusted'
    BY <2>3 DEF Trusted
  <2>9. QED
    BY <1>1, <1>3, <2>4, <2>5, <2>7, <2>8, InvGoes DEF Sections
<1>4. QED
  BY <1>2, <1>3 DEF DecodeGroupHeader

-----------------------------------------------------------------------------
(* The payload header, the times and the sizes. *)

\* Sequences of wanted cells.
LEMMA RepeatInSeq ==
    ASSUME NEW S, NEW x \in S, NEW n \in Nat
    PROVE  [i \in 1..n |-> x] \in Seq(S) /\ Len([i \in 1..n |-> x]) = n
OBVIOUS

\* One more put before a sequence: where the others are then.
LEMMA FirstWanted ==
    ASSUME NEW S, NEW x \in S, NEW t \in Seq(S)
    PROVE  /\ Len(<<x>> \o t) = 1 + Len(t)
           /\ \A i \in 1..Len(t) : /\ 1 + i \in 1..Len(<<x>> \o t)
                                    /\ (<<x>> \o t)[1 + i] = t[i]
OBVIOUS

\* One element makes a sequence,
LEMMA OneInSeq ==
    ASSUME NEW S, NEW x \in S
    PROVE  <<x>> \in Seq(S)
OBVIOUS

\* and two elements do.
LEMMA TwoInSeq ==
    ASSUME NEW S, NEW x \in S, NEW y \in S
    PROVE  <<x, y>> \in Seq(S)
OBVIOUS

\* The payload header names as many writers as it counts, or none.
LEMMA InvPayloadHeader == Inv /\ DecodePayloadHeader => Inv'
<1> SUFFICES ASSUME Inv, DecodePayloadHeader PROVE Inv'
  OBVIOUS
<1> DEFINE has == "payload header" \in reader.on
           count == IF has /\ Next1("count") THEN frame[reader.pos + 1].value ELSE 1
           ids == [i \in 1..count |-> <<"writer id", 2>>]
           want == If(has, <<<<"count", 1>>>> \o ids)
           named == IF has THEN count ELSE 0
           writers == [i \in 1..named |-> frame[reader.pos + 1 + i].value]
<1>1. pc = "payload header" /\ pc \in Sections
  BY DEF DecodePayloadHeader, Sections
<1>2. ASSUME Fails(want, count > 0) PROVE Inv'
  BY <1>1, <1>2, InvFails
<1>3. ASSUME Goes(want, count > 0, "times"),
             reader' = [Pass(want) EXCEPT !.count = count, !.writers = writers],
             UNCHANGED message
      PROVE  Inv'
  <2>1. /\ Framed /\ ~Sending /\ ReaderTyped /\ MessageTyped /\ reader.pos \in Nat
        /\ Len(frame) \in Nat
    BY <1>1, SectionReads
  <2>2. count \in Nat
    <3>1. CASE has /\ Next1("count")
      <4>1. reader.pos + 1 \in 1..Len(frame) /\ frame[reader.pos + 1].kind = "count"
        <5>1. reader.pos < Len(frame) /\ frame[reader.pos + 1].kind = "count"
          BY <3>1, Zenon DEF Next1
        <5>2. QED
          BY <2>1, <5>1
      <4>2. Datagram(frame)
        BY <2>1, FrameIsDatagram
      <4>3. frame[reader.pos + 1] \in Cells \/ frame[reader.pos + 1].kind = "signature"
        BY <4>1, <4>2, CellAt
      <4>4. "count" \in Numbers
        BY DEF Numbers
      <4>5. frame[reader.pos + 1] \in Cells
        BY <4>1, <4>3
      <4>6. QED
        BY <3>1, <4>1, <4>4, <4>5, CellKinds
    <3>2. CASE ~(has /\ Next1("count"))
      BY <3>2
    <3>3. QED
      BY <3>1, <3>2
  <2>3. Taken(want) /\ count > 0 /\ pc' = "times" /\ frame' = frame
    BY <1>3 DEF Goes
  <2> HIDE DEF has, count
  <2>4. "writer id" \in Kinds /\ "count" \in Kinds /\ 1 \in Nat /\ 2 \in Nat
    BY DEF Kinds, Numbers
  <2>5. ids \in Wanted(Nat) /\ Len(ids) = count
    <3>1. <<"writer id", 2>> \in Kinds \X Nat
      BY <2>4
    <3>2. ids \in Seq(Kinds \X Nat) /\ Len(ids) = count
      BY <2>2, <3>1, RepeatInSeq, Zenon
    <3>3. QED
      BY <3>2 DEF Wanted
  <2>6. <<<<"count", 1>>>> \o ids \in Wanted(Nat) /\ want \in Wanted(Nat)
    <3> HIDE DEF ids
    <3>1. QED
      BY <2>4, <2>5, OneWanted, JoinWanted, Zenon
  <2>7. writers \in Seq(Nat) /\ Len(writers) = named /\ named \in Nat
    <3>1. CASE has
      <4>1. want = <<<<"count", 1>>>> \o ids /\ named = count
        BY <3>1 DEF If
      <4>2. \A i \in 1..count : ids[i] = <<"writer id", 2>>
        OBVIOUS
      <4>3. ids \in Seq(Kinds \X Nat)
        BY <2>5 DEF Wanted
      <4>4. \A i \in 1..count : 1 + i \in 1..Len(want) /\ want[1 + i] = <<"writer id", 2>>
        <5>1. <<"count", 1>> \in Kinds \X Nat
          BY <2>4
        <5> HIDE DEF ids, want
        <5>2. PICK x \in Kinds \X Nat : x = <<"count", 1>>
          BY <5>1
        <5>3. want = <<x>> \o ids
          BY <4>1, <5>2
        <5>4. /\ Len(<<x>> \o ids) = 1 + Len(ids)
              /\ \A i \in 1..Len(ids) : /\ 1 + i \in 1..Len(<<x>> \o ids)
                                         /\ (<<x>> \o ids)[1 + i] = ids[i]
          BY <4>3, FirstWanted
        <5>5. QED
          BY <2>5, <4>2, <5>3, <5>4
      <4>5. \A i \in 1..count : frame[reader.pos + 1 + i].value \in Nat
        <5> SUFFICES ASSUME NEW i \in 1..count PROVE frame[reader.pos + 1 + i].value \in Nat
          OBVIOUS
        <5> DEFINE c == frame[reader.pos + (1 + i)]
        <5>1. c \in Cells /\ c.kind = want[1 + i][1]
          <6> HIDE DEF want
          <6>1. QED
            BY <2>1, <2>3, <2>6, <4>4, ReadAsWanted
        <5>2. c.kind = "writer id"
          <6>1. want[1 + i] = <<"writer id", 2>>
            BY <4>4
          <6>2. <<"writer id", 2>>[1] = "writer id"
            OBVIOUS
          <6> HIDE DEF want, c
          <6>3. QED
            BY <5>1, <6>1, <6>2, Zenon
        <5>3. "writer id" \in Numbers
          BY DEF Numbers
        <5> HIDE DEF c
        <5>4. c.value \in Nat
          BY <5>1, <5>2, <5>3, CellKinds
        <5>5. reader.pos + (1 + i) = reader.pos + 1 + i
          BY <2>1, <2>2
        <5>6. QED
          BY <5>4, <5>5 DEF c
      <4>6. writers \in [1..count -> Nat]
        BY <4>1, <4>5
      <4> HIDE DEF writers
      <4>7. writers \in Seq(Nat) /\ Len(writers) = count
        BY <2>2, <4>6
      <4>8. QED
        BY <2>2, <4>1, <4>7
    <3>2. CASE ~has
      BY <3>2
    <3>3. QED
      BY <3>1, <3>2
  <2>8. writers = <<>> \/ Len(writers) = count
    <3>1. named = 0 \/ named = count
      OBVIOUS
    <3>2. named = 0 => writers = <<>>
      OBVIOUS
    <3>3. QED
      BY <2>7, <3>1, <3>2
  <2> HIDE DEF want, writers, named
  <2>9. reader' = [pos |-> reader.pos + Len(want), end |-> reader.end, on |-> reader.on,
                   count |-> count, writers |-> writers, left |-> reader.left]
        /\ reader.pos + Len(want) \in Nat /\ reader.pos + Len(want) <= Len(frame)
    <3> DEFINE passed == [pos |-> reader.pos + Len(want), end |-> reader.end, on |-> reader.on,
                          count |-> reader.count, writers |-> reader.writers,
                          left |-> reader.left]
    <3>1. Pass(want) = passed /\ reader.pos + Len(want) \in Nat
      BY <2>1, <2>3, <2>6, PassWithin
    <3>2. PICK r : r = passed
      OBVIOUS
    <3>3. reader' = [pos |-> reader.pos + Len(want), end |-> reader.end, on |-> reader.on,
                     count |-> count, writers |-> writers, left |-> reader.left]
      <4>1. reader' = [r EXCEPT !.count = count, !.writers = writers]
        BY <1>3, <3>1, <3>2, Zenon
      <4>2. QED
        BY <3>2, <4>1
    <3>4. reader.pos + Len(want) <= Len(frame)
      BY <2>3 DEF Taken, There
    <3>5. QED
      BY <3>1, <3>3, <3>4, Zenon
  <2>10. /\ ReaderTyped' /\ reader'.pos <= Len(frame) /\ reader'.count = count
         /\ reader'.writers = writers
    BY <2>1, <2>2, <2>7, <2>9, ReaderMade DEF ReaderTyped
  <2>11. message'.messages = <<>> /\ MessageTyped'
    BY <1>1, <1>3, <2>1 DEF Inv, Progress, MessageTyped
  <2>12. Progress'
    BY <1>1, <2>2, <2>3, <2>8, <2>10, <2>11, HeaderOnly DEF Sections
  <2>13. Trusted'
    BY <2>3 DEF Trusted
  <2>14. QED
    BY <1>1, <1>3, <2>10, <2>11, <2>12, <2>13, InvGoes DEF Sections
<1>4. QED
  BY <1>2, <1>3 DEF DecodePayloadHeader

\* The times are read over.
LEMMA InvTimes == Inv /\ DecodeTimes => Inv'
<1> SUFFICES ASSUME Inv, DecodeTimes PROVE Inv'
  OBVIOUS
<1> DEFINE before == If("frame time" \in reader.on, <<<<"frame time", 8>>>>)
                     \o If("frame picoseconds" \in reader.on, <<<<"frame picoseconds", 2>>>>)
           promoted == "promoted" \in reader.on
           size == IF promoted /\ There(Len(before) + 1)
                   THEN frame[reader.pos + Len(before) + 1].value ELSE 0
           want == before \o If(promoted, <<<<"promoted size", 2>>, <<"promoted", size>>>>)
<1>1. pc = "times" /\ pc \in Sections
  BY DEF DecodeTimes, Sections
<1>2. ASSUME Fails(want, TRUE) PROVE Inv'
  BY <1>1, <1>2, InvFails
<1>3. ASSUME Goes(want, TRUE, "security"), reader' = Pass(want), UNCHANGED message
      PROVE  Inv'
  <2> DEFINE S == Nat \cup {size}
  <2> HIDE DEF size
  <2>1. want \in Wanted(S)
    <3>1. /\ "frame time" \in Kinds /\ "frame picoseconds" \in Kinds /\ "promoted" \in Kinds
          /\ "promoted size" \in Kinds /\ 8 \in S /\ 2 \in S /\ size \in S
      BY DEF Kinds, Numbers, Skips
    <3> HIDE DEF S
    <3>2. before \in Wanted(S)
      BY <3>1, OneWanted, JoinWanted, Zenon
    <3>3. <<<<"promoted size", 2>>, <<"promoted", size>>>> \in Wanted(S)
      <4>1. <<"promoted size", 2>> \in Kinds \X S /\ <<"promoted", size>> \in Kinds \X S
        BY <3>1
      <4>2. QED
        BY <4>1, TwoInSeq, Zenon DEF Wanted
    <3> HIDE DEF before, promoted
    <3>4. QED
      BY <3>2, <3>3, JoinWanted, Zenon
  <2> HIDE DEF want, S
  <2>2. Taken(want) /\ pc' = "security" /\ frame' = frame
    BY <1>3 DEF Goes
  <2>3. /\ ReaderTyped' /\ reader'.pos <= Len(frame) /\ reader'.count = reader.count
        /\ reader'.writers = reader.writers
    BY <1>1, <1>3, <2>1, <2>2, PassMade
  <2>4. /\ message'.messages = <<>> /\ MessageTyped'
        /\ (reader.writers = <<>> \/ Len(reader.writers) = reader.count)
        /\ reader.count > 0 /\ reader.count \in Nat
    BY <1>1, <1>3 DEF Inv, Typed, Progress, MessageTyped, ReaderTyped
  <2>5. Progress'
    BY <1>1, <2>2, <2>3, <2>4, HeaderOnly DEF Sections
  <2>6. Trusted'
    BY <2>2 DEF Trusted
  <2>7. QED
    BY <1>1, <1>3, <2>3, <2>4, <2>5, <2>6, InvGoes DEF Sections
<1>4. QED
  BY <1>2, <1>3 DEF DecodeTimes

\* The sizes are those of as many messages as were counted.
LEMMA InvSizes == Inv /\ DecodeSizes => Inv'
<1> SUFFICES ASSUME Inv, DecodeSizes PROVE Inv'
  OBVIOUS
<1> DEFINE want == If("payload header" \in reader.on /\ reader.count > 1,
                      [i \in 1..reader.count |-> <<"size", 2>>])
<1>1. pc = "sizes" /\ pc \in Sections
  BY DEF DecodeSizes, Sections
<1>2. ASSUME Fails(want, TRUE) PROVE Inv'
  BY <1>1, <1>2, InvFails
<1>3. ASSUME Goes(want, TRUE, "message"), reader' = Pass(want), UNCHANGED message
      PROVE  Inv'
  <2>1. want \in Wanted(Nat)
    <3>1. "size" \in Kinds /\ 2 \in Nat /\ reader.count \in Nat
      BY DEF Kinds, Numbers, Inv, Typed, ReaderTyped
    <3>2. [i \in 1..reader.count |-> <<"size", 2>>] \in Wanted(Nat)
      <4>1. <<"size", 2>> \in Kinds \X Nat
        BY <3>1
      <4>2. QED
        BY <3>1, <4>1, RepeatInSeq, Zenon DEF Wanted
    <3>3. QED
      BY <3>2, JoinWanted, Zenon
  <2> HIDE DEF want
  <2>2. Taken(want) /\ pc' = "message" /\ UNCHANGED <<frame, receiver, sent>>
    BY <1>3 DEF Goes
  <2>3. /\ ReaderTyped' /\ reader'.pos <= Len(frame) /\ reader'.count = reader.count
        /\ reader'.writers = reader.writers
    BY <1>1, <1>3, <2>1, <2>2, PassMade
  <2>4. /\ message'.messages = <<>> /\ MessageTyped'
        /\ (reader.writers = <<>> \/ Len(reader.writers) = reader.count)
        /\ reader.count > 0 /\ reader.count \in Nat
    BY <1>1, <1>3 DEF Inv, Typed, Progress, MessageTyped, ReaderTyped
  <2>5. Progress'
    <3>1. Len(message'.messages) = 0
      BY <2>4
    <3>2. QED
      BY <2>2, <2>3, <2>4, <3>1 DEF Progress
  <2>6. Trusted'
    BY <1>1, <1>3, <2>2 DEF Inv, Trusted
  <2>7. QED
    BY <1>1, <1>3, <2>3, <2>4, <2>5, <2>6, InvGoes DEF Sections
<1>4. QED
  BY <1>2, <1>3 DEF DecodeSizes

-----------------------------------------------------------------------------
(* The security header. *)

\* Nobody without the key makes a signature, and it is over what was sent.
LEMMA VerifiedIsWhole ==
    ASSUME Framed, ~Sending, Len(frame) > 0, NEW key, Verified(key)
    PROVE  sent.key = key /\ sent.fate = "whole"
<1>1. Datagram(frame) /\ Len(frame) \in Nat
  BY FrameIsDatagram
<1>2. /\ frame[Len(frame)].kind = "signature"
      /\ frame[Len(frame)].value = [key |-> key, over |-> SubSeq(frame, 1, Len(frame) - 1)]
  BY Zenon DEF Verified
<1>3. CASE frame \in Seq(Cells)
  <2>1. frame[Len(frame)] \in Cells
    BY <1>1, <1>3
  <2>2. frame[Len(frame)].kind # "signature"
    BY <2>1, CellKinds, Zenon
  <2>3. QED
    BY <1>2, <2>2
<1>4. ASSUME NEW body \in Seq(Cells), NEW over \in Seq(Cells),
             frame = Sealed(body, over, sent.key), body = over => sent.fate = "whole"
      PROVE  sent.key = key /\ sent.fate = "whole"
  <2>1. /\ Len(frame) = Len(body) + 1 /\ Len(body) \in Nat
        /\ \A i \in 1..Len(body) : frame[i] = body[i]
    BY <1>4, SealedFront
  <2>2. Sealed(body, over, sent.key)[Len(body) + 1].value = [key |-> sent.key, over |-> over]
    BY SealedValue
  <2>3. Sealed(body, over, sent.key)[Len(body) + 1] = frame[Len(frame)]
    BY <1>4, <2>1
  <2>5. [key |-> sent.key, over |-> over] = [key |-> key, over |-> SubSeq(frame, 1, Len(frame) - 1)]
    BY <1>2, <2>2, <2>3, Zenon
  <2>6. sent.key = key /\ over = SubSeq(frame, 1, Len(frame) - 1)
    BY <2>5
  <2>7. SubSeq(frame, 1, Len(frame) - 1) = body
    <3>1. PICK S : frame \in Seq(S)
      BY <1>1, WidthOfFront
    <3>2. SubSeq(frame, 1, Len(frame) - 1) = [i \in 1..Len(body) |-> frame[i]]
      BY <2>1, <3>1
    <3>3. body = [i \in 1..Len(body) |-> body[i]]
      OBVIOUS
    <3>4. QED
      BY <2>1, <3>2, <3>3
  <2>8. QED
    BY <1>4, <2>6, <2>7
<1>5. QED
  BY <1>3, <1>4 DEF Framed

\* Past the security header a receiver that requires a signature has verified one.
LEMMA InvSecurity == Inv /\ DecodeSecurity => Inv'
<1> SUFFICES ASSUME Inv, DecodeSecurity PROVE Inv'
  OBVIOUS
<1> DEFINE want == SecurityHeader
           security == "security" \in reader.on
           verified == security /\ receiver.key # None /\ Verified(receiver.key)
           supported ==
               /\ security => /\ "signed" \in FlagsOf("security flags")
                              /\ "encrypted" \notin FlagsOf("security flags")
                              /\ Width(SubSeq(frame, 1, reader.pos + Len(want))) <= EndOfPayload
               /\ SignatureHolds(verified)
           token == Got(want, "token", 0)
           checked == IF verified THEN TRUE ELSE None
<1>1. pc = "security" /\ pc \in Sections
  BY DEF DecodeSecurity, Sections
<1>2. ASSUME Fails(want, supported) PROVE Inv'
  BY <1>1, <1>2, InvFails
<1>3. ASSUME Goes(want, supported, "sizes"),
             reader' = [Pass(want) EXCEPT !.end = EndOfPayload],
             message' = [message EXCEPT !.signed = security, !.token = token,
                                        !.verified = checked]
      PROVE  Inv'
  <2>1. /\ Framed /\ ~Sending /\ ReaderTyped /\ MessageTyped /\ reader.pos \in Nat
        /\ Len(frame) \in Nat
    BY <1>1, SectionReads
  <2>2. \E S : want \in Wanted(S) /\ (security => Len(want) >= 4)
    <3> DEFINE nonce == IF There(3) THEN frame[reader.pos + 3].value ELSE 0
               footer == "footer" \in FlagsOf("security flags")
               S == Nat \cup {nonce}
               four == <<<<"security flags", 1>>, <<"token", 4>>, <<"nonce length", 1>>,
                         <<"nonce", nonce>>>>
               more == If(footer, <<<<"footer size", 2>>>>)
    <3>1. want = If(security, four \o more)
      BY DEF SecurityHeader
    <3> HIDE DEF nonce, footer
    <3>2. /\ "security flags" \in Kinds /\ "token" \in Kinds /\ "nonce length" \in Kinds
          /\ "nonce" \in Kinds /\ "footer size" \in Kinds
      BY DEF Kinds, Numbers, Skips, FlagKinds
    <3>3. 1 \in S /\ 2 \in S /\ 4 \in S /\ nonce \in S
      OBVIOUS
    <3> HIDE DEF S
    <3>4. four \in Wanted(S) /\ Len(four) = 4
      <4>1. /\ <<"security flags", 1>> \in Kinds \X S /\ <<"token", 4>> \in Kinds \X S
            /\ <<"nonce length", 1>> \in Kinds \X S /\ <<"nonce", nonce>> \in Kinds \X S
        BY <3>2, <3>3
      <4>2. \A a, b, c, d \in Kinds \X S : <<a, b, c, d>> \in Seq(Kinds \X S)
        OBVIOUS
      <4>3. four \in Seq(Kinds \X S)
        BY <4>1, <4>2, Zenon
      <4>4. QED
        BY <4>3 DEF Wanted
    <3>5. more \in Wanted(S)
      BY <3>2, <3>3, OneWanted, JoinWanted, Zenon
    <3> HIDE DEF four, more
    <3>6. want \in Wanted(S)
      BY <3>1, <3>4, <3>5, JoinWanted, Zenon
    <3>7. Len(four \o more) >= 4
      <4>1. \A s, t \in Seq(Kinds \X S) : Len(s \o t) = Len(s) + Len(t) /\ Len(t) \in Nat
        OBVIOUS
      <4>2. Len(four \o more) = 4 + Len(more) /\ Len(more) \in Nat
        BY <3>4, <3>5, <4>1 DEF Wanted
      <4>3. QED
        BY <4>2
    <3>8. security => want = four \o more
      BY <3>1 DEF If
    <3>9. QED
      BY <3>6, <3>7, <3>8
  <2>3. PICK S : want \in Wanted(S) /\ (security => Len(want) >= 4)
    BY <2>2
  <2>4. Taken(want) /\ supported /\ pc' = "sizes" /\ UNCHANGED <<sent, receiver, frame>>
    BY <1>3 DEF Goes
  <2>5. /\ reader.pos + Len(want) \in 0..Len(frame) /\ reader.pos + Len(want) \in Nat
        /\ Pass(want) = [pos |-> reader.pos + Len(want), end |-> reader.end, on |-> reader.on,
                         count |-> reader.count, writers |-> reader.writers,
                         left |-> reader.left]
    BY <2>1, <2>3, <2>4, PassWithin
  <2>6. EndOfPayload \in Nat
    <3>1. CASE security
      <4>1. Width(SubSeq(frame, 1, reader.pos + Len(want))) <= EndOfPayload
        BY <2>4, <3>1
      <4>2. Width(SubSeq(frame, 1, reader.pos + Len(want))) \in Nat
        BY <2>1, <2>5, FrameIsDatagram, WidthOfFront
      <4>3. EndOfPayload \in Int
        BY <2>1 DEF EndOfPayload, SignatureLength, ReaderTyped
      <4>4. QED
        BY <4>1, <4>2, <4>3
    <3>2. CASE ~security
      BY <2>1, <3>2 DEF EndOfPayload, ReaderTyped
    <3>3. QED
      BY <3>1, <3>2
  <2>7. receiver.require \/ checked # None => sent.key = receiver.key /\ sent.fate = "whole"
    <3> SUFFICES ASSUME receiver.require \/ checked # None
                 PROVE sent.key = receiver.key /\ sent.fate = "whole"
      OBVIOUS
    <3>1. verified
      <4>1. receiver.require => verified
        BY <2>4 DEF SignatureHolds
      <4> HIDE DEF verified
      <4>2. QED
        BY <4>1
    <3>2. Len(frame) > 0
      BY <2>1, <2>3, <2>5, <3>1
    <3>3. QED
      BY <2>1, <3>1, <3>2, VerifiedIsWhole
  <2> HIDE DEF want, security, verified, supported, token, checked
  <2>8. reader' = [pos |-> reader.pos + Len(want), end |-> EndOfPayload, on |-> reader.on,
                   count |-> reader.count, writers |-> reader.writers, left |-> reader.left]
    <3>1. PICK r : r = Pass(want)
      OBVIOUS
    <3>2. reader' = [r EXCEPT !.end = EndOfPayload]
      BY <1>3, <3>1
    <3>3. QED
      BY <2>5, <3>1, <3>2
  <2>9. /\ ReaderTyped' /\ reader'.pos = reader.pos + Len(want) /\ reader'.count = reader.count
        /\ reader'.writers = reader.writers
    BY <2>1, <2>5, <2>6, <2>8, ReaderMade DEF ReaderTyped
  <2>10. /\ MessageTyped' /\ message'.messages = message.messages
         /\ message'.verified = checked
    <3>1. PICK p \in Nat, t \in DOMAIN PidSize, g \in Nat \cup {None}, s \in Nat \cup {None},
               m \in Seq(DataSet),
               a \in {message.signed}, v \in {message.verified}, k \in {message.token} :
               message = [pid |-> p, pid_type |-> t, group |-> g, sequence |-> s,
                          messages |-> m, signed |-> a, verified |-> v, token |-> k]
      BY <2>1, MessageIs
    <3>2. message' = [pid |-> p, pid_type |-> t, group |-> g, sequence |-> s,
                      messages |-> m, signed |-> security, verified |-> checked,
                      token |-> token]
      BY <1>3, <3>1
    <3>3. QED
      BY <3>1, <3>2, MessageMade
  <2>11. /\ message.messages = <<>> /\ (reader.writers = <<>> \/ Len(reader.writers) = reader.count)
         /\ reader.count > 0 /\ reader.count \in Nat
    BY <1>1, <2>1 DEF Inv, Progress, ReaderTyped
  <2>12. Progress'
    <3>1. reader'.pos <= Len(frame) /\ Len(frame') = Len(frame)
      <4>1. reader.pos + Len(want) <= Len(frame)
        BY <2>4 DEF Taken, There
      <4>2. QED
        BY <2>4, <2>9, <4>1
    <3>2. pc \in Sections \ {"message", "field"} /\ pc' \in Sections \ {"message", "field"}
      BY <1>1, <2>4 DEF Sections
    <3>3. QED
      BY <2>9, <2>10, <2>11, <3>1, <3>2, HeaderOnly
  <2>13. Trusted'
    BY <2>4, <2>7, <2>10 DEF Trusted
  <2>14. QED
    BY <1>1, <1>3, <2>9, <2>10, <2>12, <2>13, InvGoes DEF Sections
<1>4. QED
  BY <1>2, <1>3 DEF DecodeSecurity

-----------------------------------------------------------------------------
(* The DataSetMessages. *)

\* Where a DataSetMessage leads.
LEMMA AfterIs ==
    ASSUME NEW n \in Nat, NEW left \in Nat
    PROVE  /\ After(n, left) \in {"field", "message", "decoded"}
           /\ After(n, left) = "field" => left > 0
           /\ After(n, left) = "message" => n < reader.count
BY DEF After

\* A section that sets how many fields are left.
LEMMA LeftMade ==
    ASSUME Inv, pc \in Sections, NEW S, NEW want \in Wanted(S), Taken(want), NEW left \in Nat,
           reader' = [Pass(want) EXCEPT !.left = left]
    PROVE  /\ ReaderTyped' /\ reader'.pos <= Len(frame) /\ reader'.count = reader.count
           /\ reader'.writers = reader.writers /\ reader'.left = left
<1>1. Framed /\ ~Sending /\ ReaderTyped
  BY SectionReads
<1>2. /\ reader.pos + Len(want) \in Nat
      /\ Pass(want) = [pos |-> reader.pos + Len(want), end |-> reader.end, on |-> reader.on,
                       count |-> reader.count, writers |-> reader.writers,
                       left |-> reader.left]
  BY <1>1, PassWithin
<1>3. PICK r : r = Pass(want)
  OBVIOUS
<1>4. reader' = [r EXCEPT !.left = left]
  BY <1>3
<1>5. reader' = [pos |-> reader.pos + Len(want), end |-> reader.end, on |-> reader.on,
                 count |-> reader.count, writers |-> reader.writers, left |-> left]
  BY <1>2, <1>3, <1>4
<1>6. reader.pos + Len(want) <= Len(frame)
  BY DEF Taken, There
<1>7. /\ ReaderTyped' /\ reader'.pos = reader.pos + Len(want) /\ reader'.count = reader.count
      /\ reader'.writers = reader.writers /\ reader'.left = left
  BY <1>1, <1>2, <1>5, ReaderMade DEF ReaderTyped
<1>8. QED
  BY <1>6, <1>7

\* A section of a DataSetMessage, which changes the messages.
LEMMA InvPayload ==
    ASSUME Inv, pc \in {"message", "field"}, NEW want, NEW S, want \in Wanted(S), NEW supported,
           NEW n \in Nat, NEW left \in Nat, n <= reader.count,
           Goes(want, supported, After(n, left)),
           reader' = [Pass(want) EXCEPT !.left = left],
           MessageTyped', message'.messages # <<>>, Len(message'.messages) = n,
           message'.verified = message.verified
    PROVE  Inv'
<1>1. pc \in Sections
  BY DEF Sections
<1>2. /\ After(n, left) \in {"field", "message", "decoded"}
      /\ After(n, left) = "field" => left > 0
      /\ After(n, left) = "message" => n < reader.count
  BY AfterIs
<1>3. Taken(want) /\ pc' = After(n, left) /\ UNCHANGED <<sent, receiver, frame>>
  BY DEF Goes
<1>4. /\ ReaderTyped' /\ reader'.pos <= Len(frame) /\ reader'.count = reader.count
      /\ reader'.writers = reader.writers /\ reader'.left = left
  BY <1>1, <1>3, LeftMade
<1>5. reader.writers = <<>> \/ Len(reader.writers) = reader.count
  BY DEF Inv, Progress
<1>6. Progress'
  <2>1. pc' \in {"field", "message", "decoded"} /\ pc' \notin Sections \ {"message", "field"}
    BY <1>2, <1>3 DEF Sections
  <2>2. /\ pc' = "message" => Len(message'.messages) < reader'.count
        /\ pc' = "field" => message'.messages # <<>> /\ reader'.left > 0
    BY <1>2, <1>3, <1>4
  <2>3. reader'.pos <= Len(frame') /\ Len(message'.messages) <= reader'.count
        /\ (reader'.writers = <<>> \/ Len(reader'.writers) = reader'.count)
    BY <1>3, <1>4, <1>5
  <2>4. QED
    BY <2>1, <2>2, <2>3 DEF Progress
<1>7. Trusted'
  BY <1>2, <1>3 DEF Inv, Trusted
<1>8. After(n, left) \in Sections \cup Ends
  BY <1>2 DEF Sections, Ends
<1>9. QED
  BY <1>1, <1>4, <1>6, <1>7, <1>8, InvGoes

\* The header of a DataSetMessage begins one more, of as many as were counted.
LEMMA InvMessage == Inv /\ DecodeMessage => Inv'
<1> SUFFICES ASSUME Inv, DecodeMessage PROVE Inv'
  OBVIOUS
<1> DEFINE flags1 == FlagsOf("flags1")
           flags2 == IF "flags2" \in flags1 /\ There(2) THEN frame[reader.pos + 2].value ELSE {}
           keep_alive == "keep alive" \in flags2
           want == <<<<"flags1", 1>>>> \o If("flags2" \in flags1, <<<<"flags2", 1>>>>)
                   \o If("sequence" \in flags1, <<<<"sequence", 2>>>>)
                   \o If("timestamp" \in flags2, <<<<"timestamp", 8>>>>)
                   \o If("picoseconds" \in flags2, <<<<"picoseconds", 2>>>>)
                   \o If("status" \in flags1, <<<<"message status", 2>>>>)
                   \o If("major" \in flags1, <<<<"major", 4>>>>)
                   \o If("minor" \in flags1, <<<<"minor", 4>>>>)
                   \o If(~keep_alive, <<<<"field count", 2>>>>)
           supported == keep_alive \/ ("delta" \notin flags2 /\ "raw" \notin flags1)
           count == Got(want, "field count", 0)
           n == Len(message.messages) + 1
           d == [writer |-> IF reader.writers = <<>> THEN 0 ELSE reader.writers[n],
                 sequence |-> Got(want, "sequence", None),
                 keep_alive |-> keep_alive, fields |-> <<>>,
                 encoding |-> IF keep_alive \/ "DataValue" \in flags1 THEN "DataValue"
                              ELSE "Variant"]
<1>1. pc = "message" /\ pc \in Sections
  BY DEF DecodeMessage, Sections
<1>2. ASSUME Fails(want, supported) PROVE Inv'
  BY <1>1, <1>2, InvFails
<1>3. ASSUME Goes(want, supported, After(n, count)),
             reader' = [Pass(want) EXCEPT !.left = count],
             message' = [message EXCEPT !.messages = Append(@, d)]
      PROVE  Inv'
  <2>1. /\ Framed /\ ~Sending /\ ReaderTyped /\ MessageTyped /\ reader.pos \in Nat
    BY <1>1, SectionReads
  <2>2. want \in Wanted(Nat)
    <3>1. /\ "flags1" \in Kinds /\ "flags2" \in Kinds /\ "sequence" \in Kinds
          /\ "timestamp" \in Kinds /\ "picoseconds" \in Kinds /\ "message status" \in Kinds
          /\ "major" \in Kinds /\ "minor" \in Kinds /\ "field count" \in Kinds
          /\ 1 \in Nat /\ 2 \in Nat /\ 4 \in Nat /\ 8 \in Nat
      BY DEF Kinds, FlagKinds, Numbers, Skips
    <3> HIDE DEF flags1, flags2, keep_alive
    <3>2. QED
      BY <3>1, OneWanted, JoinWanted, Zenon
  <2>3. Taken(want)
    BY <1>3 DEF Goes
  <2> HIDE DEF want, supported
  <2>4. count \in Nat
    <3>1. "field count" \in Numbers
      BY DEF Numbers
    <3>2. \A kind \in Numbers : Got(want, kind, 0) = 0 \/ Got(want, kind, 0) \in Nat
      BY <2>1, <2>2, <2>3, GotAsWanted
    <3>3. count = 0 \/ count \in Nat
      BY <3>1, <3>2, Zenon
    <3> HIDE DEF count
    <3>4. QED
      BY <3>3
  <2>5. Got(want, "sequence", None) \in Nat \cup {None}
    <3>1. Got(want, "sequence", None) = None \/ Got(want, "sequence", None) \in Residues
      BY <2>1, <2>2, <2>3, GotAsWanted
    <3>2. QED
      BY <3>1, Residue
  <2>6. /\ message.messages \in Seq(DataSet) /\ Len(message.messages) \in Nat
        /\ n \in Nat /\ n <= reader.count /\ n > 0
    <3>1. message.messages \in Seq(DataSet) /\ reader.count \in Nat
      BY <2>1 DEF MessageTyped, Encodable, ReaderTyped
    <3>2. Len(message.messages) < reader.count
      BY <1>1 DEF Inv, Progress
    <3>3. QED
      BY <3>1, <3>2
  <2>7. (IF reader.writers = <<>> THEN 0 ELSE reader.writers[n]) \in Nat
    <3>1. CASE reader.writers = <<>>
      BY <3>1
    <3>2. CASE reader.writers # <<>>
      <4>1. reader.writers \in Seq(Nat) /\ Len(reader.writers) = reader.count
        BY <2>1, <3>2 DEF Inv, Progress, ReaderTyped
      <4>2. n \in 1..Len(reader.writers)
        BY <2>6, <4>1
      <4> HIDE DEF n
      <4>3. reader.writers[n] \in Nat
        BY <4>1, <4>2
      <4>4. QED
        BY <3>2, <4>3
    <3>3. QED
      BY <3>1, <3>2
  <2>8. d \in DataSet
    <3> HIDE DEF flags1, flags2, n
    <3>1. keep_alive \in BOOLEAN /\ <<>> \in Seq(FieldValue)
      OBVIOUS
    <3> HIDE DEF keep_alive
    <3>2. (IF keep_alive \/ "DataValue" \in flags1 THEN "DataValue" ELSE "Variant")
             \in {"DataValue", "Variant"}
      OBVIOUS
    <3>3. QED
      BY <2>5, <2>7, <3>1, <3>2 DEF DataSet
  <2> HIDE DEF d, flags1, flags2, keep_alive, count
  <2>9. /\ MessageTyped' /\ message'.messages = Append(message.messages, d)
        /\ message'.verified = message.verified
    <3>1. PICK p \in Nat, t \in DOMAIN PidSize, g \in Nat \cup {None}, s \in Nat \cup {None},
               m \in Seq(DataSet),
               a \in {message.signed}, v \in {message.verified}, k \in {message.token} :
               message = [pid |-> p, pid_type |-> t, group |-> g, sequence |-> s,
                          messages |-> m, signed |-> a, verified |-> v, token |-> k]
      BY <2>1, MessageIs
    <3>2. message' = [pid |-> p, pid_type |-> t, group |-> g, sequence |-> s,
                      messages |-> Append(m, d), signed |-> a, verified |-> v, token |-> k]
      BY <1>3, <3>1
    <3>3. Append(m, d) \in Seq(DataSet) /\ message.messages = m
      BY <2>8, <3>1
    <3>4. QED
      BY <3>1, <3>2, <3>3, MessageMade
  <2>10. Len(message'.messages) = n /\ message'.messages # <<>>
    <3>1. Len(Append(message.messages, d)) = Len(message.messages) + 1
      BY <2>6, <2>8
    <3>2. Append(message.messages, d) # <<>>
      BY <2>6, <2>8
    <3>3. QED
      BY <2>9, <3>1, <3>2
  <2> HIDE DEF n
  <2>11. QED
    BY <1>1, <1>3, <2>2, <2>4, <2>6, <2>9, <2>10, InvPayload
<1>4. QED
  BY <1>2, <1>3 DEF DecodeMessage

-----------------------------------------------------------------------------
(* A field of a DataSetMessage. *)

\* The places of two parts, joined.
LEMMA PartsWanted ==
    ASSUME NEW S, NEW s \in Wanted(S), NEW t \in Wanted(S)
    PROVE  /\ s \o t \in Wanted(S) /\ Len(s \o t) = Len(s) + Len(t)
           /\ Len(s) \in Nat /\ Len(t) \in Nat
           /\ \A i \in 1..Len(s) : i \in 1..Len(s \o t) /\ (s \o t)[i] = s[i]
           /\ \A i \in 1..Len(t) : /\ Len(s) + i \in 1..Len(s \o t)
                                   /\ (s \o t)[Len(s) + i] = t[i]
BY DEF Wanted

FrontOf(s, t) == \A i \in 1..Len(s) : i \in 1..Len(t) /\ t[i] = s[i]

\* The front of what is wanted stays when more follows.
LEMMA OneMorePart ==
    ASSUME NEW S, NEW s, NEW t \in Wanted(S), NEW u \in Wanted(S), FrontOf(s, t)
    PROVE  t \o u \in Wanted(S) /\ FrontOf(s, t \o u)
<1>1. t \o u \in Wanted(S)
  BY PartsWanted
<1>2. ASSUME NEW i \in 1..Len(s) PROVE i \in 1..Len(t \o u) /\ (t \o u)[i] = s[i]
  <2>1. i \in 1..Len(t) /\ t[i] = s[i]
    BY DEF FrontOf
  <2>2. \A j \in 1..Len(t) : j \in 1..Len(t \o u) /\ (t \o u)[j] = t[j]
    BY PartsWanted
  <2>3. QED
    BY <2>1, <2>2, Zenon
<1>3. QED
  BY <1>1, <1>2, Zenon DEF FrontOf

\* The front of what is wanted stays when four parts follow.
LEMMA FrontKept ==
    ASSUME NEW S, NEW s \in Wanted(S), NEW a \in Wanted(S), NEW b \in Wanted(S),
           NEW c \in Wanted(S), NEW d \in Wanted(S)
    PROVE  /\ s \o a \o b \o c \o d \in Wanted(S)
           /\ FrontOf(s, s \o a \o b \o c \o d)
<1>1. FrontOf(s, s)
  BY DEF FrontOf
<1>2. s \o a \in Wanted(S) /\ FrontOf(s, s \o a)
  BY <1>1, OneMorePart, Zenon
<1>3. s \o a \o b \in Wanted(S) /\ FrontOf(s, s \o a \o b)
  BY <1>2, OneMorePart, Zenon
<1>4. s \o a \o b \o c \in Wanted(S) /\ FrontOf(s, s \o a \o b \o c)
  BY <1>3, OneMorePart, Zenon
<1>5. QED
  BY <1>4, OneMorePart, Zenon

\* The cells of a field before its values: what is at its place, with what comes after.
LEMMA PlacesKept ==
    ASSUME NEW S, NEW head \in Wanted(S), NEW more \in Wanted(S), NEW values \in Wanted(S),
           NEW i \in 1..Len(head)
    PROVE  /\ Len(head \o more) = Len(head) + Len(more)
           /\ i \in 1..Len(head \o more \o values)
           /\ (head \o more \o values)[i] = head[i]
<1>1. /\ head \o more \in Wanted(S) /\ Len(head \o more) = Len(head) + Len(more)
      /\ i \in 1..Len(head \o more) /\ (head \o more)[i] = head[i]
  BY PartsWanted
<1>2. QED
  BY <1>1, PartsWanted

\* Pairs of cells.
LEMMA TwoJoined ==
    ASSUME NEW x, NEW y
    PROVE  <<x>> \o <<y>> = <<x, y>> /\ <<>> \o <<y>> = <<y>>
<1>1. <<x>> \in Seq({x, y}) /\ <<y>> \in Seq({x, y}) /\ <<>> \in Seq({x, y})
  OBVIOUS
<1> DEFINE both == <<x>> \o <<y>>
           one == <<>> \o <<y>>
<1>2. both \in Seq({x, y}) /\ Len(both) = 2 /\ both[1] = x /\ both[2] = y
  BY <1>1
<1>3. one \in Seq({x, y}) /\ Len(one) = 1 /\ one[1] = y
  BY <1>1
<1> HIDE DEF both, one
<1>4. both = <<x, y>>
  BY <1>2
<1>5. one = <<y>>
  BY <1>3
<1>6. QED
  BY <1>4, <1>5 DEF both, one

\* Places of a datagram, counted from the reader.
LEMMA NextPlace ==
    ASSUME NEW p \in Nat, NEW l \in Nat
    PROVE  \A a \in {1, 2} : p + (a + 1) <= l => p + a + 1 \in 1..l
OBVIOUS

\* The same sum.
LEMMA SumOfThree ==
    ASSUME NEW p \in Nat, NEW a \in Nat, NEW i \in Nat
    PROVE  p + (a + i) = p + a + i
OBVIOUS

\* Only the messages of a message change, or the fields of the last.
LEMMA MessagesMade ==
    ASSUME MessageTyped, NEW more \in Seq(DataSet)
    PROVE  message' = [message EXCEPT !.messages = more]
              => /\ MessageTyped' /\ message'.messages = more
                 /\ message'.verified = message.verified
<1>1. PICK p \in Nat, t \in DOMAIN PidSize, g \in Nat \cup {None}, s \in Nat \cup {None},
           m \in Seq(DataSet),
           a \in {message.signed}, v \in {message.verified}, k \in {message.token} :
           message = [pid |-> p, pid_type |-> t, group |-> g, sequence |-> s,
                      messages |-> m, signed |-> a, verified |-> v, token |-> k]
  BY MessageIs
<1> DEFINE made == [pid |-> p, pid_type |-> t, group |-> g, sequence |-> s,
                    messages |-> more, signed |-> a, verified |-> v, token |-> k]
<1>2. [message EXCEPT !.messages = more] = made
  BY <1>1
<1>3. message' = made => MessageTyped' /\ message'.messages = more /\ message'.verified = v
  BY MessageMade
<1>4. message.verified = v
  OBVIOUS
<1>5. QED
  BY <1>2, <1>3, <1>4, Zenon

\* A typed field added to the last DataSetMessage leaves the message typed.
LEMMA FieldMade ==
    ASSUME MessageTyped, message.messages # <<>>, NEW f \in FieldValue,
           message' = [message EXCEPT !.messages[Len(message.messages)].fields = Append(@, f)]
    PROVE  /\ MessageTyped' /\ message'.messages # <<>>
           /\ Len(message'.messages) = Len(message.messages)
           /\ message'.verified = message.verified
<1>1. PICK p \in Nat, t \in DOMAIN PidSize, g \in Nat \cup {None}, s \in Nat \cup {None},
           m \in Seq(DataSet),
           a \in {message.signed}, v \in {message.verified}, k \in {message.token} :
           message = [pid |-> p, pid_type |-> t, group |-> g, sequence |-> s,
                      messages |-> m, signed |-> a, verified |-> v, token |-> k]
  BY MessageIs
<1>2. message.messages = m /\ m # <<>>
  BY <1>1
<1> DEFINE n == Len(m)
           d == m[n]
           e == [d EXCEPT !.fields = Append(@, f)]
           more == [m EXCEPT ![n] = e]
<1>3. n \in Nat /\ n \in 1..n /\ d \in DataSet
  BY <1>1, <1>2
<1>4. e \in DataSet
  <2> HIDE DEF d
  <2>1. d.fields \in Seq(FieldValue)
    BY <1>3 DEF DataSet
  <2>2. Append(d.fields, f) \in Seq(FieldValue)
    BY <2>1
  <2>3. QED
    BY <1>3, <2>2 DEF DataSet
<1>5. message' = [message EXCEPT !.messages = more]
  BY <1>2
<1> HIDE DEF e
<1>6. more \in Seq(DataSet) /\ Len(more) = n /\ more # <<>>
  BY <1>1, <1>2, <1>3, <1>4
<1> HIDE DEF more
<1>7. MessageTyped' /\ message'.messages = more /\ message'.verified = message.verified
  BY <1>5, <1>6, MessagesMade, Zenon
<1>8. QED
  BY <1>2, <1>6, <1>7

\* What was wanted of other kinds only leaves the default.
LEMMA NothingGot ==
    ASSUME NEW P, NEW want \in Seq(P), NEW kind, \A p \in P : p[1] # kind, NEW default
    PROVE  Got(want, kind, default) = default
<1>1. \A i \in DOMAIN want : want[i] \in P
  OBVIOUS
<1>2. QED
  BY <1>1 DEF Got

\* A field as a decoder makes it: of no type if it has no value, and without a status and a
\* time of its own unless it came as a DataValue.
TidyField(f, datavalue) ==
    /\ f.type = "NULL" <=> f.value = None
    /\ datavalue \/ (f.status = "good" /\ f.time = None)

\* What a section does with a field it took.
GoesWithField(want, supported, f) ==
    /\ TidyField(f, message.messages[Len(message.messages)].encoding = "DataValue")
    /\ Goes(want, supported, After(Len(message.messages), reader.left - 1))
    /\ reader' = [Pass(want) EXCEPT !.left = @ - 1]
    /\ message' = [message EXCEPT !.messages[Len(message.messages)].fields = Append(@, f)]

\* A field has the type its Variant names and as many values as its length.
LEMMA FieldDecoded ==
    ASSUME Inv, DecodeField
    PROVE  \/ \E want, supported : Fails(want, supported)
           \/ \E S : \E want \in Wanted(S), f \in FieldValue : \E supported :
                 GoesWithField(want, supported, f)
<1> DEFINE n == Len(message.messages)
           datavalue == message.messages[n].encoding = "DataValue"
           mask == IF datavalue THEN FlagsOf("DataValue") ELSE {"value"}
           at == IF datavalue THEN 2 ELSE 1
           variant == IF "value" \in mask /\ There(at) THEN frame[reader.pos + at].value
                      ELSE <<"null", "NULL">>
           array == variant[1] = "array"
           length == There(at + 1) /\ frame[reader.pos + at + 1].kind = "array length"
           count == CASE variant[1] = "null" -> 0
                      [] array -> IF length THEN frame[reader.pos + at + 1].value ELSE 0
                      [] OTHER -> 1
           first == at + (IF array THEN 1 ELSE 0)
           head == If(datavalue, <<<<"DataValue", 1>>>>)
                   \o If("value" \in mask, <<<<"variant", 1>>>>)
           sized == head \o If(array, <<<<"array length", 4>>>>)
           scalars == [i \in 1..count |-> <<"scalar", ScalarSize[variant[2]]>>]
           valued == sized \o scalars
           rest == Len(valued)
           want == valued
                   \o If("status" \in mask, <<<<"status", 4>>>>)
                   \o If("time" \in mask, <<<<"time", 8>>>>)
                   \o If("server time" \in mask, <<<<"server time", 8>>>>)
                   \o If("picoseconds" \in mask, <<<<"picoseconds", 2>>>>)
           values == [i \in 1..count |-> frame[reader.pos + first + i].value]
           supported == variant[1] # "matrix"
           f == [type |-> variant[2],
                 value |-> CASE array -> values [] variant[1] = "null" -> None
                             [] OTHER -> values[1],
                 status |-> Got(want, "status", "good"),
                 time |-> Got(want, "time", None)]
<1>1. pc = "field" /\ pc \in Sections
  BY DEF DecodeField, Sections
<1>3. ASSUME Goes(want, supported, After(n, reader.left - 1)),
             reader' = [Pass(want) EXCEPT !.left = @ - 1],
             message' = [message EXCEPT !.messages[n].fields = Append(@, f)]
      PROVE  \E S : \E x \in Wanted(S), g \in FieldValue : \E y : GoesWithField(x, y, g)
  <2>1. /\ Framed /\ ~Sending /\ ReaderTyped /\ MessageTyped /\ reader.pos \in Nat
        /\ Len(frame) \in Nat
    BY <1>1, SectionReads
  <2>2. Taken(want) /\ supported
    BY <1>3 DEF Goes
  <2>3. count \in Nat
    <3>1. length => frame[reader.pos + at + 1].value \in Nat
      <4> SUFFICES ASSUME length PROVE frame[reader.pos + at + 1].value \in Nat
        OBVIOUS
      <4> DEFINE c == frame[reader.pos + at + 1]
      <4>1. reader.pos + at + 1 \in 1..Len(frame)
        <5>1. reader.pos + (at + 1) <= Len(frame)
          BY DEF There
        <5>2. at \in {1, 2}
          OBVIOUS
        <5>3. \A a \in {1, 2} : reader.pos + (a + 1) <= Len(frame) =>
                                reader.pos + a + 1 \in 1..Len(frame)
          BY <2>1, NextPlace, Zenon
        <5> HIDE DEF at
        <5>4. QED
          BY <5>1, <5>2, <5>3, Zenon
      <4>2. Datagram(frame)
        BY <2>1, FrameIsDatagram
      <4>3. c \in Cells \/ c.kind = "signature"
        BY <4>1, <4>2, CellAt
      <4>4. c.kind = "array length" /\ "array length" \in Numbers
        BY DEF Numbers
      <4> HIDE DEF c
      <4>5. c \in Cells
        BY <4>3, <4>4
      <4>6. c.value \in Nat
        BY <4>4, <4>5, CellKinds
      <4>7. QED
        BY <4>6 DEF c
    <3> HIDE DEF length, array, variant
    <3>2. CASE variant[1] = "null"
      <4>1. ~array
        BY <3>2 DEF array
      <4>2. QED
        BY <3>2, <4>1
    <3>3. CASE variant[1] # "null" /\ array
      BY <3>1, <3>3
    <3>4. CASE variant[1] # "null" /\ ~array
      BY <3>4
    <3>5. QED
      BY <3>2, <3>3, <3>4
  <2> DEFINE size == ScalarSize[variant[2]]
             S == Nat \cup {size}
  <2> HIDE DEF count, size
  <2>4. /\ "DataValue" \in Kinds /\ "variant" \in Kinds /\ "array length" \in Kinds
        /\ "scalar" \in Kinds /\ "status" \in Kinds /\ "time" \in Kinds
        /\ "server time" \in Kinds /\ "picoseconds" \in Kinds
    BY DEF Kinds, FlagKinds, Numbers, Skips
  <2>5. 1 \in S /\ 2 \in S /\ 4 \in S /\ 8 \in S /\ size \in S
    OBVIOUS
  <2> HIDE DEF S
  <2>6. head \in Wanted(S) /\ sized \in Wanted(S)
    <3> HIDE DEF datavalue, mask, array
    <3>1. QED
      BY <2>4, <2>5, OneWanted, JoinWanted, Zenon
  <2>7. scalars \in Wanted(S) /\ Len(scalars) = count /\ valued \in Wanted(S)
    <3>1. scalars = [i \in 1..count |-> <<"scalar", size>>]
      BY DEF size
    <3>2. <<"scalar", size>> \in Kinds \X S
      BY <2>4, <2>5
    <3>3. scalars \in Wanted(S) /\ Len(scalars) = count
      <4> HIDE DEF scalars
      <4>1. scalars \in Seq(Kinds \X S) /\ Len(scalars) = count
        BY <2>3, <3>1, <3>2, RepeatInSeq, Zenon
      <4>2. QED
        BY <4>1 DEF Wanted
    <3> HIDE DEF scalars, sized
    <3>4. QED
      BY <2>6, <3>3, JoinWanted, Zenon
  <2>8. /\ want \in Wanted(S)
        /\ \A i \in 1..Len(valued) : i \in 1..Len(want) /\ want[i] = valued[i]
    <3> DEFINE w1 == If("status" \in mask, <<<<"status", 4>>>>)
               w2 == If("time" \in mask, <<<<"time", 8>>>>)
               w3 == If("server time" \in mask, <<<<"server time", 8>>>>)
               w4 == If("picoseconds" \in mask, <<<<"picoseconds", 2>>>>)
    <3> HIDE DEF mask, valued
    <3>1. w1 \in Wanted(S) /\ w2 \in Wanted(S) /\ w3 \in Wanted(S) /\ w4 \in Wanted(S)
      BY <2>4, <2>5, OneWanted, JoinWanted, Zenon
    <3> HIDE DEF w1, w2, w3, w4
    <3>2. /\ valued \o w1 \o w2 \o w3 \o w4 \in Wanted(S)
          /\ FrontOf(valued, valued \o w1 \o w2 \o w3 \o w4)
      BY <2>7, <3>1, FrontKept, Zenon
    <3>7. want = valued \o w1 \o w2 \o w3 \o w4
      BY DEF w1, w2, w3, w4
    <3> HIDE DEF want
    <3>8. QED
      BY <3>2, <3>7 DEF FrontOf
  <2>9. "value" \in mask => /\ Len(head) = at /\ head[at] = <<"variant", 1>>
                            /\ Len(sized) = first /\ at \in 1..Len(valued)
                            /\ valued[at] = <<"variant", 1>>
    <3> SUFFICES ASSUME "value" \in mask
                 PROVE  /\ Len(head) = at /\ head[at] = <<"variant", 1>>
                        /\ Len(sized) = first /\ at \in 1..Len(valued)
                        /\ valued[at] = <<"variant", 1>>
      OBVIOUS
    <3>1. Len(head) = at /\ head[at] = <<"variant", 1>> /\ at \in 1..Len(head)
      <4> HIDE DEF mask
      <4>1. head = IF datavalue THEN <<<<"DataValue", 1>>>> \o <<<<"variant", 1>>>>
                   ELSE <<>> \o <<<<"variant", 1>>>>
        BY DEF If
      <4>2. head = IF datavalue THEN <<<<"DataValue", 1>>, <<"variant", 1>>>>
                   ELSE <<<<"variant", 1>>>>
        BY <4>1, TwoJoined, Zenon
      <4> HIDE DEF head, datavalue
      <4>3. QED
        BY <4>2
    <3> HIDE DEF at, head
    <3> DEFINE more == If(array, <<<<"array length", 4>>>>)
    <3>2. more \in Wanted(S) /\ Len(more) = IF array THEN 1 ELSE 0
      <4> HIDE DEF array
      <4>1. more \in Wanted(S)
        BY <2>4, <2>5, OneWanted, JoinWanted, Zenon
      <4>2. Len(more) = IF array THEN 1 ELSE 0
        BY DEF If
      <4>3. QED
        BY <4>1, <4>2
    <3>3. valued = head \o more \o scalars /\ sized = head \o more
      OBVIOUS
    <3> HIDE DEF more, sized, scalars, valued, array
    <3>4. /\ Len(head \o more) = Len(head) + Len(more)
          /\ at \in 1..Len(head \o more \o scalars)
          /\ (head \o more \o scalars)[at] = head[at]
      <4>1. /\ head \in Wanted(S) /\ more \in Wanted(S) /\ scalars \in Wanted(S)
            /\ at \in 1..Len(head)
        BY <2>6, <2>7, <3>1, <3>2, Zenon
      <4>2. QED
        BY <4>1, PlacesKept
    <3>5. Len(sized) = first
      BY <3>1, <3>2, <3>3, <3>4
    <3>6. QED
      BY <3>1, <3>3, <3>4, <3>5
  <2>10. variant \in Variants
    <3>1. CASE "value" \in mask /\ There(at)
      <4> DEFINE c == frame[reader.pos + at]
      <4>1. at \in 1..Len(want) /\ want[at] = <<"variant", 1>>
        <5> HIDE DEF at, valued, want, mask
        <5>1. QED
          BY <2>8, <2>9, <3>1
      <4>2. c \in Cells /\ c.kind = want[at][1]
        <5> HIDE DEF at, want
        <5>1. QED
          BY <2>1, <2>2, <2>8, <4>1, ReadAsWanted
      <4>3. c.kind = "variant"
        <5>1. <<"variant", 1>>[1] = "variant"
          OBVIOUS
        <5> HIDE DEF c, at, want
        <5>2. QED
          BY <4>1, <4>2, <5>1, Zenon
      <4> HIDE DEF c
      <4>4. c.value \in Variants
        BY <4>2, <4>3, CellKinds
      <4>5. QED
        BY <3>1, <4>4 DEF c
    <3>2. CASE ~("value" \in mask /\ There(at))
      BY <3>2 DEF Variants
    <3>3. QED
      BY <3>1, <3>2
  <2>11. \A i \in 1..count : frame[reader.pos + first + i].value \in Values \cup {Damaged}
    <3> SUFFICES ASSUME NEW i \in 1..count
                 PROVE  frame[reader.pos + first + i].value \in Values \cup {Damaged}
      OBVIOUS
    <3>1. "value" \in mask
      <4>1. "value" \notin mask => count = 0
        BY DEF count
      <4>2. QED
        BY <4>1
    <3>2. first \in Nat /\ Len(sized) = first
      <4>1. first \in Nat
        OBVIOUS
      <4>2. QED
        BY <2>9, <3>1, <4>1
    <3>3. first + i \in 1..Len(want) /\ want[first + i] = <<"scalar", size>>
      <4>1. scalars[i] = <<"scalar", size>>
        BY DEF size
      <4> HIDE DEF first, sized, scalars, want
      <4>2. first + i \in 1..Len(valued) /\ valued[first + i] = scalars[i]
        <5>1. \A j \in 1..Len(scalars) : /\ Len(sized) + j \in 1..Len(sized \o scalars)
                                          /\ (sized \o scalars)[Len(sized) + j] = scalars[j]
          <6>1. sized \in Wanted(S) /\ scalars \in Wanted(S)
            BY <2>6, <2>7, Zenon
          <6>2. QED
            BY <6>1, PartsWanted
        <5>2. i \in 1..Len(scalars)
          BY <2>7
        <5>3. QED
          BY <3>2, <5>1, <5>2, Zenon
      <4> HIDE DEF valued
      <4>3. QED
        BY <2>8, <4>1, <4>2
    <3> DEFINE c == frame[reader.pos + (first + i)]
    <3>4. c \in Cells /\ c.kind = want[first + i][1]
      <4> HIDE DEF first, want
      <4>1. QED
        BY <2>1, <2>2, <2>8, <3>3, ReadAsWanted, ZenonT(30)
    <3>5. c.kind = "scalar"
      <4>1. <<"scalar", size>>[1] = "scalar"
        OBVIOUS
      <4> HIDE DEF c, first, want
      <4>2. QED
        BY <3>3, <3>4, <4>1, Zenon
    <3> HIDE DEF c, first
    <3>6. c.value \in Values \cup {Damaged}
      BY <3>4, <3>5, CellKinds
    <3>7. reader.pos + (first + i) = reader.pos + first + i
      <4>1. i \in Nat
        BY <2>3
      <4>2. first \in Nat /\ reader.pos \in Nat
        BY <2>1, <3>2, Zenon
      <4>3. QED
        BY <4>1, <4>2, SumOfThree, SMT
    <3>8. QED
      BY <3>6, <3>7 DEF c
  <2>12. f \in FieldValue
    <3> DEFINE value == CASE array -> values [] variant[1] = "null" -> None
                          [] OTHER -> values[1]
    <3>1. values \in Seq(Values \cup {Damaged}) /\ \A i \in 1..count : values[i] \in Values \cup {Damaged}
      <4> HIDE DEF first
      <4>1. values \in [1..count -> Values \cup {Damaged}]
        BY <2>11
      <4> HIDE DEF values
      <4>2. QED
        BY <2>3, <4>1
    <3>2. value \in Values \cup {None, Damaged} \cup Seq(Values \cup {Damaged})
      <4>1. CASE array
        <5>1. value = values
          BY <4>1
        <5> HIDE DEF values, value
        <5>2. QED
          BY <3>1, <5>1
      <4>2. CASE variant[1] = "null"
        <5>1. ~array
          BY <4>2
        <5>2. value = None
          BY <4>2, <5>1
        <5>3. QED
          BY <5>2
      <4>3. CASE ~array /\ variant[1] # "null"
        <5>1. count = 1 /\ value = values[1]
          BY <4>3 DEF count
        <5> HIDE DEF values, value
        <5>2. QED
          BY <3>1, <5>1
      <4>4. QED
        BY <4>1, <4>2, <4>3
    <3>3. variant[2] \in DOMAIN ScalarSize \cup {"NULL"}
      <4> HIDE DEF variant
      <4>1. QED
        BY <2>10 DEF Variants
    <3> HIDE DEF want
    <3>4. Got(want, "status", "good") \in {"good", "bad"}
      <4>1. \A kind : Got(want, kind, "good") = "good" \/ (kind = "status" => Got(want, kind, "good") \in {"good", "bad"})
        BY <2>1, <2>2, <2>8, GotAsWanted
      <4>2. QED
        BY <4>1
    <3>5. Got(want, "time", None) \in Nat \cup {None}
      <4>1. "time" \in Numbers
        BY DEF Numbers
      <4>2. \A kind \in Numbers : Got(want, kind, None) = None \/ Got(want, kind, None) \in Nat
        BY <2>1, <2>2, <2>8, GotAsWanted
      <4>3. QED
        BY <4>1, <4>2
    <3>6. f = [type |-> variant[2], value |-> value, status |-> Got(want, "status", "good"),
               time |-> Got(want, "time", None)]
      OBVIOUS
    <3> HIDE DEF value, variant, f
    <3>7. QED
      BY <3>2, <3>3, <3>4, <3>5, <3>6 DEF FieldValue
  <2>13. TidyField(f, datavalue)
    <3>1. variant[2] = "NULL" <=> f.value = None
      <4>1. CASE variant = <<"null", "NULL">>
        <5>1. variant[1] = "null" /\ variant[2] = "NULL"
          BY <4>1
        <5> HIDE DEF variant, values
        <5>2. f.value = None
          BY <5>1
        <5>3. QED
          BY <5>1, <5>2
      <4>2. CASE variant # <<"null", "NULL">>
        <5>1. variant[1] \in {"scalar", "array", "matrix"} /\ variant[2] \in DOMAIN ScalarSize
          <6> HIDE DEF variant
          <6>1. QED
            BY <2>10, <4>2 DEF Variants
        <5>2. variant[2] # "NULL"
          <6> HIDE DEF variant
          <6>1. QED
            BY <5>1 DEF ScalarSize
        <5>3. f.value = IF array THEN values ELSE values[1]
          <6> HIDE DEF variant, values
          <6>1. QED
            BY <5>1
        <5>4. f.value # None
          <6>1. CASE array
            <7>1. values \in Seq(Values \cup {Damaged})
              <8> HIDE DEF first
              <8>1. values \in [1..count -> Values \cup {Damaged}]
                BY <2>11
              <8> HIDE DEF values
              <8>2. QED
                BY <2>3, <8>1
            <7> HIDE DEF values, f, array
            <7>2. QED
              BY <5>3, <6>1, <7>1, WireConstants
          <6>2. CASE ~array
            <7>1. count = 1
              <8> HIDE DEF variant
              <8>1. QED
                BY <5>1, <6>2 DEF count
            <7>2. values[1] \in Values \cup {Damaged}
              <8> HIDE DEF first
              <8>1. QED
                BY <2>11, <7>1
            <7> HIDE DEF values, f, array
            <7>3. QED
              BY <5>3, <6>2, <7>2, WireConstants
          <6>3. QED
            BY <6>1, <6>2
        <5> HIDE DEF variant, f
        <5>5. QED
          BY <5>2, <5>4
      <4>3. QED
        BY <4>1, <4>2
    <3>2. ~datavalue => Got(want, "status", "good") = "good" /\ Got(want, "time", None) = None
      <4> SUFFICES ASSUME ~datavalue
                   PROVE  Got(want, "status", "good") = "good" /\ Got(want, "time", None) = None
        OBVIOUS
      <4> DEFINE K == {"variant", "array length", "scalar"}
                 P == K \X S
      <4>1. mask = {"value"}
        OBVIOUS
      <4>2. /\ "status" \notin mask /\ "time" \notin mask /\ "server time" \notin mask
            /\ "picoseconds" \notin mask
        BY <4>1
      <4>3. /\ <<<<"variant", 1>>>> \in Seq(P) /\ <<<<"array length", 4>>>> \in Seq(P)
            /\ <<"scalar", size>> \in P
        <5>1. <<"variant", 1>> \in P /\ <<"array length", 4>> \in P /\ <<"scalar", size>> \in P
          BY <2>5
        <5> HIDE DEF P
        <5>2. QED
          BY <5>1, OneInSeq, Zenon
      <4>4. scalars \in Seq(P)
        <5>1. scalars = [i \in 1..count |-> <<"scalar", size>>]
          BY DEF size
        <5> HIDE DEF scalars, P
        <5>2. QED
          BY <2>3, <4>3, <5>1, RepeatInSeq, Zenon
      <4>5. \A given, cells : (given => cells \in Seq(P)) => If(given, cells) \in Seq(P)
        BY GivenCells, Zenon
      <4>6. \A front, back \in Seq(P) : front \o back \in Seq(P)
        BY Joined, Zenon
      <4> HIDE DEF mask, scalars, P, datavalue, array
      <4>7. want \in Seq(P)
        BY <4>2, <4>3, <4>4, <4>5, <4>6, Zenon
      <4> HIDE DEF want
      <4>8. (\A p \in P : p[1] # "status") /\ (\A p \in P : p[1] # "time")
        BY DEF P
      <4>9. Got(want, "status", "good") = "good"
        BY <4>7, <4>8, NothingGot
      <4>10. Got(want, "time", None) = None
        BY <4>7, <4>8, NothingGot
      <4>11. QED
        BY <4>9, <4>10
    <3>3. /\ f.type = variant[2] /\ f.status = Got(want, "status", "good")
          /\ f.time = Got(want, "time", None)
      <4> HIDE DEF variant, want, values
      <4>1. QED
        OBVIOUS
    <3> HIDE DEF f, variant, want, datavalue
    <3>4. QED
      BY <3>1, <3>2, <3>3 DEF TidyField
  <2>14. /\ GoesWithField(want, supported, f)
    <3> HIDE DEF want, supported, f
    <3>1. QED
      BY <1>3, <2>13 DEF GoesWithField
  <2> HIDE DEF want, supported, f
  <2>15. QED
    BY <2>8, <2>12, <2>14, Zenon
<1>4. CASE Fails(want, supported)
  BY <1>4, Zenon
<1>5. QED
  BY <1>3, <1>4 DEF DecodeField

\* The fields of the last message are one more.
LEMMA InvField == Inv /\ DecodeField => Inv'
<1> SUFFICES ASSUME Inv, DecodeField PROVE Inv'
  OBVIOUS
<1> DEFINE n == Len(message.messages)
<1>1. pc = "field" /\ pc \in Sections
  BY DEF DecodeField, Sections
<1>2. ASSUME NEW want, NEW supported, Fails(want, supported) PROVE Inv'
  BY <1>1, <1>2, InvFails
<1>3. ASSUME NEW S, NEW want \in Wanted(S), NEW supported, NEW f \in FieldValue,
             GoesWithField(want, supported, f)
      PROVE  Inv'
  <2>1. /\ Framed /\ ~Sending /\ ReaderTyped /\ MessageTyped
    BY <1>1, SectionReads
  <2>2. /\ Goes(want, supported, After(n, reader.left - 1))
        /\ reader' = [Pass(want) EXCEPT !.left = @ - 1]
        /\ message' = [message EXCEPT !.messages[n].fields = Append(@, f)]
    BY <1>3 DEF GoesWithField
  <2>3. Taken(want)
    BY <2>2 DEF Goes
  <2>4. message.messages # <<>> /\ reader.left > 0 /\ n <= reader.count
    BY <1>1 DEF Inv, Progress
  <2>5. /\ MessageTyped' /\ message'.messages # <<>> /\ Len(message'.messages) = n
         /\ message'.verified = message.verified
    BY <2>1, <2>2, <2>4, FieldMade
  <2>6. reader.left - 1 \in Nat /\ n \in Nat
    <3>1. reader.left \in Nat /\ message.messages \in Seq(DataSet)
      BY <2>1 DEF ReaderTyped, MessageTyped, Encodable
    <3>2. QED
      BY <2>4, <3>1
  <2>7. reader' = [Pass(want) EXCEPT !.left = reader.left - 1]
    <3>1. Pass(want).left = reader.left
      <4>1. Pass(want) = [pos |-> reader.pos + Len(want), end |-> reader.end,
                          on |-> reader.on, count |-> reader.count,
                          writers |-> reader.writers, left |-> reader.left]
        BY <2>1, <2>3, PassWithin
      <4>2. QED
        BY <4>1
    <3>2. QED
      BY <2>2, <3>1
  <2> HIDE DEF n
  <2>8. QED
    BY <1>1, <2>2, <2>4, <2>5, <2>6, <2>7, InvPayload
<1>4. QED
  BY <1>2, <1>3, FieldDecoded

-----------------------------------------------------------------------------
(* The theorems. *)

\* The invariant is inductive.
LEMMA InvStutters == Inv /\ UNCHANGED vars => Inv'
BY DEF Inv, Typed, Framed, Whole, Progress, Trusted, ReaderTyped, MessageTyped, Sending, vars

\* Every step keeps the invariant,
LEMMA InvNext == Inv /\ [Next]_vars => Inv'
<1>1. CASE Next
  BY <1>1, InvSends, InvArrive, InvFlags, InvPublisherId, InvGroupHeader, InvPayloadHeader,
     InvTimes, InvSecurity, InvSizes, InvMessage, InvField, InvRelay, Zenon DEF Next
<1>2. CASE UNCHANGED vars
  BY <1>2, InvStutters, Zenon
<1>3. QED
  BY <1>1, <1>2

\* which therefore holds of every state.
LEMMA InvInvariant == Spec => []Inv
BY InvInit, InvNext, PTL DEF Spec

\* What the invariant says of the types, and of the signature.
LEMMA InvTypes == Inv => TypeOK
<1> SUFFICES ASSUME Inv PROVE TypeOK
  OBVIOUS
<1>1. /\ pc \in Sections \cup Ends \cup {"send", "refused", "under way"}
      /\ receiver \in Receivers
  BY DEF Inv, Typed
<1>2. ASSUME pc \in Sections \cup Ends PROVE reader.pos \in 0..Len(frame)
  <2>1. ~Sending /\ Framed /\ reader.pos \in Nat /\ reader.pos <= Len(frame)
    BY <1>2 DEF Inv, Typed, ReaderTyped, Progress, Sections, Ends, Sending
  <2>2. Len(frame) \in Nat
    BY <2>1, FrameIsDatagram
  <2>3. QED
    BY <2>1, <2>2
<1>3. reader.left \in Nat /\ reader.end \in Nat /\ Len(message.messages) <= reader.count
  BY DEF Inv, Typed, ReaderTyped, Progress
<1>4. /\ message.pid \in Nat /\ message.pid_type \in DOMAIN PidSize
      /\ message.messages \in Seq(DataSet)
  BY DEF Inv, Typed, MessageTyped, Encodable
<1>5. ASSUME NEW i \in DOMAIN message.messages
      PROVE  Range(message.messages[i].fields) \subseteq FieldValue
  <2>1. message.messages[i] \in DataSet
    BY <1>4
  <2>2. message.messages[i].fields \in Seq(FieldValue)
    BY <2>1 DEF DataSet
  <2>3. QED
    BY <2>2 DEF Range
<1>6. QED
  BY <1>1, <1>2, <1>3, <1>4, <1>5 DEF TypeOK

\* The messages a decoder holds are those the data model allows, from any bytes: the
\* identifiers and the values have their types, a section ends within the datagram, and
\* there are never more DataSetMessages than were announced (wire.py decode).
THEOREM TypeCorrect == Spec => []TypeOK
BY InvInvariant, InvTypes, PTL

\* What the invariant says of the signature is what OnlyVerified asks.
LEMMA InvTrusts == Inv => OnlyVerified
BY DEF Inv, Trusted, OnlyVerified

\* A receiver that requires a signature decodes only what the holder of its key sent,
\* whole: not what was cut short, changed or signed with another key; nor is anything else
\* marked as verified for a receiver that does not require it (wire.py:634-645).
THEOREM OnlyTheVerified == Spec => []OnlyVerified
BY InvInvariant, InvTrusts, PTL

\* A sum does not depend on the order in which it is made: any element may come first.
LEMMA AnyFirst ==
    ASSUME NEW S, IsFiniteSet(S), NEW f \in [S -> Nat], NEW g, Adds(g, SUBSET S, f)
    PROVE  /\ g[{}] = 0
           /\ \A s \in SUBSET S : g[s] \in Nat
           /\ \A s \in SUBSET S : \A x \in s : g[s] = f[x] + g[s \ {x}]
<1> DEFINE Bad == {k \in Nat : \E s \in SUBSET S : Cardinality(s) = k
                                  /\ \E x \in s : g[s] # f[x] + g[s \ {x}]}
<1>1. \A s \in SUBSET S : IsFiniteSet(s) /\ Cardinality(s) \in Nat
  BY FS_Subset, FS_CardinalityType
<1>2. \A s \in SUBSET S : g[s] = IF s = {} THEN 0 ELSE f[AnyOf(s)] + g[s \ {AnyOf(s)}]
  BY DEF Adds
<1>3. \A s \in SUBSET S : g[s] \in Nat
  <2> SUFFICES ASSUME NEW s \in SUBSET S PROVE g[s] \in Nat
    OBVIOUS
  <2> DEFINE fs == [x \in s |-> f[x]]
             gs == [t \in SUBSET s |-> g[t]]
  <2>1. IsFiniteSet(s) /\ fs \in [s -> Nat]
    BY <1>1
  <2>2. Adds(gs, SUBSET s, fs)
    <3>1. \A t \in SUBSET s : t \in SUBSET S /\ (t # {} => AnyOf(t) \in s /\ t \ {AnyOf(t)} \in SUBSET s)
      BY DEF AnyOf
    <3>2. \A t \in SUBSET s : g[t] = IF t = {} THEN 0 ELSE fs[AnyOf(t)] + gs[t \ {AnyOf(t)}]
      BY <1>2, <3>1
    <3>3. gs = [t \in SUBSET s |-> IF t = {} THEN 0 ELSE fs[AnyOf(t)] + gs[t \ {AnyOf(t)}]]
      <4> DEFINE h == [t \in SUBSET s |-> IF t = {} THEN 0 ELSE fs[AnyOf(t)] + gs[t \ {AnyOf(t)}]]
      <4>1. \A t \in SUBSET s : gs[t] = h[t]
        <5> HIDE DEF fs
        <5>1. \A t \in SUBSET s : gs[t] = g[t]
          OBVIOUS
        <5> HIDE DEF gs
        <5>2. QED
          BY <3>2, <5>1
      <4>2. DOMAIN gs = SUBSET s /\ DOMAIN h = SUBSET s
        OBVIOUS
      <4>3. gs = [t \in SUBSET s |-> gs[t]] /\ h = [t \in SUBSET s |-> h[t]]
        OBVIOUS
      <4> HIDE DEF gs, h
      <4>4. gs = h
        BY <4>1, <4>2, <4>3
      <4>5. QED
        BY <4>4 DEF h
    <3>4. QED
      BY <3>3 DEF Adds
  <2>3. gs[s] \in Nat
    <3> HIDE DEF gs, fs
    <3>1. QED
      BY <2>1, <2>2, SumsAreNatural
  <2>4. QED
    BY <2>3
<1>4. Bad = {}
  <2> SUFFICES ASSUME Bad # {} PROVE FALSE
    OBVIOUS
  <2>1. PICK m \in Bad : \A k \in Bad : m <= k
    <3>1. Bad \in SUBSET Nat /\ Bad # {}
      OBVIOUS
    <3> HIDE DEF Bad
    <3>2. QED
      BY <3>1, Least, Zenon
  <2>0. PICK s \in SUBSET S : Cardinality(s) = m /\ \E x \in s : g[s] # f[x] + g[s \ {x}]
    BY <2>1
  <2>2. PICK x \in s : Cardinality(s) = m /\ g[s] # f[x] + g[s \ {x}]
    BY <2>0
  <2> DEFINE a == AnyOf(s)
  <2>3. a \in s /\ s # {} /\ g[s] = f[a] + g[s \ {a}]
    BY <1>2 DEF AnyOf
  <2>4. a # x
    BY <2>2, <2>3
  <2>5. /\ Cardinality(s \ {a}) < m /\ Cardinality(s \ {x}) < m
        /\ Cardinality(s \ {a}) \in Nat /\ Cardinality(s \ {x}) \in Nat
    <3>1. Cardinality(s \ {a}) = Cardinality(s) - 1 /\ Cardinality(s \ {x}) = Cardinality(s) - 1
      BY <1>1, <2>2, <2>3, FS_RemoveElement
    <3>2. QED
      BY <1>1, <2>2, <3>1
  <2> HIDE DEF a
  <2>6. \A t \in SUBSET S : Cardinality(t) < m /\ Cardinality(t) \in Nat
            => \A y \in t : g[t] = f[y] + g[t \ {y}]
    <3> SUFFICES ASSUME NEW t \in SUBSET S, Cardinality(t) < m, Cardinality(t) \in Nat,
                        NEW y \in t, g[t] # f[y] + g[t \ {y}]
                 PROVE  FALSE
      OBVIOUS
    <3>1. Cardinality(t) \in Bad
      OBVIOUS
    <3>2. m <= Cardinality(t) /\ m \in Nat
      BY <2>1, <3>1
    <3>3. QED
      BY <3>2
  <2>7. g[s \ {a}] = f[x] + g[(s \ {a}) \ {x}]
    BY <2>2, <2>4, <2>5, <2>6
  <2>8. g[s \ {x}] = f[a] + g[(s \ {x}) \ {a}]
    BY <2>3, <2>4, <2>5, <2>6
  <2>9. (s \ {a}) \ {x} = (s \ {x}) \ {a}
    OBVIOUS
  <2>10. f[a] \in Nat /\ f[x] \in Nat /\ g[(s \ {x}) \ {a}] \in Nat
    BY <1>3, <2>3
  <2> DEFINE r == g[(s \ {x}) \ {a}]
  <2>11. g[s] = f[a] + (f[x] + r) /\ f[x] + g[s \ {x}] = f[x] + (f[a] + r)
    BY <2>3, <2>7, <2>8, <2>9
  <2>12. \A p, q, o \in Nat : p + (q + o) = q + (p + o)
    OBVIOUS
  <2>13. f[a] + (f[x] + r) = f[x] + (f[a] + r)
    BY <2>10, <2>12
  <2>14. QED
    BY <2>2, <2>11, <2>13
<1>5. \A s \in SUBSET S : \A x \in s : g[s] = f[x] + g[s \ {x}]
  BY <1>1, <1>4
<1>6. g[{}] = 0
  BY <1>2
<1>7. QED
  BY <1>3, <1>5, <1>6

Sums(g, S, f) == IsFiniteSet(S) /\ f \in [S -> Nat] /\ Adds(g, SUBSET S, f)

SameOn(e, f, T) == \A x \in T : e[x] = f[x]

\* Nor on what else could have been added.
LEMMA SameSums ==
    ASSUME NEW S, NEW f, NEW g, Sums(g, S, f), NEW T, NEW e, NEW h, Sums(h, T, e),
           T \subseteq S, SameOn(e, f, T)
    PROVE  h[T] = g[T]
<1> DEFINE Bad == {k \in Nat : \E s \in SUBSET T : Cardinality(s) = k /\ g[s] # h[s]}
<1>1. \A s \in SUBSET T : IsFiniteSet(s) /\ Cardinality(s) \in Nat /\ s \in SUBSET S
  BY FS_Subset, FS_CardinalityType DEF Sums
<1>2. \A s \in SUBSET T : g[s] = IF s = {} THEN 0 ELSE f[AnyOf(s)] + g[s \ {AnyOf(s)}]
  BY <1>1 DEF Sums, Adds
<1>3. \A s \in SUBSET T : h[s] = IF s = {} THEN 0 ELSE e[AnyOf(s)] + h[s \ {AnyOf(s)}]
  BY DEF Sums, Adds
<1>4. Bad = {}
  <2> SUFFICES ASSUME Bad # {} PROVE FALSE
    OBVIOUS
  <2>1. PICK m \in Bad : \A k \in Bad : m <= k
    BY Least
  <2>2. PICK s \in SUBSET T : Cardinality(s) = m /\ g[s] # h[s]
    BY <2>1
  <2> DEFINE a == AnyOf(s)
  <2>3. s # {}
    BY <1>2, <1>3, <2>2
  <2>4. a \in s
    BY <2>3 DEF AnyOf
  <2>5. Cardinality(s \ {a}) < m /\ Cardinality(s \ {a}) \in Nat
    <3>1. Cardinality(s \ {a}) = Cardinality(s) - 1
      BY <1>1, <2>4, FS_RemoveElement
    <3>2. QED
      BY <1>1, <2>2, <3>1
  <2>6. g[s] = f[a] + g[s \ {a}] /\ h[s] = e[a] + h[s \ {a}]
    BY <1>2, <1>3, <2>3
  <2> HIDE DEF a
  <2>7. g[s \ {a}] = h[s \ {a}]
    BY <2>1, <2>5
  <2>8. f[a] = e[a]
    BY <2>4 DEF SameOn
  <2>9. QED
    BY <2>2, <2>6, <2>7, <2>8
<1>5. QED
  BY <1>1, <1>4

\* The width of some cells is the sum of theirs.
LEMMA WidthSums ==
    ASSUME NEW S, \A c \in S : c.width \in Nat, NEW cells \in Seq(S)
    PROVE  \E g : /\ Adds(g, SUBSET (1..Len(cells)), [i \in 1..Len(cells) |-> cells[i].width])
                  /\ Width(cells) = g[1..Len(cells)]
<1> DEFINE D == DOMAIN cells
           f == [i \in D |-> cells[i].width]
<1>1. D = 1..Len(cells) /\ Len(cells) \in Nat /\ \A i \in D : cells[i] \in S
  OBVIOUS
<1>2. IsFiniteSet(D) /\ Cardinality(D) \in Nat
  BY <1>1, FS_Interval, FS_CardinalityType
<1>3. f \in [D -> Nat]
  BY <1>1
<1>4. UpTo(D, Cardinality(D)) = SUBSET D
  BY <1>2, FS_Subset DEF UpTo
<1> HIDE DEF f, D
<1>5. PICK g \in [SUBSET D -> Nat] : Adds(g, SUBSET D, f)
  <2>1. \E g \in [UpTo(D, Cardinality(D)) -> Nat] : Adds(g, UpTo(D, Cardinality(D)), f)
    BY <1>2, <1>3, SumsExist
  <2>2. QED
    BY <1>4, <2>1
<1> DEFINE iter == CHOOSE iter : iter = [s \in SUBSET D |->
                      IF s = {} THEN 0
                      ELSE cells[CHOOSE x \in s : TRUE].width + iter[s \ {CHOOSE x \in s : TRUE}]]
<1>6. Width(cells) = iter[D]
  BY DEF Width, FoldSeq, FoldFunction, FoldFunctionOnSet, MapThenFoldSet, D
<1>7. iter = [s \in SUBSET D |-> IF s = {} THEN 0
                               ELSE cells[CHOOSE x \in s : TRUE].width
                                    + iter[s \ {CHOOSE x \in s : TRUE}]]
  <2>1. \A s \in SUBSET D : s # {} => AnyOf(s) \in D
    BY DEF AnyOf
  <2>2. g = [s \in SUBSET D |-> IF s = {} THEN 0 ELSE cells[AnyOf(s)].width + g[s \ {AnyOf(s)}]]
    BY <1>5, <2>1 DEF Adds, f
  <2>3. QED
    BY <2>2 DEF AnyOf
<1>8. Adds(iter, SUBSET D, f)
  <2>1. \A s \in SUBSET D : s # {} => cells[AnyOf(s)].width = f[AnyOf(s)]
    BY DEF AnyOf, f
  <2> HIDE DEF iter
  <2>2. iter = [s \in SUBSET D |-> IF s = {} THEN 0 ELSE cells[AnyOf(s)].width + iter[s \ {AnyOf(s)}]]
    BY <1>7 DEF AnyOf
  <2>3. QED
    BY <2>1, <2>2 DEF Adds
<1> HIDE DEF iter
<1>9. f = [i \in 1..Len(cells) |-> cells[i].width]
  BY <1>1 DEF f
<1>10. QED
  BY <1>1, <1>6, <1>8, <1>9, Zenon

\* A sum over a set is any one of its elements and the sum over the others.
LEMMA SumOfAny ==
    ASSUME NEW S, NEW f, NEW g, Sums(g, S, f), NEW x, x \in S
    PROVE  g[S] = f[x] + g[S \ {x}] /\ g[S \ {x}] \in Nat
<1>1. IsFiniteSet(S) /\ f \in [S -> Nat] /\ Adds(g, SUBSET S, f)
  BY DEF Sums
<1>2. /\ \A s \in SUBSET S : g[s] \in Nat
      /\ \A s \in SUBSET S : \A y \in s : g[s] = f[y] + g[s \ {y}]
  BY <1>1, AnyFirst
<1>3. QED
  BY <1>2

\* One more is what it adds more.
LEMMA OneMoreSummed ==
    ASSUME NEW M, NEW e, NEW g, Sums(g, M, e), NEW a, a \in M,
           NEW N, NEW f, NEW h, Sums(h, N, f), N = M \ {a}, SameOn(f, e, N)
    PROVE  g[M] = e[a] + h[N] /\ h[N] \in Nat
<1>1. g[M] = e[a] + g[M \ {a}] /\ g[M \ {a}] \in Nat
  BY SumOfAny, SMT
<1>2. N \subseteq M
  OBVIOUS
<1>3. h[N] = g[N]
  BY <1>2, SameSums, SMT
<1>4. QED
  BY <1>1, <1>3

\* One cell more is its width more.
LEMMA OneWider ==
    ASSUME NEW S, \A c \in S : c.width \in Nat, NEW cells \in Seq(S), NEW n \in 0..Len(cells) - 1
    PROVE  Width(SubSeq(cells, 1, n + 1)) = Width(SubSeq(cells, 1, n)) + cells[n + 1].width
<1> DEFINE s == SubSeq(cells, 1, n)
           t == SubSeq(cells, 1, n + 1)
           N == 1..n
           M == 1..n + 1
           f == [i \in N |-> s[i].width]
           e == [i \in M |-> t[i].width]
<1>1. /\ s \in Seq(S) /\ Len(s) = n /\ t \in Seq(S) /\ Len(t) = n + 1 /\ n \in Nat
      /\ \A i \in 1..n : s[i] = cells[i] /\ s[i] \in S
      /\ \A i \in 1..n + 1 : t[i] = cells[i] /\ t[i] \in S
  OBVIOUS
<1> HIDE DEF s, t
<1>2. f \in [N -> Nat] /\ e \in [M -> Nat] /\ SameOn(f, e, N)
  <2>1. \A i \in M : t[i].width \in Nat
    BY <1>1
  <2>2. \A i \in N : s[i].width \in Nat
    BY <1>1
  <2>3. \A i \in N : i \in M /\ s[i] = t[i]
    BY <1>1
  <2> HIDE DEF N, M
  <2>4. QED
    BY <2>1, <2>2, <2>3 DEF SameOn
<1>3. PICK h : Adds(h, SUBSET N, f) /\ Width(s) = h[N]
  BY <1>1, WidthSums
<1>4. PICK g : Adds(g, SUBSET M, e) /\ Width(t) = g[M]
  BY <1>1, WidthSums
<1>5. IsFiniteSet(M) /\ n + 1 \in M /\ N = M \ {n + 1}
  <2>1. IsFiniteSet(M)
    BY <1>1, FS_Interval
  <2>2. QED
    BY <1>1, <2>1
<1>6. e[n + 1] = cells[n + 1].width
  BY <1>1, <1>5
<1> HIDE DEF f, e, N, M
<1>7. g[M] = e[n + 1] + h[N] /\ h[N] \in Nat
  <2>1. Sums(g, M, e) /\ Sums(h, N, f)
    <3>1. IsFiniteSet(N)
      BY <1>1, FS_Interval DEF N
    <3>2. QED
      BY <1>2, <1>3, <1>4, <1>5, <3>1 DEF Sums
  <2>2. SameOn(f, e, N)
    BY <1>2
  <2>3. QED
    BY <1>5, <2>1, <2>2, OneMoreSummed, SMT
<1>8. e[n + 1] \in Nat
  BY <1>2, <1>5
<1>9. QED
  BY <1>3, <1>4, <1>6, <1>7, <1>8 DEF s, t

\* Longer fronts are as wide or wider.
LEMMA Wider ==
    ASSUME NEW S, \A c \in S : c.width \in Nat, NEW cells \in Seq(S),
           NEW n \in 0..Len(cells), NEW m \in 0..n
    PROVE  Width(SubSeq(cells, 1, m)) <= Width(SubSeq(cells, 1, n))
<1> DEFINE W(k) == Width(SubSeq(cells, 1, k))
           Bad == {k \in m..Len(cells) : ~(W(m) <= W(k))}
<1>1. \A k \in 0..Len(cells) : W(k) \in Nat
  <2>1. \A k \in 0..Len(cells) : SubSeq(cells, 1, k) \in Seq(S)
    OBVIOUS
  <2>2. QED
    BY <2>1, WidthIsNatural
<1>2. \A k \in 0..Len(cells) - 1 : W(k) <= W(k + 1)
  <2> SUFFICES ASSUME NEW k \in 0..Len(cells) - 1 PROVE W(k) <= W(k + 1)
    OBVIOUS
  <2>1. W(k + 1) = W(k) + cells[k + 1].width
    BY OneWider
  <2>2. cells[k + 1] \in S /\ k \in 0..Len(cells)
    OBVIOUS
  <2>3. cells[k + 1].width \in Nat
    BY <2>2
  <2>4. W(k) \in Nat
    BY <1>1, <2>2
  <2> HIDE DEF W
  <2>5. QED
    BY <2>1, <2>3, <2>4
<1> HIDE DEF W
<1>3. Bad = {}
  <2> SUFFICES ASSUME Bad # {} PROVE FALSE
    OBVIOUS
  <2>1. PICK k \in Bad : \A j \in Bad : k <= j
    <3>1. Bad \subseteq Nat
      OBVIOUS
    <3> HIDE DEF Bad
    <3>2. QED
      BY <3>1, Least
  <2>2. k \in m..Len(cells) /\ ~(W(m) <= W(k)) /\ k # m /\ k \in Nat /\ m \in Nat
    BY <1>1, <2>1
  <2>3. k - 1 \in m..Len(cells) /\ k - 1 \in 0..Len(cells) - 1 /\ k - 1 \in 0..Len(cells) /\ k - 1 < k
    BY <2>2
  <2>4. W(m) <= W(k - 1)
    BY <2>1, <2>3
  <2>5. W(k - 1) <= W(k)
    <3>1. (k - 1) + 1 = k
      BY <2>2
    <3>2. QED
      BY <1>2, <2>3, <3>1
  <2>6. W(m) \in Nat /\ W(k - 1) \in Nat /\ W(k) \in Nat
    <3>1. m \in 0..Len(cells) /\ k \in 0..Len(cells)
      BY <2>2
    <3>2. QED
      BY <1>1, <2>3, <3>1
  <2>7. QED
    BY <2>2, <2>4, <2>5, <2>6
<1>4. n \in m..Len(cells)
  OBVIOUS
<1>5. QED
  BY <1>3, <1>4 DEF W

\* It is the same which are joined first.
LEMMA Rejoined ==
    ASSUME NEW S, NEW x \in Seq(S), NEW y \in Seq(S), NEW z \in Seq(S)
    PROVE  (x \o y) \o z = x \o (y \o z)
BY ConcatAssociative

\* Joined, the first of some sequences comes before the others.
LEMMA FlattenFirst ==
    ASSUME NEW S, NEW seqs \in Seq(Seq(S)), seqs # <<>>
    PROVE  FlattenSeq(seqs) = seqs[1] \o FlattenSeq(Tail(seqs))
<1> DEFINE n == Len(seqs)
           rest == Tail(seqs)
           first == seqs[1]
<1>0. /\ n \in Nat /\ n >= 1 /\ \A i \in 1..n : seqs[i] \in Seq(S)
      /\ rest \in Seq(Seq(S)) /\ Len(rest) = n - 1 /\ \A i \in 1..n - 1 : rest[i] = seqs[i + 1]
      /\ first \in Seq(S)
  OBVIOUS
<1> DEFINE g == CHOOSE f : Joins(f, seqs, n)
           h == CHOOSE f : Joins(f, rest, n - 1)
<1>1. FlattenSeq(seqs) = IF n = 0 THEN seqs ELSE g[n]
  BY DEF FlattenSeq, Joins
<1>2. FlattenSeq(rest) = IF Len(rest) = 0 THEN rest
                         ELSE (CHOOSE f : Joins(f, rest, Len(rest)))[Len(rest)]
  BY DEF FlattenSeq, Joins
<1>3. Joins(g, seqs, n)
  <2>1. n \in 0..Len(seqs)
    BY <1>0
  <2>2. QED
    BY <1>0, <2>1, JoinsExist
<1>4. Joins(h, rest, n - 1)
  <2>1. n - 1 \in 0..Len(rest)
    BY <1>0
  <2>2. QED
    BY <1>0, <2>1, JoinsExist
<1>5. FlattenSeq(rest) = IF n - 1 = 0 THEN rest ELSE h[n - 1]
  BY <1>0, <1>2
<1> HIDE DEF g, h, n, rest, first
<1>6. g[1] = first
  <2>1. 1 \in 1..n
    BY <1>0
  <2>2. QED
    BY <1>3, <2>1 DEF Joins, first
<1>7. CASE n = 1
  <2>1. rest = <<>>
    BY <1>0, <1>7
  <2>2. first \o <<>> = first
    BY <1>0
  <2>3. FlattenSeq(seqs) = first /\ FlattenSeq(rest) = <<>>
    BY <1>1, <1>5, <1>6, <1>7, <2>1
  <2>4. FlattenSeq(seqs) = first \o FlattenSeq(rest)
    BY <2>2, <2>3
  <2>5. QED
    BY <2>4 DEF rest, first
<1>8. CASE n > 1
  <2>0. \A x, y, z \in Seq(S) : (x \o y) \o z = x \o (y \o z)
    BY Rejoined, SMTT(30)
  <2> DEFINE Bad == {i \in 1..n - 1 : h[i] \notin Seq(S) \/ g[i + 1] # first \o h[i]}
  <2>1. Bad = {}
    <3> SUFFICES ASSUME Bad # {} PROVE FALSE
      OBVIOUS
    <3>1. PICK m \in Bad : \A k \in Bad : m <= k
      <4>1. Bad \subseteq Nat
        BY <1>0
      <4> HIDE DEF Bad
      <4>2. QED
        BY <4>1, Least
    <3>2. m \in 1..n - 1 /\ m \in Nat /\ m + 1 \in 1..n /\ m + 1 # 1 /\ (m + 1) - 1 = m
      BY <1>0, <3>1
    <3>3. g[m + 1] = g[m] \o seqs[m + 1]
      BY <1>3, <3>2 DEF Joins
    <3>4. h[m] = IF m = 1 THEN rest[m] ELSE h[m - 1] \o rest[m]
      BY <1>4, <3>2 DEF Joins
    <3>5. rest[m] = seqs[m + 1] /\ seqs[m + 1] \in Seq(S)
      <4>1. rest[m] = seqs[m + 1]
        BY <1>0, <3>2, Zenon
      <4>2. seqs[m + 1] \in Seq(S)
        BY <1>0, <3>2, Zenon
      <4>3. QED
        BY <4>1, <4>2
    <3>6. CASE m = 1
      BY <1>6, <3>1, <3>3, <3>4, <3>5, <3>6
    <3>7. CASE m # 1
      <4>1. m - 1 \in 1..n - 1 /\ m - 1 < m /\ (m - 1) + 1 = m
        <5>1. m \in Nat /\ n \in Nat /\ 1 <= m /\ m <= n - 1
          BY <1>0, <3>2
        <5>2. QED
          BY <3>7, <5>1
      <4>2. h[m - 1] \in Seq(S) /\ g[m] = first \o h[m - 1]
        BY <3>1, <4>1, SMTT(30)
      <4>3. h[m] \in Seq(S)
        BY <3>4, <3>5, <3>7, <4>2
      <4>4. (first \o h[m - 1]) \o seqs[m + 1] = first \o (h[m - 1] \o seqs[m + 1])
        <5>1. first \in Seq(S) /\ h[m - 1] \in Seq(S) /\ seqs[m + 1] \in Seq(S)
          BY <1>0, <3>5, <4>2
        <5> HIDE DEF Bad
        <5>2. QED
          BY <2>0, <5>1, Zenon
      <4>5. g[m + 1] = first \o h[m]
        BY <3>3, <3>4, <3>5, <3>7, <4>2, <4>4
      <4>6. QED
        BY <3>1, <4>3, <4>5
    <3>8. QED
      BY <3>6, <3>7
  <2>2. n - 1 \in 1..n - 1 /\ (n - 1) + 1 = n
    BY <1>0, <1>8
  <2>3. g[n] = first \o h[n - 1]
    BY <2>1, <2>2
  <2>4. n # 0 /\ n - 1 # 0
    BY <1>0, <1>8
  <2>5. FlattenSeq(seqs) = first \o FlattenSeq(rest)
    BY <1>1, <1>5, <2>3, <2>4, Zenon
  <2>6. QED
    BY <2>5 DEF rest, first
<1>9. QED
  BY <1>0, <1>7, <1>8

\* Nothing joined is nothing.
LEMMA FlattenNone ==
    FlattenSeq(<<>>) = <<>>
BY DEF FlattenSeq

\* All from some place on, joined.
LEMMA FlattenFrom ==
    ASSUME NEW S, NEW seqs \in Seq(Seq(S))
    PROVE  /\ \A j \in 1..Len(seqs) + 1 : FlattenSeq(SubSeq(seqs, j, Len(seqs))) \in Seq(S)
           /\ \A j \in 1..Len(seqs) :
                 FlattenSeq(SubSeq(seqs, j, Len(seqs)))
                   = seqs[j] \o FlattenSeq(SubSeq(seqs, j + 1, Len(seqs)))
           /\ FlattenSeq(SubSeq(seqs, 1, Len(seqs))) = FlattenSeq(seqs)
           /\ FlattenSeq(SubSeq(seqs, Len(seqs) + 1, Len(seqs))) = <<>>
<1>0. Len(seqs) \in Nat
  OBVIOUS
<1>1. ASSUME NEW j \in 1..Len(seqs) + 1
      PROVE  SubSeq(seqs, j, Len(seqs)) \in Seq(Seq(S))
  BY <1>0
<1>2. ASSUME NEW j \in 1..Len(seqs)
      PROVE  FlattenSeq(SubSeq(seqs, j, Len(seqs)))
                   = seqs[j] \o FlattenSeq(SubSeq(seqs, j + 1, Len(seqs)))
  <2> DEFINE t == SubSeq(seqs, j, Len(seqs))
  <2>1. t \in Seq(Seq(S)) /\ t # <<>> /\ t[1] = seqs[j]
    <3>1. Len(seqs) \in j..Len(seqs) /\ j \in Nat
      BY <1>0
    <3>2. Len(t) = Len(seqs) - j + 1 /\ t \in Seq(Seq(S)) /\ t[1] = seqs[j]
      BY <1>0, <3>1
    <3> HIDE DEF t
    <3>3. QED
      BY <1>0, <3>1, <3>2
  <2>2. Tail(t) = SubSeq(seqs, j + 1, Len(seqs))
    <3>1. Len(seqs) \in j..Len(seqs)
      BY <1>0
    <3>2. QED
      BY <1>2, <3>1, HeadTailOfSubSeq
  <2> HIDE DEF t
  <2>3. QED
    BY <2>1, <2>2, FlattenFirst DEF t
<1>3. SubSeq(seqs, 1, Len(seqs)) = seqs
  BY SubSeqFull
<1>4. SubSeq(seqs, Len(seqs) + 1, Len(seqs)) = <<>>
  BY <1>0, SubSeqEmpty
<1>5. \A j \in 1..Len(seqs) + 1 : FlattenSeq(SubSeq(seqs, j, Len(seqs))) \in Seq(S)
  BY <1>1, FlattenIsASequence
<1>6. QED
  BY <1>2, <1>3, <1>4, <1>5, FlattenNone

-----------------------------------------------------------------------------
(* Reading what was written.  A section wants the kinds and widths of cells it is *)
(* sure of; those of a part of the frame are what it should want.                  *)

Taking(part) == [i \in 1..Len(part) |-> <<part[i].kind, part[i].width>>]

Fits(want, part) == part \in Seq(Cells) /\ want = Taking(part)

\* What the cells of a part want, one by one.
LEMMA TakingOne ==
    ASSUME NEW part \in Seq(Cells)
    PROVE  /\ Len(Taking(part)) = Len(part) /\ Len(part) \in Nat
           /\ DOMAIN Taking(part) = 1..Len(part)
           /\ \A i \in 1..Len(part) : /\ Taking(part)[i][1] = part[i].kind
                                      /\ Taking(part)[i][2] = part[i].width
BY DEF Taking

\* Nothing fits where nothing is wanted,
LEMMA FitsNone == Fits(<<>>, <<>>)
BY DEF Fits, Taking

\* a cell where it is wanted in its size,
LEMMA FitsCell ==
    ASSUME NEW kind, NEW value, NEW width, Cell(kind, value, width) \in Seq(Cells)
    PROVE  Fits(<<<<kind, width>>>>, Cell(kind, value, width))
<1> DEFINE c == [kind |-> kind, value |-> value, width |-> width]
<1>1. Cell(kind, value, width) = <<c>>
  BY DEF Cell
<1>2. c.kind = kind /\ c.width = width
  OBVIOUS
<1> HIDE DEF c
<1>3. Len(<<c>>) = 1 /\ <<c>>[1] = c
  OBVIOUS
<1>4. Taking(<<c>>) = [i \in 1..1 |-> <<kind, width>>]
  BY <1>2, <1>3 DEF Taking
<1>5. [i \in 1..1 |-> <<kind, width>>] = <<<<kind, width>>>>
  OBVIOUS
<1>6. QED
  BY <1>1, <1>4, <1>5 DEF Fits

\* what is there on a condition where it is wanted on the same condition,
LEMMA FitsIf ==
    ASSUME NEW given, NEW want, NEW part, given => Fits(want, part)
    PROVE  Fits(If(given, want), If(given, part))
BY FitsNone DEF If

\* and what fits part by part fits joined.
LEMMA FitsJoin ==
    ASSUME NEW want, NEW part, Fits(want, part), NEW more, NEW rest, Fits(more, rest)
    PROVE  Fits(want \o more, part \o rest)
<1>1. part \in Seq(Cells) /\ rest \in Seq(Cells) /\ want = Taking(part) /\ more = Taking(rest)
  BY DEF Fits
<1>2. part \o rest \in Seq(Cells)
  BY <1>1
<1> DEFINE n == Len(part)
           m == Len(rest)
           T == {<<c.kind, c.width>> : c \in Cells}
<1>3. n \in Nat /\ m \in Nat /\ Len(part \o rest) = n + m
      /\ \A i \in 1..n + m : (part \o rest)[i] = IF i <= n THEN part[i] ELSE rest[i - n]
  BY <1>1
<1>4. Taking(part \o rest) = [i \in 1..n + m |-> IF i <= n THEN Taking(part)[i] ELSE Taking(rest)[i - n]]
  BY <1>1, <1>3 DEF Taking
<1>5. /\ Len(Taking(part)) = n /\ Len(Taking(rest)) = m
      /\ Taking(part) \in Seq(T) /\ Taking(rest) \in Seq(T)
  <2>1. \A p \in Seq(Cells) : Len(p) \in Nat /\ \A i \in 1..Len(p) : <<p[i].kind, p[i].width>> \in T
    OBVIOUS
  <2> HIDE DEF T
  <2>2. \A p \in Seq(Cells) : Taking(p) \in Seq(T)
    BY <2>1 DEF Taking
  <2>3. QED
    BY <1>1, <2>2, TakingOne
<1> HIDE DEF n, m, T
<1>6. Taking(part) \o Taking(rest)
        = [i \in 1..n + m |-> IF i <= n THEN Taking(part)[i] ELSE Taking(rest)[i - n]]
  <2> DEFINE c == Taking(part) \o Taking(rest)
  <2>1. /\ c \in Seq(T) /\ Len(c) = n + m
        /\ \A i \in 1..n + m : c[i] = IF i <= n THEN Taking(part)[i] ELSE Taking(rest)[i - n]
    BY <1>5, ConcatProperties
  <2> HIDE DEF c
  <2>2. c = [i \in 1..n + m |-> c[i]]
    BY <2>1
  <2>3. c = [i \in 1..n + m |-> IF i <= n THEN Taking(part)[i] ELSE Taking(rest)[i - n]]
    BY <2>1, <2>2
  <2>4. QED
    BY <2>3 DEF c
<1>7. QED
  BY <1>1, <1>2, <1>4, <1>6 DEF Fits

\* A part comes next: what there is of it in the frame is as it was written.
Upcoming(part) ==
    /\ part \in Seq(Cells)
    /\ \A i \in 1..Len(part) : reader.pos + i <= Len(frame) => frame[reader.pos + i] = part[i]

\* What is wanted begins with the first cells of a part, and does not end there.
Starts(want, part, n) ==
    /\ n < Len(part) /\ Len(want) \in Nat /\ DOMAIN want = 1..Len(want) /\ n < Len(want)
    /\ \A i \in 1..n : want[i] = Taking(part)[i]

\* What a section wants of a part: its cells, or as many as are there, and more.
Suits(want, part) ==
    \/ Fits(want, part)
    \/ \E n \in Nat : ~There(n + 1) /\ Starts(want, part, n)

\* A datagram is cells that have a width.
LEMMA WidthsOfDatagram ==
    ASSUME NEW f, Datagram(f)
    PROVE  \E S : f \in Seq(S) /\ \A c \in S : c.width \in Nat
<1>1. CASE f \in Seq(Cells)
  BY <1>1, CellKinds
<1>2. ASSUME NEW body \in Seq(Cells), NEW over, NEW key, f = Sealed(body, over, key)
      PROVE  \E S : f \in Seq(S) /\ \A c \in S : c.width \in Nat
  <2> DEFINE s == Sealed(body, over, key)[Len(body) + 1]
             T == Cells \cup {s}
  <2>1. f \in Seq(T)
    BY <1>2, SealedLast
  <2>2. s.width \in Nat
    BY SealedLast
  <2> HIDE DEF s
  <2>3. \A c \in T : c.width \in Nat
    BY <2>2, CellKinds
  <2> HIDE DEF T
  <2>4. QED
    BY <2>1, <2>3
<1>3. QED
  BY <1>1, <1>2, Zenon DEF Datagram

\* Where some cells are there, fewer are.
LEMMA ThereFewer ==
    ASSUME Framed, ~Sending, ReaderTyped, NEW n \in Nat, NEW m \in 0..n, There(n)
    PROVE  There(m)
<1>1. Datagram(frame) /\ Len(frame) \in Nat
  BY FrameIsDatagram
<1>2. PICK S : frame \in Seq(S) /\ \A c \in S : c.width \in Nat
  BY <1>1, WidthsOfDatagram
<1> DEFINE p == reader.pos + n
           q == reader.pos + m
<1>3. p \in 0..Len(frame) /\ q \in 0..p /\ q \in 0..Len(frame) /\ reader.end \in Nat
  BY <1>1 DEF ReaderTyped, There
<1>4. Width(SubSeq(frame, 1, p)) <= reader.end
  BY DEF There
<1> HIDE DEF p, q
<1>5. Width(SubSeq(frame, 1, q)) <= Width(SubSeq(frame, 1, p))
  BY <1>2, <1>3, Wider
<1>6. Width(SubSeq(frame, 1, p)) \in Nat /\ Width(SubSeq(frame, 1, q)) \in Nat
  BY <1>1, <1>3, WidthOfFront
<1>7. Width(SubSeq(frame, 1, q)) <= reader.end /\ q <= Len(frame)
  BY <1>1, <1>3, <1>4, <1>5, <1>6
<1>8. QED
  BY <1>7 DEF There, q

\* Of a part that comes next, a section that wants what is there misreads nothing and
\* takes all of it, or nothing where some of it is missing.
LEMMA Reads ==
    ASSUME Framed, ~Sending, ReaderTyped, NEW part, Upcoming(part), NEW want, Suits(want, part)
    PROVE  /\ ~Garbled(want)
           /\ Taken(want) <=> There(Len(part))
           /\ Taken(want) => Fits(want, part)
<1>1. part \in Seq(Cells) /\ Len(part) \in Nat /\ reader.pos \in Nat
  BY DEF Upcoming, ReaderTyped
<1>2. \A i \in 1..Len(part) : There(i) => /\ frame[reader.pos + i].kind = Taking(part)[i][1]
                                         /\ frame[reader.pos + i].width = Taking(part)[i][2]
  BY <1>1, TakingOne DEF Upcoming, There
<1>3. CASE Fits(want, part)
  <2>1. want = Taking(part) /\ DOMAIN want = 1..Len(part) /\ Len(want) = Len(part)
    BY <1>1, <1>3, TakingOne DEF Fits
  <2>2. \A i \in DOMAIN want : There(i) => AsTaken(want, i)
    BY <1>2, <2>1 DEF AsTaken
  <2>3. There(Len(part)) => \A i \in DOMAIN want : There(i)
    BY <1>1, <2>1, ThereFewer
  <2>4. QED
    BY <1>3, <2>1, <2>2, <2>3 DEF Garbled, Taken
<1>4. ASSUME NEW n \in Nat, ~There(n + 1), Starts(want, part, n)
      PROVE  ~Garbled(want) /\ ~Taken(want) /\ ~There(Len(part))
  <2>1. /\ DOMAIN want = 1..Len(want) /\ Len(want) \in Nat /\ n < Len(want) /\ n < Len(part)
        /\ \A i \in 1..n : want[i] = Taking(part)[i]
    BY <1>4 DEF Starts
  <2>2. \A k \in Nat : There(k) => k <= n
    <3> SUFFICES ASSUME NEW k \in Nat, There(k), ~(k <= n) PROVE FALSE
      OBVIOUS
    <3>1. n + 1 \in 0..k
      OBVIOUS
    <3>2. QED
      BY <1>4, <3>1, ThereFewer
  <2>3. ~There(Len(want)) /\ ~There(Len(part))
    BY <1>1, <2>1, <2>2
  <2>4. \A i \in DOMAIN want : There(i) => AsTaken(want, i)
    <3> SUFFICES ASSUME NEW i \in 1..Len(want), There(i) PROVE AsTaken(want, i)
      BY <2>1
    <3>1. i \in 1..n /\ i \in 1..Len(part)
      BY <1>1, <2>1, <2>2
    <3>2. QED
      BY <1>2, <2>1, <3>1 DEF AsTaken
  <2>5. QED
    BY <2>3, <2>4 DEF Garbled, Taken
<1>5. QED
  BY <1>3, <1>4 DEF Suits

\* What begins with what some cells want, and goes on.
LEMMA StartsWith ==
    ASSUME NEW want, NEW part, Fits(want, part), NEW S, NEW more \in Wanted(S), more # <<>>,
           NEW rest \in Seq(Cells), rest # <<>>, want \in Wanted(S)
    PROVE  Starts(want \o more, part \o rest, Len(part))
<1>1. part \in Seq(Cells) /\ want = Taking(part) /\ Len(want) = Len(part) /\ Len(part) \in Nat
  BY TakingOne DEF Fits
<1>2. Len(more) \in Nat /\ Len(more) > 0 /\ Len(rest) \in Nat /\ Len(rest) > 0
  BY DEF Wanted
<1>3. /\ Len(want \o more) = Len(want) + Len(more) /\ DOMAIN (want \o more) = 1..Len(want \o more)
      /\ \A i \in 1..Len(want) : (want \o more)[i] = want[i]
  <2> DEFINE T == Kinds \X S
  <2>1. want \in Seq(T) /\ more \in Seq(T)
    BY DEF Wanted
  <2> HIDE DEF T
  <2>2. /\ want \o more \in Seq(T) /\ Len(want \o more) = Len(want) + Len(more)
        /\ \A i \in 1..Len(want) + Len(more) :
              (want \o more)[i] = IF i <= Len(want) THEN want[i] ELSE more[i - Len(want)]
    BY <2>1, ConcatProperties
  <2>3. QED
    BY <1>1, <1>2, <2>2
<1>4. /\ part \o rest \in Seq(Cells) /\ Len(part \o rest) = Len(part) + Len(rest)
      /\ \A i \in 1..Len(part) : (part \o rest)[i] = part[i]
  BY <1>1
<1>5. \A i \in 1..Len(part) : Taking(part \o rest)[i] = Taking(part)[i]
  BY <1>1, <1>2, <1>4 DEF Taking
<1>6. QED
  BY <1>1, <1>2, <1>3, <1>4, <1>5 DEF Starts

\* The cell of a part at a place.
Holds(part, i, kind, value) ==
    /\ part \in Seq(Cells) /\ i \in 1..Len(part)
    /\ part[i].kind = kind /\ part[i].value = value

\* A part has cells of a kind, all with one value, or none.
Carries(part, kind, value) ==
    /\ part \in Seq(Cells)
    /\ \E i \in 1..Len(part) : part[i].kind = kind
    /\ \A i \in 1..Len(part) : part[i].kind = kind => part[i].value = value

Lacks(part, kind) ==
    /\ part \in Seq(Cells)
    /\ \A i \in 1..Len(part) : part[i].kind # kind

\* The places of the cells of two parts.
LEMMA JoinedPlaces ==
    ASSUME NEW part \in Seq(Cells), NEW rest \in Seq(Cells)
    PROVE  /\ part \o rest \in Seq(Cells) /\ Len(part) \in Nat /\ Len(rest) \in Nat
           /\ Len(part \o rest) = Len(part) + Len(rest)
           /\ \A i \in 1..Len(part) : i \in 1..Len(part \o rest) /\ (part \o rest)[i] = part[i]
           /\ \A i \in 1..Len(rest) : /\ Len(part) + i \in 1..Len(part \o rest)
                                      /\ (part \o rest)[Len(part) + i] = rest[i]
           /\ \A i \in 1..Len(part \o rest) :
                 \/ i \in 1..Len(part)
                 \/ i - Len(part) \in 1..Len(rest) /\ i = Len(part) + (i - Len(part))
<1>1. /\ part \o rest \in Seq(Cells) /\ Len(part) \in Nat /\ Len(rest) \in Nat
      /\ Len(part \o rest) = Len(part) + Len(rest)
      /\ \A i \in 1..Len(part) + Len(rest) :
            (part \o rest)[i] = IF i <= Len(part) THEN part[i] ELSE rest[i - Len(part)]
  BY ConcatProperties, LenProperties
<1> DEFINE n == Len(part)
           m == Len(rest)
           all == part \o rest
<1> HIDE DEF n, m, all
<1>2. /\ n \in Nat /\ m \in Nat /\ Len(all) = n + m
      /\ \A i \in 1..n + m : all[i] = IF i <= n THEN part[i] ELSE rest[i - n]
  BY <1>1 DEF n, m, all
<1>3. \A i \in 1..n : i \in 1..Len(all) /\ all[i] = part[i]
  BY <1>2
<1>4. \A i \in 1..m : n + i \in 1..Len(all) /\ all[n + i] = rest[i]
  BY <1>2
<1>5. \A i \in 1..Len(all) : i \in 1..n \/ (i - n \in 1..m /\ i = n + (i - n))
  BY <1>2
<1>6. QED
  BY <1>1, <1>3, <1>4, <1>5 DEF n, m, all

\* A cell is one cell, of its kind and its value.
LEMMA OneCell ==
    ASSUME NEW kind, NEW value, NEW width
    PROVE  /\ Len(Cell(kind, value, width)) = 1
           /\ Cell(kind, value, width)[1].kind = kind /\ Cell(kind, value, width)[1].value = value
<1> DEFINE c == [kind |-> kind, value |-> value, width |-> width]
<1>1. Cell(kind, value, width) = <<c>>
  BY DEF Cell
<1>2. c.kind = kind /\ c.value = value
  OBVIOUS
<1> HIDE DEF c
<1>3. Len(<<c>>) = 1 /\ <<c>>[1] = c
  OBVIOUS
<1>4. QED
  BY <1>1, <1>2, <1>3

\* What one cell, and two parts, hold.
LEMMA HoldsCell ==
    ASSUME NEW kind, NEW value, NEW width, Cell(kind, value, width) \in Seq(Cells)
    PROVE  Holds(Cell(kind, value, width), 1, kind, value)
BY OneCell DEF Holds

\* What a part holds it holds at the same place when more follows,
LEMMA HoldsBefore ==
    ASSUME NEW part, NEW i, NEW kind, NEW value, Holds(part, i, kind, value),
           NEW rest, rest \in Seq(Cells)
    PROVE  Holds(part \o rest, i, kind, value)
BY JoinedPlaces DEF Holds

\* and further back when more goes before it.
LEMMA HoldsAfter ==
    ASSUME NEW part, part \in Seq(Cells), NEW n, n = Len(part),
           NEW rest, NEW i, NEW kind, NEW value, Holds(rest, i, kind, value)
    PROVE  Holds(part \o rest, n + i, kind, value)
BY JoinedPlaces DEF Holds

\* A cell carries its own value,
LEMMA CarriesCell ==
    ASSUME NEW kind, NEW value, NEW width, Cell(kind, value, width) \in Seq(Cells)
    PROVE  Carries(Cell(kind, value, width), kind, value)
<1>1. Len(Cell(kind, value, width)) = 1 /\ 1 \in 1..1 /\ \A i \in 1..1 : i = 1
  BY OneCell
<1>2. QED
  BY <1>1, OneCell DEF Carries

\* and lacks every other kind.
LEMMA LacksCell ==
    ASSUME NEW other, NEW kind, NEW value, NEW width, Cell(kind, value, width) \in Seq(Cells),
           other # kind
    PROVE  Lacks(Cell(kind, value, width), other)
<1>1. Len(Cell(kind, value, width)) = 1 /\ \A i \in 1..1 : i = 1
  BY OneCell
<1>2. QED
  BY <1>1, OneCell DEF Lacks

\* A part that is there on a condition lacks what the part lacks,
LEMMA LacksIf ==
    ASSUME NEW given, NEW part, NEW kind, given => Lacks(part, kind)
    PROVE  Lacks(If(given, part), kind)
<1>1. <<>> \in Seq(Cells) /\ Len(<<>>) = 0 /\ \A i \in 1..0 : FALSE
  OBVIOUS
<1>2. Lacks(<<>>, kind)
  BY <1>1 DEF Lacks
<1>3. QED
  BY <1>2, Zenon DEF If

\* and carries what the part carries if the condition holds.
LEMMA CarriesIf ==
    ASSUME NEW given, given, NEW part, NEW kind, NEW value, Carries(part, kind, value)
    PROVE  Carries(If(given, part), kind, value)
BY DEF If

\* Two parts lack what both of them lack,
LEMMA LacksJoin ==
    ASSUME NEW part, NEW rest, NEW kind, Lacks(part, kind), Lacks(rest, kind)
    PROVE  Lacks(part \o rest, kind)
<1>1. part \in Seq(Cells) /\ rest \in Seq(Cells)
  BY DEF Lacks
<1> DEFINE n == Len(part)
           all == part \o rest
<1>2. /\ all \in Seq(Cells) /\ \A i \in 1..n : all[i] = part[i]
      /\ \A i \in 1..Len(rest) : all[n + i] = rest[i]
      /\ \A i \in 1..Len(all) : i \in 1..n \/ (i - n \in 1..Len(rest) /\ i = n + (i - n))
  BY <1>1, JoinedPlaces
<1> HIDE DEF n, all
<1>3. \A i \in 1..Len(all) : all[i].kind # kind
  BY <1>2 DEF Lacks, n
<1>4. QED
  BY <1>2, <1>3 DEF Lacks, all

\* carry what the first carries if the second lacks it,
LEMMA CarriesBefore ==
    ASSUME NEW part, NEW rest, NEW kind, NEW value, Carries(part, kind, value), Lacks(rest, kind)
    PROVE  Carries(part \o rest, kind, value)
<1>1. part \in Seq(Cells) /\ rest \in Seq(Cells)
  BY DEF Carries, Lacks
<1> DEFINE n == Len(part)
           all == part \o rest
<1>2. /\ all \in Seq(Cells) /\ \A i \in 1..n : i \in 1..Len(all) /\ all[i] = part[i]
      /\ \A i \in 1..Len(rest) : all[n + i] = rest[i]
      /\ \A i \in 1..Len(all) : i \in 1..n \/ (i - n \in 1..Len(rest) /\ i = n + (i - n))
  BY <1>1, JoinedPlaces
<1> HIDE DEF n, all
<1>3. \A i \in 1..Len(all) : all[i].kind = kind => all[i].value = value
  <2> SUFFICES ASSUME NEW i \in 1..Len(all), all[i].kind = kind PROVE all[i].value = value
    OBVIOUS
  <2>1. CASE i \in 1..n
    BY <1>2, <2>1 DEF Lacks, Carries, n
  <2>2. CASE i - n \in 1..Len(rest) /\ i = n + (i - n)
    <3>1. all[i] = rest[i - n]
      BY <1>2, <2>2
    <3>2. QED
      BY <2>2, <3>1 DEF Lacks, Carries
  <2>3. QED
    BY <1>2, <2>1, <2>2
<1>4. \E i \in 1..Len(all) : all[i].kind = kind
  <2>1. PICK i \in 1..Len(part) : part[i].kind = kind
    BY DEF Carries
  <2>2. QED
    BY <1>2, <2>1 DEF n
<1>5. QED
  BY <1>2, <1>3, <1>4 DEF Carries, all

\* and what the second carries if the first lacks it.
LEMMA CarriesAfter ==
    ASSUME NEW part, NEW rest, NEW kind, NEW value, Lacks(part, kind), Carries(rest, kind, value)
    PROVE  Carries(part \o rest, kind, value)
<1>1. part \in Seq(Cells) /\ rest \in Seq(Cells)
  BY DEF Carries, Lacks
<1> DEFINE n == Len(part)
           all == part \o rest
<1>2. /\ all \in Seq(Cells) /\ \A i \in 1..n : all[i] = part[i]
      /\ \A i \in 1..Len(rest) : n + i \in 1..Len(all) /\ all[n + i] = rest[i]
      /\ \A i \in 1..Len(all) : i \in 1..n \/ (i - n \in 1..Len(rest) /\ i = n + (i - n))
  BY <1>1, JoinedPlaces
<1> HIDE DEF n, all
<1>3. \A i \in 1..Len(all) : all[i].kind = kind => all[i].value = value
  <2> SUFFICES ASSUME NEW i \in 1..Len(all), all[i].kind = kind PROVE all[i].value = value
    OBVIOUS
  <2>1. CASE i \in 1..n
    BY <1>2, <2>1 DEF Lacks, Carries, n
  <2>2. CASE i - n \in 1..Len(rest) /\ i = n + (i - n)
    <3>1. all[i] = rest[i - n]
      BY <1>2, <2>2
    <3>2. QED
      BY <2>2, <3>1 DEF Lacks, Carries
  <2>3. QED
    BY <1>2, <2>1, <2>2
<1>4. \E i \in 1..Len(all) : all[i].kind = kind
  <2>1. PICK i \in 1..Len(rest) : rest[i].kind = kind
    BY DEF Carries
  <2>2. QED
    BY <1>2, <2>1 DEF n
<1>5. QED
  BY <1>2, <1>3, <1>4 DEF Carries, all

\* What a section gets of the cells it took.
LEMMA GotCarried ==
    ASSUME ReaderTyped, Framed, ~Sending, NEW part, Upcoming(part), NEW want, Fits(want, part),
           Taken(want), NEW kind, NEW default
    PROVE  /\ Lacks(part, kind) => Got(want, kind, default) = default
           /\ \A value : Carries(part, kind, value) => Got(want, kind, default) = value
<1>1. /\ part \in Seq(Cells) /\ DOMAIN want = 1..Len(part) /\ Len(want) = Len(part)
      /\ Len(part) \in Nat /\ \A i \in 1..Len(part) : want[i][1] = part[i].kind
  BY TakingOne DEF Fits
<1>2. reader.pos + Len(part) <= Len(frame) /\ reader.pos \in Nat /\ Len(frame) \in Nat
  BY <1>1, FrameIsDatagram DEF Taken, There, ReaderTyped
<1>3. \A i \in 1..Len(part) : frame[reader.pos + i] = part[i]
  <2>1. \A i \in 1..Len(part) : reader.pos + i <= Len(frame)
    BY <1>1, <1>2
  <2>2. QED
    BY <2>1 DEF Upcoming
<1>4. Lacks(part, kind) => Got(want, kind, default) = default
  BY <1>1 DEF Got, Lacks
<1>5. ASSUME NEW value, Carries(part, kind, value)
      PROVE  Got(want, kind, default) = value
  <2> DEFINE n == CHOOSE i \in DOMAIN want : want[i][1] = kind
  <2>1. \E i \in DOMAIN want : want[i][1] = kind
    BY <1>1, <1>5 DEF Carries
  <2>2. n \in DOMAIN want /\ want[n][1] = kind
    BY <2>1
  <2>3. Got(want, kind, default) = frame[reader.pos + n].value
    BY <2>1 DEF Got
  <2> HIDE DEF n
  <2>4. frame[reader.pos + n] = part[n] /\ part[n].value = value
    BY <1>1, <1>3, <1>5, <2>2 DEF Carries
  <2>5. QED
    BY <2>3, <2>4
<1>6. QED
  BY <1>4, <1>5

\* A cell that is written if it is announced.
LEMMA PieceFits ==
    ASSUME NEW given, NEW kind, NEW value, NEW width,
           given => Cell(kind, value, width) \in Seq(Cells)
    PROVE  Fits(If(given, <<<<kind, width>>>>), If(given, Cell(kind, value, width)))
<1>1. given => Fits(<<<<kind, width>>>>, Cell(kind, value, width))
  BY FitsCell, Zenon
<1>2. QED
  BY <1>1, FitsIf, Zenon

\* A cell that is there on a condition that holds carries its value;
LEMMA PieceCarries ==
    ASSUME NEW given, given, NEW kind, NEW value, NEW width,
           Cell(kind, value, width) \in Seq(Cells)
    PROVE  Carries(If(given, Cell(kind, value, width)), kind, value)
BY CarriesCell, CarriesIf, Zenon

\* a part that is there on a condition that does not hold lacks everything.
LEMMA PieceLacks ==
    ASSUME NEW given, ~given, NEW part, NEW kind
    PROVE  Lacks(If(given, part), kind)
BY LacksIf, Zenon

\* What is seen of a part that comes next.
LEMMA Sees ==
    ASSUME NEW part, Upcoming(part), NEW i, NEW kind, NEW value, Holds(part, i, kind, value),
           reader.pos + i <= Len(frame)
    PROVE  frame[reader.pos + i].kind = kind /\ frame[reader.pos + i].value = value
BY DEF Upcoming, Holds

\* The decoder sees the flags that come next, unless the frame ends before them.
LEMMA SeesFlags ==
    ASSUME Framed, ~Sending, ReaderTyped,
           NEW part, Upcoming(part), NEW kind, NEW value, Holds(part, 1, kind, value)
    PROVE  /\ FlagsOf(kind) = IF reader.pos < Len(frame) THEN value ELSE {}
           /\ There(1) => FlagsOf(kind) = value
<1>1. reader.pos \in Nat /\ Len(frame) \in Nat
  BY FrameIsDatagram DEF ReaderTyped
<1>2. reader.pos < Len(frame) => Next1(kind) /\ frame[reader.pos + 1].value = value
  <2>1. reader.pos < Len(frame) => reader.pos + 1 <= Len(frame)
    BY <1>1
  <2>2. QED
    BY <2>1, Sees DEF Next1
<1>3. ~(reader.pos < Len(frame)) => ~Next1(kind)
  BY DEF Next1
<1>4. FlagsOf(kind) = IF reader.pos < Len(frame) THEN value ELSE {}
  BY <1>2, <1>3 DEF FlagsOf
<1>5. There(1) => reader.pos < Len(frame)
  BY <1>1 DEF There
<1>6. QED
  BY <1>4, <1>5

\* Nothing of a part is there: whatever is wanted, it is missing.
LEMMA NothingThere ==
    ASSUME ~There(1), NEW part, part \in Seq(Cells), part # <<>>,
           NEW S, NEW want, want \in Wanted(S), want # <<>>
    PROVE  Suits(want, part)
<1>1. Len(part) \in Nat /\ 0 < Len(part) /\ Len(want) \in Nat /\ 0 < Len(want)
      /\ DOMAIN want = 1..Len(want) /\ \A i \in 1..0 : FALSE
  BY DEF Wanted
<1>2. Starts(want, part, 0)
  BY <1>1 DEF Starts
<1>3. ~There(0 + 1)
  OBVIOUS
<1>4. QED
  BY <1>2, <1>3 DEF Suits

\* What begins with some cells does so whatever comes after.
LEMMA StartsLonger ==
    ASSUME NEW want, NEW part, NEW n, n \in Nat, Starts(want, part, n), NEW S, want \in Wanted(S),
           NEW more, more \in Wanted(S), part \in Seq(Cells), NEW rest, rest \in Seq(Cells)
    PROVE  Starts(want \o more, part \o rest, n)
<1> DEFINE T == Kinds \X S
<1>1. want \in Seq(T) /\ more \in Seq(T)
  BY DEF Wanted
<1> HIDE DEF T
<1>2. /\ want \o more \in Seq(T) /\ Len(want \o more) = Len(want) + Len(more)
      /\ Len(want) \in Nat /\ Len(more) \in Nat /\ DOMAIN (want \o more) = 1..Len(want \o more)
      /\ \A i \in 1..Len(want) + Len(more) :
            (want \o more)[i] = IF i <= Len(want) THEN want[i] ELSE more[i - Len(want)]
  <2>1. /\ want \o more \in Seq(T) /\ Len(want \o more) = Len(want) + Len(more)
        /\ \A i \in 1..Len(want) + Len(more) :
              (want \o more)[i] = IF i <= Len(want) THEN want[i] ELSE more[i - Len(want)]
    BY <1>1, ConcatProperties
  <2>2. QED
    BY <1>1, <2>1, LenProperties
<1>3. /\ part \o rest \in Seq(Cells) /\ Len(part \o rest) = Len(part) + Len(rest)
      /\ Len(part) \in Nat /\ Len(rest) \in Nat
      /\ \A i \in 1..Len(part) : i \in 1..Len(part \o rest) /\ (part \o rest)[i] = part[i]
  BY JoinedPlaces
<1>4. n < Len(part) /\ n < Len(want) /\ \A i \in 1..n : want[i] = Taking(part)[i]
  BY DEF Starts
<1>5. \A i \in 1..n : Taking(part \o rest)[i] = Taking(part)[i]
  <2>1. \A i \in 1..n : i \in 1..Len(part)
    BY <1>3, <1>4
  <2>2. QED
    BY <1>3, <2>1 DEF Taking
<1>6. \A i \in 1..n : (want \o more)[i] = want[i]
  BY <1>2, <1>4
<1>7. n < Len(part \o rest) /\ n < Len(want \o more) /\ Len(want \o more) \in Nat
  BY <1>2, <1>3, <1>4
<1>8. QED
  BY <1>2, <1>4, <1>5, <1>6, <1>7 DEF Starts

-----------------------------------------------------------------------------
(* One layout for the frames of either make: s is what is sent, and every part is as the *)
(* flags before it announce it.                                                         *)

Own(s) == s.options = None

Count(s) == Len(s.message.messages)

\* What is sent is typed, and has a message.
Given(s) ==
    /\ Encodable(s.message) /\ s.message.messages # <<>>
    /\ s.options # None => Expressible(s.message, s.options)

Extended(s) == s.message.pid_type # "BYTE" \/ s.key # None

Flags(s) ==
    IF Own(s)
    THEN {"publisher id", "payload header"} \cup Flag(Extended(s), "extended")
         \cup Flag(s.message.group # None \/ s.message.sequence # None, "group header")
    ELSE {"extended", "group header"} \cup (s.options \cap {"publisher id", "payload header"})

Ext1(s) ==
    IF Own(s)
    THEN IF Extended(s) THEN {s.message.pid_type} \cup Flag(s.key # None, "security") ELSE {}
    ELSE {s.message.pid_type}
         \cup (s.options \cap {"class id", "frame time", "frame picoseconds", "ext2"})
         \cup Flag(s.key # None, "security")

Ext2(s) == IF Own(s) THEN {} ELSE s.options \cap {"chunk", "promoted", "discovery"}

On(s) == Flags(s) \cup Ext1(s) \cup Ext2(s)

HeaderPart(s) ==
    Cell("flags", Flags(s), 1) \o If("extended" \in Flags(s), Cell("ext1", Ext1(s), 1))
    \o If("ext2" \in Ext1(s), Cell("ext2", Ext2(s), 1))

\* What the first two cells of flags announce is there.
LEMMA Announced ==
    ASSUME NEW s, Given(s)
    PROVE  /\ Flags(s) \in SUBSET FlagNames /\ Ext1(s) \in SUBSET FlagNames
           /\ Ext2(s) \in SUBSET FlagNames
           /\ "extended" \notin Flags(s) => Ext1(s) = {}
           /\ "ext2" \notin Ext1(s) => Ext2(s) = {}
           /\ "ext2" \in Ext1(s) => "extended" \in Flags(s)
<1>1. s.message.pid_type \in DOMAIN PidSize
  BY DEF Given, Encodable
<1>2. DOMAIN PidSize = {"BYTE", "UINT16", "UINT32", "UINT64"}
  BY DEF PidSize
<1> DEFINE p == s.message.pid_type
<1> HIDE DEF p
<1>3. p \in DOMAIN PidSize /\ p # "ext2"
  BY <1>1, <1>2 DEF p
<1>4. CASE Own(s)
  <2>1. Flags(s) = {"publisher id", "payload header"} \cup Flag(Extended(s), "extended")
         \cup Flag(s.message.group # None \/ s.message.sequence # None, "group header")
    BY <1>4 DEF Flags
  <2>2. Ext1(s) = IF Extended(s) THEN {p} \cup Flag(s.key # None, "security") ELSE {}
    BY <1>4 DEF Ext1, p
  <2>3. Ext2(s) = {}
    BY <1>4 DEF Ext2
  <2>4. QED
    BY <1>3, <2>1, <2>2, <2>3 DEF Flag, FlagNames
<1>5. CASE ~Own(s)
  <2>1. Flags(s) = {"extended", "group header"} \cup (s.options \cap {"publisher id", "payload header"})
    BY <1>5 DEF Flags
  <2>2. Ext1(s) = {p} \cup (s.options \cap {"class id", "frame time", "frame picoseconds", "ext2"})
         \cup Flag(s.key # None, "security")
    BY <1>5 DEF Ext1, p
  <2>3. Ext2(s) = s.options \cap {"chunk", "promoted", "discovery"}
    BY <1>5 DEF Ext2
  <2>4. s.options \cap {"chunk", "promoted", "discovery"} # {} => "ext2" \in s.options
    BY <1>5 DEF Given, Own, Expressible
  <2>5. QED
    BY <1>3, <2>1, <2>2, <2>3, <2>4 DEF Flag, FlagNames
<1>6. QED
  BY <1>4, <1>5

\* The cells of the header.
LEMMA HeaderFits ==
    ASSUME NEW s, Given(s)
    PROVE  /\ Fits(<<<<"flags", 1>>>> \o If("extended" \in Flags(s), <<<<"ext1", 1>>>>)
                   \o If("ext2" \in Ext1(s), <<<<"ext2", 1>>>>), HeaderPart(s))
           /\ Holds(HeaderPart(s), 1, "flags", Flags(s))
           /\ "extended" \in Flags(s) => Holds(HeaderPart(s), 2, "ext1", Ext1(s))
           /\ "ext2" \in Ext1(s) => Holds(HeaderPart(s), 3, "ext2", Ext2(s))
<1> DEFINE f == Cell("flags", Flags(s), 1)
           e == Cell("ext1", Ext1(s), 1)
           x == Cell("ext2", Ext2(s), 1)
           E == If("extended" \in Flags(s), e)
           X == If("ext2" \in Ext1(s), x)
<1>1. f \in Seq(Cells) /\ e \in Seq(Cells) /\ x \in Seq(Cells)
  <2>1. {"flags", "ext1", "ext2"} \subseteq FlagKinds /\ 1 \in Nat
    BY DEF FlagKinds
  <2>2. QED
    BY <2>1, Announced, FlagsCell
<1>2. Fits(<<<<"flags", 1>>>>, f) /\ Fits(<<<<"ext1", 1>>>>, e) /\ Fits(<<<<"ext2", 1>>>>, x)
  BY <1>1, FitsCell, Zenon
<1>3. HeaderPart(s) = f \o E \o X
  BY DEF HeaderPart
<1>4. Holds(f, 1, "flags", Flags(s)) /\ Holds(e, 1, "ext1", Ext1(s)) /\ Holds(x, 1, "ext2", Ext2(s))
  BY <1>1, HoldsCell, Zenon
<1>5. Len(f) = 1 /\ Len(e) = 1
  BY OneCell
<1> HIDE DEF f, e, x
<1>6. E \in Seq(Cells) /\ X \in Seq(Cells)
  BY <1>1, GivenCells, Zenon
<1>7. Fits(<<<<"flags", 1>>>> \o If("extended" \in Flags(s), <<<<"ext1", 1>>>>)
           \o If("ext2" \in Ext1(s), <<<<"ext2", 1>>>>), f \o E \o X)
  BY <1>2, FitsIf, FitsJoin, Zenon
<1>8. Holds(f \o E \o X, 1, "flags", Flags(s))
  BY <1>4, <1>6, HoldsBefore, Zenon
<1>9. ASSUME "extended" \in Flags(s) PROVE Holds(f \o E \o X, 2, "ext1", Ext1(s)) /\ E = e
  <2>1. E = e
    BY <1>9 DEF If
  <2>2. Holds(f \o E, 1 + 1, "ext1", Ext1(s))
    BY <1>1, <1>4, <1>5, <2>1, HoldsAfter, Zenon
  <2>3. Holds(f \o E, 2, "ext1", Ext1(s))
    BY <2>2
  <2>4. QED
    BY <1>6, <2>1, <2>3, HoldsBefore, Zenon
<1>10. ASSUME "ext2" \in Ext1(s) PROVE Holds(f \o E \o X, 3, "ext2", Ext2(s))
  <2>1. E = e /\ X = x
    BY <1>9, <1>10, Announced DEF If
  <2>2. Len(f \o E) = 2 /\ f \o E \in Seq(Cells)
    BY <1>1, <1>5, <2>1, JoinedPlaces
  <2>3. Holds(f \o E \o X, 2 + 1, "ext2", Ext2(s))
    BY <1>4, <2>1, <2>2, HoldsAfter, Zenon
  <2>4. QED
    BY <2>3
<1>11. QED
  BY <1>3, <1>7, <1>8, <1>9, <1>10

IdPart(s) ==
    If("publisher id" \in On(s), Cell("publisher id", s.message.pid, PidSize[s.message.pid_type]))
    \o If("class id" \in On(s), Cell("class id", None, 16))

GroupFlags(s) ==
    IF Own(s)
    THEN Flag(s.message.group # None, "group") \cup Flag(s.message.sequence # None, "group sequence")
    ELSE {"group", "group version", "number"}

GroupPart(s) ==
    If("group header" \in On(s),
       Cell("group flags", GroupFlags(s), 1)
       \o If("group" \in GroupFlags(s), Cell("group", s.message.group, 2))
       \o If("group version" \in GroupFlags(s), Cell("group version", None, 4))
       \o If("number" \in GroupFlags(s), Cell("number", None, 2))
       \o If("group sequence" \in GroupFlags(s),
             Cell("group sequence", s.message.sequence % SeqModulus, 2)))

Writers(s) ==
    [i \in 1..Count(s) |-> [kind |-> "writer id", value |-> s.message.messages[i].writer, width |-> 2]]

PayloadPart(s) == If("payload header" \in On(s), Cell("count", Count(s), 1) \o Writers(s))

TimesPart(s) ==
    If("frame time" \in On(s), Cell("frame time", None, 8))
    \o If("frame picoseconds" \in On(s), Cell("frame picoseconds", None, 2))
    \o If("promoted" \in On(s), Cell("promoted size", 3, 2) \o Cell("promoted", None, 3))

SecurityFlags(s) ==
    IF Own(s) THEN {"signed"} ELSE {"signed", "footer"} \cup (s.options \cap {"encrypted"})

Token(s) == IF Own(s) THEN 1 ELSE 7

Nonce(s) == IF Own(s) THEN 8 ELSE 1

SecurityPart(s) ==
    If("security" \in On(s),
       Cell("security flags", SecurityFlags(s), 1) \o Cell("token", Token(s), 4)
       \o Cell("nonce length", Nonce(s), 1) \o Cell("nonce", None, Nonce(s))
       \o If("footer" \in SecurityFlags(s), Cell("footer size", None, 2)))

Sizes(s) ==
    [i \in 1..Count(s) |-> [kind |-> "size", value |-> Width(Bodies(s.message, s.datavalue)[i]),
                            width |-> 2]]

SizesPart(s) == If("payload header" \in On(s) /\ Count(s) > 1, Sizes(s))

\* What is sent, named for the cells it is sent in.
LEMMA GivenTyped ==
    ASSUME NEW s, Given(s)
    PROVE  /\ s.message.pid \in Nat /\ s.message.pid_type \in DOMAIN PidSize
           /\ PidSize[s.message.pid_type] \in Nat
           /\ s.message.group \in Nat \cup {None} /\ s.message.sequence \in Nat \cup {None}
           /\ s.message.messages \in Seq(DataSet) /\ Count(s) \in Nat /\ Count(s) > 0
           /\ \A n \in 1..Count(s) :
                 /\ s.message.messages[n] \in DataSet /\ s.message.messages[n].writer \in Nat
                 /\ s.message.messages[n].sequence \in Nat \cup {None}
                 /\ s.message.messages[n].fields \in Seq(FieldValue)
<1>1. /\ s.message.pid \in Nat /\ s.message.pid_type \in DOMAIN PidSize
      /\ s.message.group \in Nat \cup {None} /\ s.message.sequence \in Nat \cup {None}
      /\ s.message.messages \in Seq(DataSet) /\ s.message.messages # <<>>
  BY DEF Given, Encodable
<1>2. PidSize[s.message.pid_type] \in Nat
  BY <1>1 DEF PidSize
<1> DEFINE ms == s.message.messages
<1> HIDE DEF ms
<1>3. ms \in Seq(DataSet) /\ ms # <<>>
  BY <1>1 DEF ms
<1>4. Len(ms) \in Nat /\ Len(ms) > 0 /\ \A n \in 1..Len(ms) : ms[n] \in DataSet
  BY <1>3
<1>5. \A d \in DataSet : d.writer \in Nat /\ d.sequence \in Nat \cup {None} /\ d.fields \in Seq(FieldValue)
  BY DEF DataSet
<1>6. QED
  BY <1>1, <1>2, <1>4, <1>5 DEF ms, Count

\* The cells of the publisher id.
LEMMA IdFits ==
    ASSUME NEW s, Given(s)
    PROVE  /\ Fits(If("publisher id" \in On(s), <<<<"publisher id", PidSize[s.message.pid_type]>>>>)
                   \o If("class id" \in On(s), <<<<"class id", 16>>>>), IdPart(s))
           /\ "publisher id" \in On(s) => Carries(IdPart(s), "publisher id", s.message.pid)
           /\ "publisher id" \notin On(s) => Lacks(IdPart(s), "publisher id")
<1> DEFINE w == PidSize[s.message.pid_type]
           p == If("publisher id" \in On(s), Cell("publisher id", s.message.pid, w))
           c == If("class id" \in On(s), Cell("class id", None, 16))
<1>1. /\ Cell("publisher id", s.message.pid, w) \in Seq(Cells)
      /\ Cell("class id", None, 16) \in Seq(Cells)
  <2>1. w \in Nat /\ s.message.pid \in Nat
    BY GivenTyped
  <2>2. "publisher id" \in Numbers /\ "class id" \in Skips /\ 16 \in Nat
    BY DEF Numbers, Skips
  <2>3. QED
    BY <2>1, <2>2, NumberCell, SkippedCell, Zenon
<1>2. IdPart(s) = p \o c
  BY DEF IdPart
<1> HIDE DEF w
<1>3. /\ Fits(If("publisher id" \in On(s), <<<<"publisher id", w>>>>), p)
      /\ "publisher id" \in On(s) => Carries(p, "publisher id", s.message.pid)
      /\ "publisher id" \notin On(s) => Lacks(p, "publisher id")
  BY <1>1, PieceFits, PieceCarries, PieceLacks, Zenon
<1>4. /\ Fits(If("class id" \in On(s), <<<<"class id", 16>>>>), c)
      /\ Lacks(c, "publisher id")
  <2>1. "publisher id" # "class id"
    OBVIOUS
  <2>2. Fits(If("class id" \in On(s), <<<<"class id", 16>>>>), c)
    BY <1>1, PieceFits, Zenon
  <2>3. Lacks(c, "publisher id")
    <3>1. Lacks(Cell("class id", None, 16), "publisher id")
      BY <1>1, <2>1, LacksCell, Zenon
    <3>2. QED
      BY <3>1, LacksIf, ZenonT(30)
  <2>4. QED
    BY <2>2, <2>3
<1> HIDE DEF p, c
<1>5. Fits(If("publisher id" \in On(s), <<<<"publisher id", w>>>>)
           \o If("class id" \in On(s), <<<<"class id", 16>>>>), p \o c)
  BY <1>3, <1>4, FitsJoin, Zenon
<1>6. "publisher id" \in On(s) => Carries(p \o c, "publisher id", s.message.pid)
  BY <1>3, <1>4, CarriesBefore, Zenon
<1>7. "publisher id" \notin On(s) => Lacks(p \o c, "publisher id")
  BY <1>3, <1>4, LacksJoin, Zenon
<1>8. QED
  BY <1>2, <1>5, <1>6, <1>7 DEF w

\* The cells of the group header.
LEMMA GroupFits ==
    ASSUME NEW s, Given(s)
    PROVE  /\ Fits(If("group header" \in On(s),
                      <<<<"group flags", 1>>>> \o If("group" \in GroupFlags(s), <<<<"group", 2>>>>)
                      \o If("group version" \in GroupFlags(s), <<<<"group version", 4>>>>)
                      \o If("number" \in GroupFlags(s), <<<<"number", 2>>>>)
                      \o If("group sequence" \in GroupFlags(s), <<<<"group sequence", 2>>>>)),
                   GroupPart(s))
           /\ "group header" \in On(s) => Holds(GroupPart(s), 1, "group flags", GroupFlags(s))
           /\ "group header" \in On(s) /\ "group" \in GroupFlags(s) =>
                 Carries(GroupPart(s), "group", s.message.group)
           /\ "group header" \in On(s) /\ "group sequence" \in GroupFlags(s) =>
                 Carries(GroupPart(s), "group sequence", s.message.sequence % SeqModulus)
           /\ "group header" \notin On(s) \/ "group" \notin GroupFlags(s) =>
                 Lacks(GroupPart(s), "group")
           /\ "group header" \notin On(s) \/ "group sequence" \notin GroupFlags(s) =>
                 Lacks(GroupPart(s), "group sequence")
<1> DEFINE F == GroupFlags(s)
           N == s.message.sequence % SeqModulus
           f == Cell("group flags", F, 1)
           g == If("group" \in F, Cell("group", s.message.group, 2))
           v == If("group version" \in F, Cell("group version", None, 4))
           n == If("number" \in F, Cell("number", None, 2))
           q == If("group sequence" \in F, Cell("group sequence", N, 2))
           all == f \o g \o v \o n \o q
<1>1. F \in SUBSET FlagNames /\ ("group sequence" \in F => N \in Residues)
  <2>1. s.message.sequence \in Nat \cup {None}
    BY GivenTyped
  <2>2. "group sequence" \in F => s.message.sequence # None
    BY DEF GroupFlags, Flag
  <2>3. F \in SUBSET FlagNames
    BY DEF GroupFlags, Flag, FlagNames
  <2> HIDE DEF F
  <2>4. QED
    BY <2>1, <2>2, <2>3, Residue
<1>2. GroupPart(s) = If("group header" \in On(s), all)
  BY DEF GroupPart
<1> HIDE DEF F, N
<1>3. /\ f \in Seq(Cells) /\ Cell("group", s.message.group, 2) \in Seq(Cells)
      /\ Cell("group version", None, 4) \in Seq(Cells) /\ Cell("number", None, 2) \in Seq(Cells)
      /\ "group sequence" \in F => Cell("group sequence", N, 2) \in Seq(Cells)
  <2>1. /\ "group flags" \in FlagKinds /\ {"group version", "number"} \subseteq Skips
        /\ {1, 2, 4} \subseteq Nat
    BY DEF FlagKinds, Skips
  <2>2. s.message.group \in Nat \cup {None}
    BY GivenTyped
  <2>3. f \in Seq(Cells)
    BY <1>1, <2>1, FlagsCell
  <2>4. Cell("group version", None, 4) \in Seq(Cells) /\ Cell("number", None, 2) \in Seq(Cells)
    BY <2>1, SkippedCell
  <2>5. Cell("group", s.message.group, 2) \in Seq(Cells)
    BY <2>2, GroupCell, Zenon
  <2>6. "group sequence" \in F => Cell("group sequence", N, 2) \in Seq(Cells)
    BY <1>1, SequenceCell, Zenon
  <2>7. QED
    BY <2>3, <2>4, <2>5, <2>6
<1>0. /\ "group" # "group flags" /\ "group" # "group version" /\ "group" # "number"
      /\ "group sequence" # "group flags" /\ "group sequence" # "group version"
      /\ "group sequence" # "number" /\ "group sequence" # "group" /\ "group" # "group sequence"
  OBVIOUS
<1>4. /\ Fits(<<<<"group flags", 1>>>>, f) /\ Holds(f, 1, "group flags", F)
      /\ Lacks(f, "group") /\ Lacks(f, "group sequence")
  BY <1>0, <1>3, FitsCell, HoldsCell, LacksCell, Zenon
<1>5. /\ Fits(If("group" \in F, <<<<"group", 2>>>>), g)
      /\ Lacks(g, "group sequence")
      /\ "group" \in F => Carries(g, "group", s.message.group)
      /\ "group" \notin F => Lacks(g, "group")
  <2>1. Fits(If("group" \in F, <<<<"group", 2>>>>), g)
    BY <1>3, PieceFits, Zenon
  <2>2. Lacks(g, "group sequence")
    <3>1. Lacks(Cell("group", s.message.group, 2), "group sequence")
      BY <1>0, <1>3, LacksCell, Zenon
    <3>2. QED
      BY <3>1, LacksIf, Zenon
  <2>3. "group" \in F => Carries(g, "group", s.message.group)
    BY <1>3, PieceCarries, Zenon
  <2>4. "group" \notin F => Lacks(g, "group")
    BY PieceLacks, Zenon
  <2>5. QED
    BY <2>1, <2>2, <2>3, <2>4
<1>6. /\ Fits(If("group version" \in F, <<<<"group version", 4>>>>), v)
      /\ Lacks(v, "group") /\ Lacks(v, "group sequence")
  <2>1. Fits(If("group version" \in F, <<<<"group version", 4>>>>), v)
    BY <1>3, PieceFits, Zenon
  <2>2. Lacks(v, "group")
    <3>1. Lacks(Cell("group version", None, 4), "group")
      BY <1>0, <1>3, LacksCell, Zenon
    <3>2. QED
      BY <3>1, LacksIf, Zenon
  <2>3. Lacks(v, "group sequence")
    <3>1. Lacks(Cell("group version", None, 4), "group sequence")
      BY <1>0, <1>3, LacksCell, Zenon
    <3>2. QED
      BY <3>1, LacksIf, Zenon
  <2>4. QED
    BY <2>1, <2>2, <2>3
<1>7. /\ Fits(If("number" \in F, <<<<"number", 2>>>>), n)
      /\ Lacks(n, "group") /\ Lacks(n, "group sequence")
  <2>1. Fits(If("number" \in F, <<<<"number", 2>>>>), n)
    BY <1>3, PieceFits, Zenon
  <2>2. Lacks(n, "group")
    <3>1. Lacks(Cell("number", None, 2), "group")
      BY <1>0, <1>3, LacksCell, Zenon
    <3>2. QED
      BY <3>1, LacksIf, Zenon
  <2>3. Lacks(n, "group sequence")
    <3>1. Lacks(Cell("number", None, 2), "group sequence")
      BY <1>0, <1>3, LacksCell, Zenon
    <3>2. QED
      BY <3>1, LacksIf, Zenon
  <2>4. QED
    BY <2>1, <2>2, <2>3
<1>8. /\ Fits(If("group sequence" \in F, <<<<"group sequence", 2>>>>), q)
      /\ Lacks(q, "group")
      /\ "group sequence" \in F => Carries(q, "group sequence", N)
      /\ "group sequence" \notin F => Lacks(q, "group sequence")
  <2>1. Fits(If("group sequence" \in F, <<<<"group sequence", 2>>>>), q)
    BY <1>3, PieceFits, Zenon
  <2>2. Lacks(q, "group")
    <3>1. "group sequence" \in F => Lacks(Cell("group sequence", N, 2), "group")
      BY <1>0, <1>3, LacksCell, Zenon
    <3>2. QED
      BY <3>1, LacksIf, Zenon
  <2>3. "group sequence" \in F => Carries(q, "group sequence", N)
    BY <1>3, PieceCarries, Zenon
  <2>4. "group sequence" \notin F => Lacks(q, "group sequence")
    BY PieceLacks, Zenon
  <2>5. QED
    BY <2>1, <2>2, <2>3, <2>4
<1> HIDE DEF f, g, v, n, q
<1>9. Fits(<<<<"group flags", 1>>>> \o If("group" \in F, <<<<"group", 2>>>>)
           \o If("group version" \in F, <<<<"group version", 4>>>>)
           \o If("number" \in F, <<<<"number", 2>>>>)
           \o If("group sequence" \in F, <<<<"group sequence", 2>>>>), all)
  BY <1>4, <1>5, <1>6, <1>7, <1>8, FitsJoin, Zenon
<1>10. Holds(all, 1, "group flags", F)
  <2>1. g \in Seq(Cells) /\ v \in Seq(Cells) /\ n \in Seq(Cells) /\ q \in Seq(Cells)
    BY <1>5, <1>6, <1>7, <1>8, Zenon DEF Fits
  <2>2. QED
    BY <1>4, <2>1, HoldsBefore, Zenon
<1>11. "group" \in F => Carries(all, "group", s.message.group)
  BY <1>4, <1>5, <1>6, <1>7, <1>8, CarriesAfter, CarriesBefore, Zenon
<1>12. "group" \notin F => Lacks(all, "group")
  BY <1>4, <1>5, <1>6, <1>7, <1>8, LacksJoin, Zenon
<1>13. "group sequence" \in F => Carries(all, "group sequence", N)
  <2>1. Lacks(f \o g \o v \o n, "group sequence")
    BY <1>4, <1>5, <1>6, <1>7, LacksJoin, Zenon
  <2>2. QED
    BY <1>8, <2>1, CarriesAfter, Zenon
<1>14. "group sequence" \notin F => Lacks(all, "group sequence")
  BY <1>4, <1>5, <1>6, <1>7, <1>8, LacksJoin, Zenon
<1> HIDE DEF all
<1>15. Fits(If("group header" \in On(s),
                <<<<"group flags", 1>>>> \o If("group" \in F, <<<<"group", 2>>>>)
                \o If("group version" \in F, <<<<"group version", 4>>>>)
                \o If("number" \in F, <<<<"number", 2>>>>)
                \o If("group sequence" \in F, <<<<"group sequence", 2>>>>)),
            If("group header" \in On(s), all))
  BY <1>9, FitsIf, Zenon
<1>16. "group header" \in On(s) => If("group header" \in On(s), all) = all
  BY DEF If
<1>17. \A kind : ("group header" \in On(s) => Lacks(all, kind))
                   => Lacks(If("group header" \in On(s), all), kind)
  BY LacksIf, Zenon
<1>18. QED
  BY <1>2, <1>10, <1>11, <1>12, <1>13, <1>14, <1>15, <1>16, <1>17, Zenon DEF F, N

\* Cells of one kind, one for each place.
Repeats(cells, kind, width) ==
    /\ cells \in Seq(Cells)
    /\ \A i \in 1..Len(cells) : cells[i].kind = kind /\ cells[i].width = width

\* Cells all of one kind and one size fit where as many are wanted.
LEMMA FitsRepeated ==
    ASSUME NEW cells, NEW kind, NEW width, Repeats(cells, kind, width)
    PROVE  Fits([i \in 1..Len(cells) |-> <<kind, width>>], cells)
BY DEF Fits, Taking, Repeats

\* Where there is a cell, there are some.
LEMMA HoldsSome ==
    ASSUME NEW part, NEW i, NEW kind, NEW value, Holds(part, i, kind, value)
    PROVE  part # <<>> /\ part \in Seq(Cells) /\ i \in 1..Len(part) /\ Len(part) \in Nat
BY DEF Holds

\* The cells of the payload header.
LEMMA PayloadFits ==
    ASSUME NEW s, Given(s)
    PROVE  /\ Fits(If("payload header" \in On(s),
                      <<<<"count", 1>>>> \o [i \in 1..Count(s) |-> <<"writer id", 2>>]),
                   PayloadPart(s))
           /\ "payload header" \in On(s) =>
                 /\ Holds(PayloadPart(s), 1, "count", Count(s))
                 /\ Len(PayloadPart(s)) = Count(s) + 1
                 /\ \A i \in 1..Count(s) :
                       PayloadPart(s)[1 + i].value = s.message.messages[i].writer
<1> DEFINE c == Cell("count", Count(s), 1)
           w == Writers(s)
<1>1. Count(s) \in Nat /\ \A i \in 1..Count(s) : s.message.messages[i].writer \in Nat
  BY GivenTyped
<1>2. c \in Seq(Cells)
  <2>1. "count" \in Numbers /\ 1 \in Nat
    BY DEF Numbers
  <2>2. QED
    BY <1>1, <2>1, NumberCell, Zenon
<1>3. w \in Seq(Cells) /\ Len(w) = Count(s)
  <2>1. \A i \in 1..Count(s) :
           [kind |-> "writer id", value |-> s.message.messages[i].writer, width |-> 2] \in Cells
    BY <1>1 DEF Cells, Numbers
  <2>2. w = [i \in 1..Count(s) |->
              [kind |-> "writer id", value |-> s.message.messages[i].writer, width |-> 2]]
    BY DEF Writers
  <2> HIDE DEF w
  <2>3. w \in [1..Count(s) -> Cells]
    BY <2>1, <2>2, Zenon
  <2>4. QED
    BY <1>1, <2>3
<1>4. \A i \in 1..Count(s) : /\ w[i].kind = "writer id" /\ w[i].width = 2
                             /\ w[i].value = s.message.messages[i].writer
  BY DEF Writers
<1>5. Len(c) = 1
  BY OneCell
<1>6. Fits(<<<<"count", 1>>>>, c) /\ Holds(c, 1, "count", Count(s))
  BY <1>2, FitsCell, HoldsCell, Zenon
<1>7. PayloadPart(s) = If("payload header" \in On(s), c \o w)
  BY DEF PayloadPart
<1> HIDE DEF c, w
<1>8. Fits([i \in 1..Count(s) |-> <<"writer id", 2>>], w)
  <2>1. Repeats(w, "writer id", 2)
    BY <1>3, <1>4 DEF Repeats
  <2>2. QED
    BY <1>3, <2>1, FitsRepeated
<1>9. Fits(<<<<"count", 1>>>> \o [i \in 1..Count(s) |-> <<"writer id", 2>>], c \o w)
  BY <1>6, <1>8, FitsJoin, Zenon
<1>10. Holds(c \o w, 1, "count", Count(s))
  BY <1>3, <1>6, HoldsBefore, Zenon
<1>11. Len(c \o w) = Count(s) + 1 /\ \A i \in 1..Count(s) : (c \o w)[1 + i] = w[i]
  <2>1. /\ Len(c \o w) = Len(c) + Len(w)
        /\ \A i \in 1..Len(w) : (c \o w)[Len(c) + i] = w[i]
    BY <1>2, <1>3, JoinedPlaces
  <2>2. QED
    BY <1>1, <1>3, <1>5, <2>1
<1>12. Fits(If("payload header" \in On(s),
                      <<<<"count", 1>>>> \o [i \in 1..Count(s) |-> <<"writer id", 2>>]),
            If("payload header" \in On(s), c \o w))
  BY <1>9, FitsIf, Zenon
<1>13. "payload header" \in On(s) => If("payload header" \in On(s), c \o w) = c \o w
  BY DEF If
<1> DEFINE all == c \o w
<1> HIDE DEF all
<1>14. \A i \in 1..Count(s) : all[1 + i].value = s.message.messages[i].writer
  BY <1>4, <1>11 DEF all
<1>15. QED
  BY <1>7, <1>10, <1>11, <1>12, <1>13, <1>14 DEF all

\* The cells of the times and the promoted fields.
LEMMA TimesFits ==
    ASSUME NEW s, Given(s),
           NEW before, before = If("frame time" \in On(s), <<<<"frame time", 8>>>>)
                                \o If("frame picoseconds" \in On(s), <<<<"frame picoseconds", 2>>>>)
    PROVE  /\ Fits(before \o If("promoted" \in On(s), <<<<"promoted size", 2>>, <<"promoted", 3>>>>),
                   TimesPart(s))
           /\ "promoted" \in On(s) =>
                 /\ Holds(TimesPart(s), Len(before) + 1, "promoted size", 3)
                 /\ \A want \in Wanted(Nat) : want # <<>> =>
                       Starts(before \o want, TimesPart(s), Len(before))
<1> DEFINE t == If("frame time" \in On(s), Cell("frame time", None, 8))
           p == If("frame picoseconds" \in On(s), Cell("frame picoseconds", None, 2))
           z == Cell("promoted size", 3, 2)
           o == Cell("promoted", None, 3)
           T == If("frame time" \in On(s), <<<<"frame time", 8>>>>)
           P == If("frame picoseconds" \in On(s), <<<<"frame picoseconds", 2>>>>)
<1>1. /\ Cell("frame time", None, 8) \in Seq(Cells)
      /\ Cell("frame picoseconds", None, 2) \in Seq(Cells)
      /\ z \in Seq(Cells) /\ o \in Seq(Cells)
  <2>1. {"frame time", "frame picoseconds", "promoted"} \subseteq Skips /\ "promoted size" \in Numbers
    BY DEF Numbers, Skips
  <2>2. 2 \in Nat /\ 3 \in Nat /\ 8 \in Nat
    OBVIOUS
  <2>3. QED
    BY <2>1, <2>2, NumberCell, SkippedCell
<1>2. Fits(T, t) /\ Fits(P, p)
  BY <1>1, PieceFits, Zenon
<1>3. Fits(<<<<"promoted size", 2>>>>, z) /\ Fits(<<<<"promoted", 3>>>>, o)
      /\ Holds(z, 1, "promoted size", 3)
  BY <1>1, FitsCell, HoldsCell, Zenon
<1>4. TimesPart(s) = t \o p \o If("promoted" \in On(s), z \o o)
  BY DEF TimesPart
<1>5. T \in Wanted(Nat) /\ P \in Wanted(Nat)
  <2>1. "frame time" \in Kinds /\ "frame picoseconds" \in Kinds
    <3>1. "frame time" \in Skips /\ "frame picoseconds" \in Skips
      BY DEF Skips
    <3>2. QED
      BY <3>1, Zenon DEF Kinds
  <2>2. 2 \in Nat /\ 8 \in Nat
    OBVIOUS
  <2>3. QED
    BY <2>1, <2>2, OneWanted, JoinWanted, Zenon
<1> HIDE DEF t, p, z, o, T, P
<1>6. before = T \o P
  BY DEF T, P
<1>7. Fits(before, t \o p) /\ before \in Wanted(Nat)
  BY <1>2, <1>5, <1>6, FitsJoin, JoinWanted, Zenon
<1>8. <<<<"promoted size", 2>>>> \o <<<<"promoted", 3>>>> = <<<<"promoted size", 2>>, <<"promoted", 3>>>>
  BY TwoJoined, Zenon
<1>9. Fits(<<<<"promoted size", 2>>, <<"promoted", 3>>>>, z \o o)
  <2>1. Fits(<<<<"promoted size", 2>>>> \o <<<<"promoted", 3>>>>, z \o o)
    BY <1>3, FitsJoin, Zenon
  <2>2. QED
    BY <1>8, <2>1
<1>10. Fits(before \o If("promoted" \in On(s), <<<<"promoted size", 2>>, <<"promoted", 3>>>>),
            t \o p \o If("promoted" \in On(s), z \o o))
  BY <1>7, <1>9, FitsIf, FitsJoin, Zenon
<1>11. t \o p \in Seq(Cells) /\ z \o o \in Seq(Cells) /\ Len(before) = Len(t \o p)
  <2>1. t \o p \in Seq(Cells) /\ z \o o \in Seq(Cells) /\ before = Taking(t \o p)
    BY <1>7, <1>9, Zenon DEF Fits
  <2>2. QED
    BY <2>1, TakingOne
<1>12. ASSUME "promoted" \in On(s)
       PROVE  /\ Holds(t \o p \o (z \o o), Len(before) + 1, "promoted size", 3)
              /\ \A want \in Wanted(Nat) : want # <<>> =>
                     Starts(before \o want, t \o p \o (z \o o), Len(before))
  <2>1. Holds(z \o o, 1, "promoted size", 3)
    BY <1>1, <1>3, HoldsBefore, Zenon
  <2>2. Holds(t \o p \o (z \o o), Len(before) + 1, "promoted size", 3)
    BY <1>11, <2>1, HoldsAfter, Zenon
  <2>3. z \o o # <<>>
    BY <2>1, HoldsSome, Zenon
  <2>4. \A want \in Wanted(Nat) : want # <<>> =>
           Starts(before \o want, t \o p \o (z \o o), Len(t \o p))
    BY <1>7, <1>11, <2>3, StartsWith
  <2>5. QED
    BY <1>11, <2>2, <2>4
<1>13. "promoted" \in On(s) => If("promoted" \in On(s), z \o o) = z \o o
  BY DEF If
<1>14. QED
  BY <1>4, <1>10, <1>12, <1>13

\* Four elements joined one by one are a sequence of four.
LEMMA FourJoined ==
    ASSUME NEW a, NEW b, NEW c, NEW d
    PROVE  ((<<a>> \o <<b>>) \o <<c>>) \o <<d>> = <<a, b, c, d>>
<1> DEFINE three == <<a, b>> \o <<c>>
           four == <<a, b, c>> \o <<d>>
           S == {a, b, c, d}
<1>1. <<a, b>> \in Seq(S) /\ <<a, b, c>> \in Seq(S) /\ <<c>> \in Seq(S) /\ <<d>> \in Seq(S)
  OBVIOUS
<1>2. three \in Seq(S) /\ Len(three) = 3 /\ three[1] = a /\ three[2] = b /\ three[3] = c
  BY <1>1
<1>3. /\ four \in Seq(S) /\ Len(four) = 4
      /\ four[1] = a /\ four[2] = b /\ four[3] = c /\ four[4] = d
  BY <1>1
<1> HIDE DEF three, four, S
<1>4. three = <<a, b, c>>
  BY <1>2
<1>5. four = <<a, b, c, d>>
  BY <1>3
<1>6. <<a>> \o <<b>> = <<a, b>>
  BY TwoJoined
<1>7. QED
  BY <1>4, <1>5, <1>6, Zenon DEF four, three

\* The cells of the security header.
LEMMA SecurityFits ==
    ASSUME NEW s, Given(s)
    PROVE  /\ Fits(If("security" \in On(s),
                      <<<<"security flags", 1>>, <<"token", 4>>, <<"nonce length", 1>>,
                        <<"nonce", Nonce(s)>>>>
                      \o If("footer" \in SecurityFlags(s), <<<<"footer size", 2>>>>)),
                   SecurityPart(s))
           /\ "security" \in On(s) => Holds(SecurityPart(s), 1, "security flags", SecurityFlags(s))
           /\ "security" \in On(s) => Holds(SecurityPart(s), 3, "nonce length", Nonce(s))
           /\ "security" \in On(s) => Carries(SecurityPart(s), "token", Token(s))
           /\ "security" \notin On(s) => Lacks(SecurityPart(s), "token")
           /\ "security" \notin On(s) => SecurityPart(s) = <<>>
<1> DEFINE F == SecurityFlags(s)
           N == Nonce(s)
           f == Cell("security flags", F, 1)
           t == Cell("token", Token(s), 4)
           l == Cell("nonce length", N, 1)
           n == Cell("nonce", None, N)
           z == If("footer" \in F, Cell("footer size", None, 2))
           all == f \o t \o l \o n \o z
<1>0. Len(f) = 1 /\ Len(t) = 1
  <2>1. \A kind, value, width : Len(Cell(kind, value, width)) = 1
    BY OneCell
  <2>2. QED
    BY <2>1, Zenon
<1>1. F \in SUBSET FlagNames /\ N \in Nat /\ Token(s) \in Nat
  <2>1. F \in SUBSET FlagNames
    BY DEF SecurityFlags, FlagNames
  <2>2. N \in Nat /\ Token(s) \in Nat
    BY DEF Nonce, Token
  <2>3. QED
    BY <2>1, <2>2
<1>2. SecurityPart(s) = If("security" \in On(s), all)
  BY DEF SecurityPart
<1> HIDE DEF F, N
<1>3. /\ f \in Seq(Cells) /\ t \in Seq(Cells) /\ l \in Seq(Cells) /\ n \in Seq(Cells)
      /\ Cell("footer size", None, 2) \in Seq(Cells)
  <2>1. /\ "security flags" \in FlagKinds /\ {"nonce", "footer size"} \subseteq Skips
        /\ {"token", "nonce length"} \subseteq Numbers
    BY DEF FlagKinds, Skips, Numbers
  <2>2. {1, 2, 4} \subseteq Nat
    OBVIOUS
  <2>3. QED
    BY <1>1, <2>1, <2>2, NumberCell, FlagsCell, SkippedCell
<1>4. /\ "token" # "security flags" /\ "token" # "nonce length" /\ "token" # "nonce"
      /\ "token" # "footer size"
  OBVIOUS
<1>5. /\ Fits(<<<<"security flags", 1>>>>, f) /\ Holds(f, 1, "security flags", F)
      /\ Lacks(f, "token")
  BY <1>3, <1>4, FitsCell, HoldsCell, LacksCell, Zenon
<1>6. /\ Fits(<<<<"token", 4>>>>, t) /\ Carries(t, "token", Token(s))
  BY <1>3, FitsCell, CarriesCell, Zenon
<1>7. /\ Fits(<<<<"nonce length", 1>>>>, l) /\ Holds(l, 1, "nonce length", N) /\ Lacks(l, "token")
  BY <1>3, <1>4, FitsCell, HoldsCell, LacksCell, Zenon
<1>8. Fits(<<<<"nonce", N>>>>, n) /\ Lacks(n, "token")
  BY <1>3, <1>4, FitsCell, LacksCell, Zenon
<1>9. Fits(If("footer" \in F, <<<<"footer size", 2>>>>), z)
  BY <1>3, PieceFits, Zenon
<1>10. Lacks(z, "token")
  <2>1. Lacks(Cell("footer size", None, 2), "token")
    BY <1>3, <1>4, LacksCell, Zenon
  <2>2. QED
    BY <2>1, LacksIf, Zenon
<1> HIDE DEF f, t, l, n, z
<1>11. <<<<"security flags", 1>>, <<"token", 4>>, <<"nonce length", 1>>, <<"nonce", N>>>>
        = ((<<<<"security flags", 1>>>> \o <<<<"token", 4>>>>) \o <<<<"nonce length", 1>>>>)
          \o <<<<"nonce", N>>>>
  BY FourJoined, Zenon
<1>12. Fits(<<<<"security flags", 1>>, <<"token", 4>>, <<"nonce length", 1>>, <<"nonce", N>>>>
            \o If("footer" \in F, <<<<"footer size", 2>>>>), all)
  <2>1. Fits(((<<<<"security flags", 1>>>> \o <<<<"token", 4>>>>) \o <<<<"nonce length", 1>>>>)
             \o <<<<"nonce", N>>>>, f \o t \o l \o n)
    BY <1>5, <1>6, <1>7, <1>8, FitsJoin, Zenon
  <2>2. Fits(<<<<"security flags", 1>>, <<"token", 4>>, <<"nonce length", 1>>, <<"nonce", N>>>>,
             f \o t \o l \o n)
    BY <1>11, <2>1, Zenon
  <2>3. QED
    BY <1>9, <2>2, FitsJoin, Zenon
<1>13. z \in Seq(Cells)
  BY <1>10, Zenon DEF Lacks
<1>14. Holds(all, 1, "security flags", F)
  BY <1>3, <1>5, <1>13, HoldsBefore, Zenon
<1>15. Holds(all, 3, "nonce length", N)
  <2>1. f \o t \in Seq(Cells) /\ Len(f \o t) = 2
    <3>1. f \o t \in Seq(Cells) /\ Len(f \o t) = Len(f) + Len(t)
      BY <1>3, JoinedPlaces, Zenon
    <3>2. QED
      BY <1>0, <3>1
  <2>2. Holds(f \o t \o l, 2 + 1, "nonce length", N)
    BY <1>7, <2>1, HoldsAfter, Zenon
  <2>0. 2 + 1 = 3
    OBVIOUS
  <2>3. Holds(f \o t \o l, 3, "nonce length", N)
    BY <2>0, <2>2, Zenon
  <2>4. QED
    BY <1>3, <1>13, <2>3, HoldsBefore, Zenon
<1>16. Carries(all, "token", Token(s))
  BY <1>5, <1>6, <1>7, <1>8, <1>10, CarriesAfter, CarriesBefore, Zenon
<1> HIDE DEF all
<1>17. Fits(If("security" \in On(s),
               <<<<"security flags", 1>>, <<"token", 4>>, <<"nonce length", 1>>, <<"nonce", N>>>>
               \o If("footer" \in F, <<<<"footer size", 2>>>>)),
            If("security" \in On(s), all))
  BY <1>12, FitsIf, Zenon
<1>18. "security" \in On(s) => If("security" \in On(s), all) = all
  BY DEF If
<1>19. "security" \notin On(s) => If("security" \in On(s), all) = <<>>
  BY DEF If
<1>20. "security" \notin On(s) => Lacks(If("security" \in On(s), all), "token")
  BY PieceLacks, Zenon
<1>21. QED
  BY <1>2, <1>14, <1>15, <1>16, <1>17, <1>18, <1>19, <1>20, Zenon DEF F, N

\* The widths of several messages are numbers.
LEMMA SizesTyped ==
    ASSUME NEW s, Given(s)
    PROVE  Repeats(Sizes(s), "size", 2) /\ Len(Sizes(s)) = Count(s)
<1> DEFINE b == Bodies(s.message, s.datavalue)
           n == Count(s)
<1>1. b \in Seq(Seq(Cells)) /\ Len(b) = n /\ n \in Nat
  BY BodiesAreCells, GivenTyped DEF Given, Count
<1>2. \A c \in Cells : c.width \in Nat
  BY CellKinds
<1> HIDE DEF b, n
<1>3. \A i \in 1..n : Width(b[i]) \in Nat
  <2>1. \A i \in 1..n : b[i] \in Seq(Cells)
    BY <1>1
  <2>2. QED
    BY <1>2, <2>1, WidthIsNatural
<1> DEFINE w(i) == Width(b[i])
           z == [i \in 1..n |-> [kind |-> "size", value |-> w(i), width |-> 2]]
<1>4. \A i \in 1..n : w(i) \in Nat
  BY <1>3
<1> HIDE DEF w
<1>5. \A i \in 1..n : [kind |-> "size", value |-> w(i), width |-> 2] \in Cells
  BY <1>4 DEF Cells, Numbers
<1>6. \A i \in 1..n : z[i].kind = "size" /\ z[i].width = 2
  OBVIOUS
<1>7. z \in [1..n -> Cells]
  BY <1>5, Zenon
<1>8. z \in Seq(Cells) /\ Len(z) = n
  <2> HIDE DEF z
  <2>1. QED
    BY <1>1, <1>7
<1>9. Sizes(s) = z
  BY DEF Sizes, z, w, b, n
<1> HIDE DEF z
<1>10. QED
  BY <1>6, <1>8, <1>9 DEF Repeats, n

\* The cells of the sizes.
LEMMA SizesFits ==
    ASSUME NEW s, Given(s)
    PROVE  Fits(If("payload header" \in On(s) /\ Count(s) > 1, [i \in 1..Count(s) |-> <<"size", 2>>]),
                SizesPart(s))
<1>1. Fits([i \in 1..Count(s) |-> <<"size", 2>>], Sizes(s))
  <2>1. Fits([i \in 1..Len(Sizes(s)) |-> <<"size", 2>>], Sizes(s))
    BY SizesTyped, FitsRepeated, Zenon
  <2>2. QED
    BY <2>1, SizesTyped, Zenon
<1>2. QED
  BY <1>1, FitsIf, Zenon DEF SizesPart

AsDataValue(s, n) == Own(s) => UseDataValue(s.message.messages[n], s.datavalue)

Flags1(s, n) ==
    LET d == s.message.messages[n]
    IN  IF ~Own(s)
        THEN {"flags2", "sequence", IF "raw" \in s.options THEN "raw" ELSE "DataValue"}
             \cup (s.options \cap {"status", "major", "minor"})
        ELSE IF d.keep_alive THEN {"flags2"}
        ELSE {IF AsDataValue(s, n) THEN "DataValue" ELSE "Variant"}
             \cup Flag(d.sequence # None, "sequence")

Flags2(s, n) ==
    IF ~Own(s) THEN s.options \cap {"keep alive", "delta", "timestamp", "picoseconds"}
    ELSE IF s.message.messages[n].keep_alive THEN {"keep alive"} ELSE {}

Quiet(s, n) == "keep alive" \in Flags2(s, n)

Number(s, n) ==
    LET d == s.message.messages[n]
    IN  IF Own(s) THEN d.sequence % SeqModulus ELSE d.sequence

MessageWant(flags1, flags2) ==
    <<<<"flags1", 1>>>> \o If("flags2" \in flags1, <<<<"flags2", 1>>>>)
    \o If("sequence" \in flags1, <<<<"sequence", 2>>>>)
    \o If("timestamp" \in flags2, <<<<"timestamp", 8>>>>)
    \o If("picoseconds" \in flags2, <<<<"picoseconds", 2>>>>)
    \o If("status" \in flags1, <<<<"message status", 2>>>>)
    \o If("major" \in flags1, <<<<"major", 4>>>>)
    \o If("minor" \in flags1, <<<<"minor", 4>>>>)
    \o If(~("keep alive" \in flags2), <<<<"field count", 2>>>>)

MessagePart(s, n) ==
    Cell("flags1", Flags1(s, n), 1) \o If("flags2" \in Flags1(s, n), Cell("flags2", Flags2(s, n), 1))
    \o If("sequence" \in Flags1(s, n), Cell("sequence", Number(s, n), 2))
    \o If("timestamp" \in Flags2(s, n), Cell("timestamp", None, 8))
    \o If("picoseconds" \in Flags2(s, n), Cell("picoseconds", None, 2))
    \o If("status" \in Flags1(s, n), Cell("message status", None, 2))
    \o If("major" \in Flags1(s, n), Cell("major", None, 4))
    \o If("minor" \in Flags1(s, n), Cell("minor", None, 4))
    \o If(~("keep alive" \in Flags2(s, n)),
          Cell("field count", Len(s.message.messages[n].fields), 2))

\* A cell that is skipped carries nothing else.
LEMMA SkippedPiece ==
    ASSUME NEW given, NEW kind, kind \in Skips, NEW width, width \in Nat
    PROVE  /\ Fits(If(given, <<<<kind, width>>>>), If(given, Cell(kind, None, width)))
           /\ \A other : other \notin Skips => Lacks(If(given, Cell(kind, None, width)), other)
           /\ If(given, Cell(kind, None, width)) \in Seq(Cells)
<1>1. Cell(kind, None, width) \in Seq(Cells)
  BY SkippedCell
<1>2. Fits(If(given, <<<<kind, width>>>>), If(given, Cell(kind, None, width)))
  BY <1>1, PieceFits, Zenon
<1>3. ASSUME NEW other, other \notin Skips
      PROVE  Lacks(If(given, Cell(kind, None, width)), other)
  <2>1. other # kind
    BY <1>3
  <2>2. Lacks(Cell(kind, None, width), other)
    BY <1>1, <2>1, LacksCell, Zenon
  <2>3. QED
    BY <2>2, LacksIf, Zenon
<1>4. If(given, Cell(kind, None, width)) \in Seq(Cells)
  BY <1>1, GivenCells, Zenon
<1>5. QED
  BY <1>2, <1>3, <1>4

\* The flags of a message, and its number.
LEMMA MessageFlags ==
    ASSUME NEW s, Given(s), NEW n, n \in 1..Count(s)
    PROVE  /\ Flags1(s, n) \in SUBSET FlagNames /\ Flags2(s, n) \in SUBSET FlagNames
           /\ "flags2" \notin Flags1(s, n) => Flags2(s, n) = {}
           /\ "sequence" \in Flags1(s, n) => Number(s, n) \in Residues
           /\ s.message.messages[n].fields \in Seq(FieldValue)
           /\ Len(s.message.messages[n].fields) \in Nat
<1> DEFINE d == s.message.messages[n]
           b == AsDataValue(s, n)
<1>1. d.sequence \in Nat \cup {None} /\ d.fields \in Seq(FieldValue) /\ Len(d.fields) \in Nat
  <2>1. d.sequence \in Nat \cup {None} /\ d.fields \in Seq(FieldValue)
    BY GivenTyped
  <2> HIDE DEF d
  <2>2. QED
    BY <2>1
<1>2. CASE Own(s)
  <2>1. Flags1(s, n) = IF d.keep_alive THEN {"flags2"}
                       ELSE {IF b THEN "DataValue" ELSE "Variant"} \cup Flag(d.sequence # None, "sequence")
    BY <1>2 DEF Flags1
  <2>2. Flags2(s, n) = IF d.keep_alive THEN {"keep alive"} ELSE {}
    BY <1>2 DEF Flags2
  <2>3. Number(s, n) = d.sequence % SeqModulus
    BY <1>2 DEF Number
  <2> HIDE DEF d, b
  <2>4. "sequence" \in Flags1(s, n) => d.sequence # None
    BY <2>1 DEF Flag
  <2>5. "sequence" \in Flags1(s, n) => Number(s, n) \in Residues
    BY <1>1, <2>3, <2>4, Residue
  <2>6. Flags1(s, n) \in SUBSET FlagNames /\ Flags2(s, n) \in SUBSET FlagNames
    BY <2>1, <2>2 DEF Flag, FlagNames
  <2>7. "flags2" \notin Flags1(s, n) => Flags2(s, n) = {}
    BY <2>1, <2>2
  <2>8. QED
    BY <1>1, <2>5, <2>6, <2>7 DEF d
<1>3. CASE ~Own(s)
  <2>1. Flags1(s, n) = {"flags2", "sequence", IF "raw" \in s.options THEN "raw" ELSE "DataValue"}
             \cup (s.options \cap {"status", "major", "minor"})
    BY <1>3 DEF Flags1
  <2>2. Flags2(s, n) = s.options \cap {"keep alive", "delta", "timestamp", "picoseconds"}
    BY <1>3 DEF Flags2
  <2>3. Number(s, n) = d.sequence
    BY <1>3 DEF Number
  <2>4. n = 1
    <3>1. Count(s) = 1
      BY <1>3 DEF Given, Own, Expressible, Count
    <3>2. QED
      BY <3>1
  <2>5. d.sequence \in Residues
    BY <1>3, <2>4 DEF Given, Own, Expressible, Residues
  <2> HIDE DEF d, b
  <2>6. Flags1(s, n) \in SUBSET FlagNames /\ Flags2(s, n) \in SUBSET FlagNames
    BY <2>1, <2>2 DEF Flag, FlagNames
  <2>7. "flags2" \notin Flags1(s, n) => Flags2(s, n) = {}
    BY <2>1
  <2>8. QED
    BY <1>1, <2>3, <2>5, <2>6, <2>7 DEF d
<1>4. QED
  BY <1>2, <1>3

\* The cells of a message before its fields.
LEMMA MessageFits ==
    ASSUME NEW s, Given(s), NEW n, n \in 1..Count(s)
    PROVE  /\ Fits(MessageWant(Flags1(s, n), Flags2(s, n)), MessagePart(s, n))
           /\ Holds(MessagePart(s, n), 1, "flags1", Flags1(s, n))
           /\ "flags2" \in Flags1(s, n) => Holds(MessagePart(s, n), 2, "flags2", Flags2(s, n))
           /\ "sequence" \in Flags1(s, n) => Carries(MessagePart(s, n), "sequence", Number(s, n))
           /\ "sequence" \notin Flags1(s, n) => Lacks(MessagePart(s, n), "sequence")
           /\ ~Quiet(s, n) => Carries(MessagePart(s, n), "field count",
                                      Len(s.message.messages[n].fields))
           /\ Quiet(s, n) => Lacks(MessagePart(s, n), "field count")
<1> DEFINE F == Flags1(s, n)
           G == Flags2(s, n)
           N == Number(s, n)
           L == Len(s.message.messages[n].fields)
           a == Cell("flags1", F, 1)
           bb == Cell("flags2", G, 1)
           b == If("flags2" \in F, bb)
           qq == Cell("sequence", N, 2)
           q == If("sequence" \in F, qq)
           t == If("timestamp" \in G, Cell("timestamp", None, 8))
           p == If("picoseconds" \in G, Cell("picoseconds", None, 2))
           u == If("status" \in F, Cell("message status", None, 2))
           j == If("major" \in F, Cell("major", None, 4))
           i == If("minor" \in F, Cell("minor", None, 4))
           cc == Cell("field count", L, 2)
           c == If(~("keep alive" \in G), cc)
           skipped == t \o p \o u \o j \o i
<1>1. /\ F \in SUBSET FlagNames /\ G \in SUBSET FlagNames /\ L \in Nat
      /\ "sequence" \in F => N \in Residues
  BY MessageFlags
<1>2. MessagePart(s, n) = a \o b \o q \o t \o p \o u \o j \o i \o c
  BY DEF MessagePart
<1>3. Quiet(s, n) <=> "keep alive" \in G
  BY DEF Quiet
<1> HIDE DEF F, G, N, L
<1>4. /\ "sequence" # "flags1" /\ "sequence" # "flags2" /\ "sequence" # "field count"
      /\ "field count" # "flags1" /\ "field count" # "flags2" /\ "field count" # "sequence"
      /\ "sequence" \notin Skips /\ "field count" \notin Skips
  BY DEF Skips
<1>5. a \in Seq(Cells) /\ bb \in Seq(Cells) /\ cc \in Seq(Cells)
  <2>1. "flags1" \in FlagKinds /\ "flags2" \in FlagKinds /\ "field count" \in Numbers
    BY DEF FlagKinds, Numbers
  <2>2. 1 \in Nat /\ 2 \in Nat
    OBVIOUS
  <2>3. QED
    BY <1>1, <2>1, <2>2, FlagsCell, NumberCell, Zenon
<1>6. "sequence" \in F => qq \in Seq(Cells)
  BY <1>1, SequenceCell, Zenon
<1>0. \A kind, value, width : Len(Cell(kind, value, width)) = 1
  BY OneCell
<1>7. Len(a) = 1
  BY <1>0, Zenon
<1>8. /\ Fits(<<<<"flags1", 1>>>>, a) /\ Holds(a, 1, "flags1", F)
      /\ Lacks(a, "sequence") /\ Lacks(a, "field count")
  BY <1>4, <1>5, FitsCell, HoldsCell, LacksCell, Zenon
<1>9. /\ Fits(If("flags2" \in F, <<<<"flags2", 1>>>>), b) /\ Holds(bb, 1, "flags2", G)
      /\ Lacks(b, "sequence") /\ Lacks(b, "field count")
  <2>1. Fits(If("flags2" \in F, <<<<"flags2", 1>>>>), b)
    BY <1>5, PieceFits, Zenon
  <2>2. Holds(bb, 1, "flags2", G)
    BY <1>5, HoldsCell, Zenon
  <2>3. Lacks(bb, "sequence") /\ Lacks(bb, "field count")
    BY <1>4, <1>5, LacksCell, Zenon
  <2>4. Lacks(b, "sequence")
    BY <2>3, LacksIf, Zenon
  <2>5. Lacks(b, "field count")
    BY <2>3, LacksIf, Zenon
  <2>6. QED
    BY <2>1, <2>2, <2>4, <2>5
<1>10. /\ Fits(If("sequence" \in F, <<<<"sequence", 2>>>>), q)
       /\ "sequence" \in F => Carries(q, "sequence", N)
       /\ "sequence" \notin F => Lacks(q, "sequence")
       /\ Lacks(q, "field count")
  <2>1. Fits(If("sequence" \in F, <<<<"sequence", 2>>>>), q)
    BY <1>6, PieceFits, Zenon
  <2>2. "sequence" \in F => Carries(q, "sequence", N)
    BY <1>6, PieceCarries, Zenon
  <2>3. "sequence" \notin F => Lacks(q, "sequence")
    BY PieceLacks, Zenon
  <2>4. "sequence" \in F => Lacks(qq, "field count")
    BY <1>4, <1>6, LacksCell, Zenon
  <2>5. Lacks(q, "field count")
    BY <2>4, LacksIf, Zenon
  <2>6. QED
    BY <2>1, <2>2, <2>3, <2>5
<1>11. /\ Fits(If(~("keep alive" \in G), <<<<"field count", 2>>>>), c)
       /\ ~("keep alive" \in G) => Carries(c, "field count", L)
       /\ "keep alive" \in G => Lacks(c, "field count")
       /\ Lacks(c, "sequence")
  <2>1. Fits(If(~("keep alive" \in G), <<<<"field count", 2>>>>), c)
    BY <1>5, PieceFits, Zenon
  <2>2. ~("keep alive" \in G) => Carries(c, "field count", L)
    BY <1>5, PieceCarries, Zenon
  <2>3. "keep alive" \in G => Lacks(c, "field count")
    BY PieceLacks, Zenon
  <2>4. Lacks(cc, "sequence")
    BY <1>4, <1>5, LacksCell, Zenon
  <2>5. Lacks(c, "sequence")
    BY <2>4, LacksIf, Zenon
  <2>6. QED
    BY <2>1, <2>2, <2>3, <2>5
<1>12. /\ "timestamp" \in Skips /\ "picoseconds" \in Skips /\ "message status" \in Skips
       /\ "major" \in Skips /\ "minor" \in Skips /\ 2 \in Nat /\ 4 \in Nat /\ 8 \in Nat
  BY DEF Skips
<1>13. /\ Fits(If("timestamp" \in G, <<<<"timestamp", 8>>>>), t)
       /\ Lacks(t, "sequence") /\ Lacks(t, "field count") /\ t \in Seq(Cells)
  BY <1>4, <1>12, SkippedPiece, Zenon
<1>14. /\ Fits(If("picoseconds" \in G, <<<<"picoseconds", 2>>>>), p)
       /\ Lacks(p, "sequence") /\ Lacks(p, "field count") /\ p \in Seq(Cells)
  BY <1>4, <1>12, SkippedPiece, Zenon
<1>15. /\ Fits(If("status" \in F, <<<<"message status", 2>>>>), u)
       /\ Lacks(u, "sequence") /\ Lacks(u, "field count") /\ u \in Seq(Cells)
  BY <1>4, <1>12, SkippedPiece, Zenon
<1>16. /\ Fits(If("major" \in F, <<<<"major", 4>>>>), j)
       /\ Lacks(j, "sequence") /\ Lacks(j, "field count") /\ j \in Seq(Cells)
  BY <1>4, <1>12, SkippedPiece, Zenon
<1>17. /\ Fits(If("minor" \in F, <<<<"minor", 4>>>>), i)
       /\ Lacks(i, "sequence") /\ Lacks(i, "field count") /\ i \in Seq(Cells)
  BY <1>4, <1>12, SkippedPiece, Zenon
<1> DEFINE all == a \o b \o q \o t \o p \o u \o j \o i \o c
<1>18. b \in Seq(Cells) /\ q \in Seq(Cells) /\ c \in Seq(Cells)
  BY <1>9, <1>10, <1>11, Zenon DEF Lacks
<1>19. "flags2" \in F => b = bb
  BY DEF If
<1> HIDE DEF a, b, bb, q, qq, t, p, u, j, i, c, cc
<1>20. Fits(MessageWant(F, G), all)
  BY <1>8, <1>9, <1>10, <1>11, <1>13, <1>14, <1>15, <1>16, <1>17, FitsJoin, Zenon DEF MessageWant
<1>21. Holds(all, 1, "flags1", F)
  BY <1>8, <1>13, <1>14, <1>15, <1>16, <1>17, <1>18, HoldsBefore, Zenon
<1>22. ASSUME "flags2" \in F PROVE Holds(all, 2, "flags2", G)
  <2>1. Holds(a \o b, 1 + 1, "flags2", G)
    BY <1>5, <1>7, <1>9, <1>19, <1>22, HoldsAfter, Zenon
  <2>2. 1 + 1 = 2
    OBVIOUS
  <2>3. Holds(a \o b, 2, "flags2", G)
    BY <2>1, <2>2, Zenon
  <2>4. QED
    BY <2>3, <1>13, <1>14, <1>15, <1>16, <1>17, <1>18, HoldsBefore, Zenon
<1>23. Lacks(a \o b, "sequence") /\ Lacks(a \o b, "field count")
  BY <1>8, <1>9, LacksJoin, Zenon
<1>24. "sequence" \in F => Carries(all, "sequence", N)
  <2>1. "sequence" \in F => Carries(a \o b \o q, "sequence", N)
    BY <1>10, <1>23, CarriesAfter, Zenon
  <2>2. QED
    BY <2>1, <1>11, <1>13, <1>14, <1>15, <1>16, <1>17, CarriesBefore, Zenon
<1>25. "sequence" \notin F => Lacks(all, "sequence")
  BY <1>10, <1>11, <1>13, <1>14, <1>15, <1>16, <1>17, <1>23, LacksJoin, Zenon
<1>26. Lacks(a \o b \o q \o t \o p \o u \o j \o i, "field count")
  BY <1>10, <1>13, <1>14, <1>15, <1>16, <1>17, <1>23, LacksJoin, Zenon
<1>27. ~("keep alive" \in G) => Carries(all, "field count", L)
  BY <1>11, <1>26, CarriesAfter, Zenon
<1>28. "keep alive" \in G => Lacks(all, "field count")
  BY <1>11, <1>26, LacksJoin, Zenon
<1> HIDE DEF all
<1>29. MessagePart(s, n) = all
  BY <1>2 DEF all, a, b, bb, q, qq, t, p, u, j, i, c, cc
<1>30. QED
  BY <1>3, <1>20, <1>21, <1>22, <1>24, <1>25, <1>27, <1>28, <1>29, Zenon DEF F, G, N, L

FieldAt(s, n, j) == s.message.messages[n].fields[j]

IsNull(f) == f.type = "NULL" \/ f.value = None

Mask(s, n, j) ==
    LET f == FieldAt(s, n, j)
    IN  IF ~AsDataValue(s, n) THEN {"value"}
        ELSE IF ~Own(s) THEN {"value", "status", "server time", "picoseconds"}
        ELSE Flag(f.type # "NULL" /\ f.value # None, "value") \cup Flag(f.status # "good", "status")
             \cup Flag(f.time # None, "time")

Shape(s, n, j) ==
    LET f == FieldAt(s, n, j)
    IN  IF ~Own(s) THEN <<IF "matrix" \in s.options THEN "matrix" ELSE "scalar", "BYTE">>
        ELSE IF IsNull(f) THEN <<"null", "NULL">>
        ELSE <<IF IsArray(f.value) THEN "array" ELSE "scalar", f.type>>

Scalar(s, n, j) ==
    LET f == FieldAt(s, n, j)
    IN  IF Own(s) /\ IsNull(f) THEN <<>>
        ELSE IF Own(s) /\ IsArray(f.value) THEN f.value ELSE <<f.value>>

FieldWant(datavalue, mask, variant, count) ==
    If(datavalue, <<<<"DataValue", 1>>>>)
    \o If("value" \in mask, <<<<"variant", 1>>>>)
    \o If(variant[1] = "array", <<<<"array length", 4>>>>)
    \o [i \in 1..count |-> <<"scalar", ScalarSize[variant[2]]>>]
    \o If("status" \in mask, <<<<"status", 4>>>>)
    \o If("time" \in mask, <<<<"time", 8>>>>)
    \o If("server time" \in mask, <<<<"server time", 8>>>>)
    \o If("picoseconds" \in mask, <<<<"picoseconds", 2>>>>)

FieldPart(s, n, j) ==
    If(AsDataValue(s, n), Cell("DataValue", Mask(s, n, j), 1))
    \o If("value" \in Mask(s, n, j), Cell("variant", Shape(s, n, j), 1))
    \o If(Shape(s, n, j)[1] = "array", Cell("array length", Len(Scalar(s, n, j)), 4))
    \o Scalars(Shape(s, n, j)[2], Scalar(s, n, j))
    \o If("status" \in Mask(s, n, j), Cell("status", FieldAt(s, n, j).status, 4))
    \o If("time" \in Mask(s, n, j), Cell("time", FieldAt(s, n, j).time, 8))
    \o If("server time" \in Mask(s, n, j), Cell("server time", None, 8))
    \o If("picoseconds" \in Mask(s, n, j), Cell("picoseconds", None, 2))

\* Where the first scalar is.
First(s, n, j) ==
    (IF AsDataValue(s, n) THEN 2 ELSE 1) + (IF Shape(s, n, j)[1] = "array" THEN 1 ELSE 0)

\* A field, and how it is written.
LEMMA FieldTyped ==
    ASSUME NEW s, Given(s), NEW n, n \in 1..Count(s),
           NEW j, j \in 1..Len(s.message.messages[n].fields)
    PROVE  /\ FieldAt(s, n, j) \in FieldValue
           /\ Mask(s, n, j) \in SUBSET FlagNames
           /\ "value" \notin Mask(s, n, j) => /\ Shape(s, n, j) = <<"null", "NULL">>
                                              /\ AsDataValue(s, n)
           /\ "time" \in Mask(s, n, j) => FieldAt(s, n, j).time \in Nat
           /\ Shape(s, n, j) \in Variants
           /\ Scalar(s, n, j) \in Seq(Values \cup {Damaged}) /\ Len(Scalar(s, n, j)) \in Nat
           /\ Shape(s, n, j)[1] = "null" => Scalar(s, n, j) = <<>>
           /\ Shape(s, n, j)[1] \notin {"null", "array"} =>
                 /\ Len(Scalar(s, n, j)) = 1 /\ Scalar(s, n, j)[1] = FieldAt(s, n, j).value
           /\ Shape(s, n, j)[1] = "array" => Scalar(s, n, j) = FieldAt(s, n, j).value
<1> DEFINE f == FieldAt(s, n, j)
           D == AsDataValue(s, n)
           M == Mask(s, n, j)
           V == Shape(s, n, j)
           Z == Scalar(s, n, j)
<1>1. f \in FieldValue
  <2>1. s.message.messages[n].fields \in Seq(FieldValue)
    BY GivenTyped
  <2>2. QED
    BY <2>1 DEF FieldAt
<1>2. /\ f.type \in DOMAIN ScalarSize \cup {"NULL"} /\ f.time \in Nat \cup {None}
      /\ f.value \in Values \cup {None, Damaged} \cup Seq(Values \cup {Damaged})
  <2> HIDE DEF f
  <2>1. QED
    BY <1>1 DEF FieldValue
<1>3. M = IF ~D THEN {"value"}
          ELSE IF ~Own(s) THEN {"value", "status", "server time", "picoseconds"}
          ELSE Flag(f.type # "NULL" /\ f.value # None, "value") \cup Flag(f.status # "good", "status")
               \cup Flag(f.time # None, "time")
  BY DEF Mask
<1>4. V = IF ~Own(s) THEN <<IF "matrix" \in s.options THEN "matrix" ELSE "scalar", "BYTE">>
          ELSE IF IsNull(f) THEN <<"null", "NULL">>
          ELSE <<IF IsArray(f.value) THEN "array" ELSE "scalar", f.type>>
  BY DEF Shape
<1>5. Z = IF Own(s) /\ IsNull(f) THEN <<>>
          ELSE IF Own(s) /\ IsArray(f.value) THEN f.value ELSE <<f.value>>
  BY DEF Scalar
<1>6. ~Own(s) => D /\ f.value \in Values
  <2>1. ASSUME ~Own(s) PROVE D /\ n = 1 /\ j = 1 /\ s.message.messages[1].fields[1].value \in Values
    <3>1. Count(s) = 1 /\ Len(s.message.messages[1].fields) = 1
      BY <2>1 DEF Given, Own, Expressible, Count
    <3>2. n = 1
      BY <3>1
    <3>0. Len(s.message.messages[n].fields) = 1
      BY <3>1, <3>2
    <3>3. j = 1
      BY <3>0
    <3>4. D
      BY <2>1 DEF AsDataValue
    <3>5. QED
      BY <2>1, <3>2, <3>3, <3>4 DEF Given, Own, Expressible
  <2>2. QED
    BY <2>1 DEF FieldAt
<1> HIDE DEF f, M, V, Z, D
<1>7. M \in SUBSET FlagNames
  BY <1>3 DEF Flag, FlagNames
<1>8. IsNull(f) <=> ~(f.type # "NULL" /\ f.value # None)
  BY DEF IsNull
<1>9. "value" \notin M => Own(s) /\ IsNull(f) /\ D
  BY <1>3, <1>8 DEF Flag
<1>10. "value" \notin M => V = <<"null", "NULL">>
  BY <1>4, <1>9
<1>11. "time" \in M => f.time \in Nat
  BY <1>2, <1>3 DEF Flag
<1>12. V \in Variants /\ (V[1] = "null" => Own(s) /\ IsNull(f))
       /\ (V[1] = "array" => Own(s) /\ ~IsNull(f) /\ IsArray(f.value))
       /\ (V[1] \notin {"null", "array"} => ~(Own(s) /\ IsNull(f)) /\ ~(Own(s) /\ IsArray(f.value)))
  <2>1. CASE ~Own(s)
    BY <1>4, <2>1 DEF Variants, ScalarSize
  <2>2. CASE Own(s) /\ IsNull(f)
    BY <1>4, <2>2 DEF Variants
  <2>3. CASE Own(s) /\ ~IsNull(f)
    <3>1. f.type \in DOMAIN ScalarSize
      BY <1>2, <1>8, <2>3
    <3>2. QED
      BY <1>4, <2>3, <3>1 DEF Variants
  <2>4. QED
    BY <2>1, <2>2, <2>3
<1>13. Z \in Seq(Values \cup {Damaged})
  <2>1. CASE Own(s) /\ IsNull(f)
    BY <1>5, <2>1
  <2>2. CASE Own(s) /\ ~IsNull(f) /\ IsArray(f.value)
    BY <1>2, <1>5, <2>2 DEF IsArray
  <2>3. CASE ~Own(s) \/ (~IsNull(f) /\ ~IsArray(f.value))
    <3>1. f.value \in Values \cup {Damaged}
      BY <1>2, <1>6, <1>8, <2>3 DEF IsArray
    <3>2. Z = <<f.value>>
      BY <1>5, <2>3
    <3>3. QED
      BY <3>1, <3>2
  <2>4. QED
    BY <2>1, <2>2, <2>3
<1>14. V[1] \notin {"null", "array"} => Z = <<f.value>>
  BY <1>5, <1>12
<1>15. V[1] = "null" => Z = <<>>
  BY <1>5, <1>12
<1>16. V[1] = "array" => Z = f.value
  BY <1>5, <1>12
<1>17. QED
  BY <1>1, <1>7, <1>9, <1>10, <1>11, <1>12, <1>13, <1>14, <1>15, <1>16 DEF f, M, V, Z, D

\* Cells that are scalars, each with its value.
Written(cells, values, length, width) ==
    /\ cells \in Seq(Cells) /\ Len(cells) = length
    /\ \A i \in 1..length : /\ cells[i].kind = "scalar" /\ cells[i].value = values[i]
                            /\ cells[i].width = width

\* What a field is written in.
LEMMA FieldPieces ==
    ASSUME NEW s, Given(s), NEW n, n \in 1..Count(s),
           NEW j, j \in 1..Len(s.message.messages[n].fields)
    PROVE  /\ Cell("DataValue", Mask(s, n, j), 1) \in Seq(Cells)
           /\ Cell("variant", Shape(s, n, j), 1) \in Seq(Cells)
           /\ Cell("array length", Len(Scalar(s, n, j)), 4) \in Seq(Cells)
           /\ Cell("status", FieldAt(s, n, j).status, 4) \in Seq(Cells)
           /\ "time" \in Mask(s, n, j) => Cell("time", FieldAt(s, n, j).time, 8) \in Seq(Cells)
           /\ Shape(s, n, j)[1] = "null" <=> Shape(s, n, j) = <<"null", "NULL">>
           /\ Written(Scalars(Shape(s, n, j)[2], Scalar(s, n, j)), Scalar(s, n, j),
                      Len(Scalar(s, n, j)), ScalarSize[Shape(s, n, j)[2]])
<1> DEFINE f == FieldAt(s, n, j)
           M == Mask(s, n, j)
           V == Shape(s, n, j)
           Z == Scalar(s, n, j)
           L == Len(Scalar(s, n, j))
           T == Shape(s, n, j)[2]
           dd == Cell("DataValue", M, 1)
           vv == Cell("variant", V, 1)
           aa == Cell("array length", L, 4)
           z == Scalars(T, Z)
           uu == Cell("status", f.status, 4)
           tt == Cell("time", f.time, 8)
<1>1. /\ f \in FieldValue /\ M \in SUBSET FlagNames /\ V \in Variants
      /\ Z \in Seq(Values \cup {Damaged}) /\ L \in Nat
      /\ "time" \in M => f.time \in Nat
      /\ V[1] = "null" => Z = <<>>
  BY FieldTyped
<1>3. V[1] = "null" <=> V = <<"null", "NULL">>
  <2> HIDE DEF V
  <2>1. QED
    BY <1>1 DEF Variants
<1>4. L = Len(Z) /\ T = V[2]
  OBVIOUS
<1>5. f.status \in {"good", "bad"}
  <2> HIDE DEF f
  <2>1. QED
    BY <1>1 DEF FieldValue
<1> HIDE DEF f, M, V, Z, L, T
<1>7. /\ z \in Seq(Cells) /\ Len(z) = L
      /\ \A i \in 1..L : /\ z[i].kind = "scalar" /\ z[i].value = Z[i]
                          /\ z[i].width = ScalarSize[T]
  <2>1. CASE V = <<"null", "NULL">>
    <3>1. Z = <<>>
      BY <1>1, <1>3, <2>1
    <3>2. L = 0
      BY <1>4, <3>1
    <3>3. z = <<>>
      BY <3>1 DEF Scalars
    <3>4. QED
      BY <3>2, <3>3
  <2>2. CASE V # <<"null", "NULL">>
    <3>1. T \in DOMAIN ScalarSize
      BY <1>1, <1>4, <2>2 DEF Variants
    <3>2. z \in Seq(Cells)
      BY <1>1, <3>1, ScalarCells
    <3>3. z = [i \in 1..L |-> [kind |-> "scalar", value |-> Z[i], width |-> ScalarSize[T]]]
      BY <1>1, <1>4 DEF Scalars
    <3> HIDE DEF z
    <3>4. Len(z) = L
      BY <1>1, <3>3
    <3>5. QED
      BY <3>2, <3>3, <3>4
  <2>3. QED
    BY <2>1, <2>2
<1>9. dd \in Seq(Cells) /\ vv \in Seq(Cells) /\ aa \in Seq(Cells) /\ uu \in Seq(Cells)
      /\ ("time" \in M => tt \in Seq(Cells))
  <2>1. "DataValue" \in FlagKinds /\ "array length" \in Numbers /\ "time" \in Numbers
    BY DEF FlagKinds, Numbers
  <2>2. 1 \in Nat /\ 4 \in Nat /\ 8 \in Nat
    OBVIOUS
  <2>3. dd \in Seq(Cells)
    BY <1>1, <2>1, <2>2, FlagsCell, Zenon
  <2>4. aa \in Seq(Cells)
    BY <1>1, <2>1, <2>2, NumberCell, Zenon
  <2>5. "time" \in M => tt \in Seq(Cells)
    BY <1>1, <2>1, <2>2, NumberCell, Zenon
  <2>6. uu \in Seq(Cells)
    BY <1>5, StatusCell, Zenon
  <2>7. vv \in Seq(Cells)
    <3>1. [kind : {"variant"}, value : Variants, width : Nat] \subseteq Cells
      BY DEF Cells
    <3>2. QED
      BY <1>1, <2>2, <3>1, KindOfCell
  <2>8. QED
    BY <2>3, <2>4, <2>5, <2>6, <2>7
<1> HIDE DEF z, dd, vv, aa, uu, tt
<1>8. Written(z, Z, L, ScalarSize[T])
  BY <1>7 DEF Written
<1>10. QED
  BY <1>3, <1>8, <1>9 DEF z, dd, vv, aa, uu, tt, f, M, V, Z, L, T

\* The cells of a field.
LEMMA FieldFits ==
    ASSUME NEW s, Given(s), NEW n, n \in 1..Count(s),
           NEW j, j \in 1..Len(s.message.messages[n].fields)
    PROVE  /\ Fits(FieldWant(AsDataValue(s, n), Mask(s, n, j), Shape(s, n, j), Len(Scalar(s, n, j))),
                   FieldPart(s, n, j))
           /\ AsDataValue(s, n) => Holds(FieldPart(s, n, j), 1, "DataValue", Mask(s, n, j))
           /\ "value" \in Mask(s, n, j) =>
                 Holds(FieldPart(s, n, j), IF AsDataValue(s, n) THEN 2 ELSE 1, "variant",
                       Shape(s, n, j))
           /\ "value" \in Mask(s, n, j) /\ Shape(s, n, j)[1] = "array" =>
                 Holds(FieldPart(s, n, j), IF AsDataValue(s, n) THEN 3 ELSE 2, "array length",
                       Len(Scalar(s, n, j)))
           /\ "value" \in Mask(s, n, j) =>
                 \A i \in 1..Len(Scalar(s, n, j)) :
                    Holds(FieldPart(s, n, j), First(s, n, j) + i, "scalar", Scalar(s, n, j)[i])
           /\ "status" \in Mask(s, n, j) =>
                 Carries(FieldPart(s, n, j), "status", FieldAt(s, n, j).status)
           /\ "status" \notin Mask(s, n, j) => Lacks(FieldPart(s, n, j), "status")
           /\ "time" \in Mask(s, n, j) => Carries(FieldPart(s, n, j), "time", FieldAt(s, n, j).time)
           /\ "time" \notin Mask(s, n, j) => Lacks(FieldPart(s, n, j), "time")
<1>a. Written(Scalars(Shape(s, n, j)[2], Scalar(s, n, j)), Scalar(s, n, j),
              Len(Scalar(s, n, j)), ScalarSize[Shape(s, n, j)[2]])
  BY FieldPieces
<1> DEFINE f == FieldAt(s, n, j)
           D == AsDataValue(s, n)
           M == Mask(s, n, j)
           V == Shape(s, n, j)
           Z == Scalar(s, n, j)
           L == Len(Scalar(s, n, j))
           A == Shape(s, n, j)[1] = "array"
           T == Shape(s, n, j)[2]
           dd == Cell("DataValue", M, 1)
           d == If(D, dd)
           vv == Cell("variant", V, 1)
           v == If("value" \in M, vv)
           aa == Cell("array length", L, 4)
           a == If(A, aa)
           z == Scalars(T, Z)
           uu == Cell("status", f.status, 4)
           u == If("status" \in M, uu)
           tt == Cell("time", f.time, 8)
           t == If("time" \in M, tt)
           o == If("server time" \in M, Cell("server time", None, 8))
           p == If("picoseconds" \in M, Cell("picoseconds", None, 2))
           S == [i \in 1..L |-> <<"scalar", ScalarSize[T]>>]
<1>1. /\ f \in FieldValue /\ M \in SUBSET FlagNames /\ V \in Variants
      /\ Z \in Seq(Values \cup {Damaged}) /\ L \in Nat
      /\ "value" \notin M => D /\ V = <<"null", "NULL">>
      /\ "time" \in M => f.time \in Nat /\ (V[1] = "null" => Z = <<>>)
      /\ V[1] = "null" => Z = <<>>
  BY FieldTyped
<1>2. FieldPart(s, n, j) = d \o v \o a \o z \o u \o t \o o \o p
  BY DEF FieldPart
<1>4. L = Len(Z) /\ (A <=> V[1] = "array") /\ T = V[2]
  OBVIOUS
<1>6. First(s, n, j) = (IF D THEN 2 ELSE 1) + (IF A THEN 1 ELSE 0)
  BY DEF First
<1> HIDE DEF f, D, M, V, Z, L, A, T
<1>7. /\ z \in Seq(Cells) /\ Len(z) = L
      /\ \A i \in 1..L : /\ z[i].kind = "scalar" /\ z[i].value = Z[i]
                          /\ z[i].width = ScalarSize[T]
  BY <1>a DEF L, Z, T, Written
<1>8. /\ "status" # "DataValue" /\ "status" # "variant" /\ "status" # "array length"
      /\ "status" # "scalar" /\ "status" # "time" /\ "status" \notin Skips
      /\ "time" # "DataValue" /\ "time" # "variant" /\ "time" # "array length"
      /\ "time" # "scalar" /\ "time" # "status" /\ "time" \notin Skips
  BY DEF Skips
<1>9. dd \in Seq(Cells) /\ vv \in Seq(Cells) /\ aa \in Seq(Cells) /\ uu \in Seq(Cells)
      /\ ("time" \in M => tt \in Seq(Cells))
  BY FieldPieces DEF f, M, V, Z, L
<1>0. \A kind, value, width : Len(Cell(kind, value, width)) = 1
  BY OneCell
<1>10. Len(dd) = 1 /\ Len(vv) = 1 /\ Len(aa) = 1
  BY <1>0, Zenon
<1>11. /\ Fits(If(D, <<<<"DataValue", 1>>>>), d) /\ Holds(dd, 1, "DataValue", M)
       /\ Lacks(d, "status") /\ Lacks(d, "time")
  <2>1. Fits(If(D, <<<<"DataValue", 1>>>>), d)
    BY <1>9, PieceFits, Zenon
  <2>2. Holds(dd, 1, "DataValue", M)
    BY <1>9, HoldsCell, Zenon
  <2>3. Lacks(dd, "status") /\ Lacks(dd, "time")
    BY <1>8, <1>9, LacksCell, Zenon
  <2>4. Lacks(d, "status")
    BY <2>3, LacksIf, Zenon
  <2>5. Lacks(d, "time")
    BY <2>3, LacksIf, Zenon
  <2>6. QED
    BY <2>1, <2>2, <2>4, <2>5
<1>12. /\ Fits(If("value" \in M, <<<<"variant", 1>>>>), v) /\ Holds(vv, 1, "variant", V)
       /\ Lacks(v, "status") /\ Lacks(v, "time")
  <2>1. Fits(If("value" \in M, <<<<"variant", 1>>>>), v)
    BY <1>9, PieceFits, Zenon
  <2>2. Holds(vv, 1, "variant", V)
    BY <1>9, HoldsCell, Zenon
  <2>3. Lacks(vv, "status") /\ Lacks(vv, "time")
    BY <1>8, <1>9, LacksCell, Zenon
  <2>4. Lacks(v, "status")
    BY <2>3, LacksIf, Zenon
  <2>5. Lacks(v, "time")
    BY <2>3, LacksIf, Zenon
  <2>6. QED
    BY <2>1, <2>2, <2>4, <2>5
<1>13. /\ Fits(If(A, <<<<"array length", 4>>>>), a) /\ Holds(aa, 1, "array length", L)
       /\ Lacks(a, "status") /\ Lacks(a, "time")
  <2>1. Fits(If(A, <<<<"array length", 4>>>>), a)
    BY <1>9, PieceFits, Zenon
  <2>2. Holds(aa, 1, "array length", L)
    BY <1>9, HoldsCell, Zenon
  <2>3. Lacks(aa, "status") /\ Lacks(aa, "time")
    BY <1>8, <1>9, LacksCell, Zenon
  <2>4. Lacks(a, "status")
    BY <2>3, LacksIf, Zenon
  <2>5. Lacks(a, "time")
    BY <2>3, LacksIf, Zenon
  <2>6. QED
    BY <2>1, <2>2, <2>4, <2>5
<1>14. Fits(S, z) /\ Lacks(z, "status") /\ Lacks(z, "time")
  <2> HIDE DEF z
  <2>1. Repeats(z, "scalar", ScalarSize[T])
    BY <1>7 DEF Repeats
  <2>2. Fits([i \in 1..Len(z) |-> <<"scalar", ScalarSize[T]>>], z)
    BY <2>1, FitsRepeated, Zenon
  <2>3. Fits(S, z)
    BY <1>7, <2>2
  <2>4. Lacks(z, "status") /\ Lacks(z, "time")
    BY <1>7, <1>8 DEF Lacks
  <2>5. QED
    BY <2>3, <2>4
<1>15. /\ Fits(If("status" \in M, <<<<"status", 4>>>>), u)
       /\ "status" \in M => Carries(u, "status", f.status)
       /\ "status" \notin M => Lacks(u, "status")
       /\ Lacks(u, "time")
  <2>1. Fits(If("status" \in M, <<<<"status", 4>>>>), u)
    BY <1>9, PieceFits, Zenon
  <2>2. "status" \in M => Carries(u, "status", f.status)
    BY <1>9, PieceCarries, Zenon
  <2>3. "status" \notin M => Lacks(u, "status")
    BY PieceLacks, Zenon
  <2>4. Lacks(uu, "time")
    BY <1>8, <1>9, LacksCell, Zenon
  <2>5. Lacks(u, "time")
    BY <2>4, LacksIf, Zenon
  <2>6. QED
    BY <2>1, <2>2, <2>3, <2>5
<1>16. /\ Fits(If("time" \in M, <<<<"time", 8>>>>), t)
       /\ "time" \in M => Carries(t, "time", f.time)
       /\ "time" \notin M => Lacks(t, "time")
       /\ Lacks(t, "status")
  <2>1. Fits(If("time" \in M, <<<<"time", 8>>>>), t)
    BY <1>9, PieceFits, Zenon
  <2>2. "time" \in M => Carries(t, "time", f.time)
    BY <1>9, PieceCarries, Zenon
  <2>3. "time" \notin M => Lacks(t, "time")
    BY PieceLacks, Zenon
  <2>4. "time" \in M => Lacks(tt, "status")
    BY <1>8, <1>9, LacksCell, Zenon
  <2>5. Lacks(t, "status")
    BY <2>4, LacksIf, ZenonT(30)
  <2>6. QED
    BY <2>1, <2>2, <2>3, <2>5
<1>17. /\ "server time" \in Skips /\ "picoseconds" \in Skips /\ 2 \in Nat /\ 8 \in Nat
  BY DEF Skips
<1>18. /\ Fits(If("server time" \in M, <<<<"server time", 8>>>>), o)
       /\ Lacks(o, "status") /\ Lacks(o, "time") /\ o \in Seq(Cells)
  BY <1>8, <1>17, SkippedPiece, Zenon
<1>19. /\ Fits(If("picoseconds" \in M, <<<<"picoseconds", 2>>>>), p)
       /\ Lacks(p, "status") /\ Lacks(p, "time") /\ p \in Seq(Cells)
  BY <1>8, <1>17, SkippedPiece, Zenon
<1>20. /\ d \in Seq(Cells) /\ v \in Seq(Cells) /\ a \in Seq(Cells) /\ u \in Seq(Cells)
       /\ t \in Seq(Cells)
  BY <1>11, <1>12, <1>13, <1>15, <1>16, Zenon DEF Lacks
<1>21. z \in Seq(Cells) /\ Len(z) = L /\ \A i \in 1..L : Holds(z, i, "scalar", Z[i])
  <2> HIDE DEF z
  <2>1. QED
    BY <1>7 DEF Holds
<1>22. /\ D => d = dd
       /\ ~D => d = <<>>
       /\ "value" \in M => v = vv
       /\ A => a = aa
       /\ ~A => a = <<>>
  BY Zenon DEF If
<1> DEFINE all == d \o v \o a \o z \o u \o t \o o \o p
<1> HIDE DEF dd, d, vv, v, aa, a, z, uu, u, tt, t, o, p
<1>23. Fits(If(D, <<<<"DataValue", 1>>>>) \o If("value" \in M, <<<<"variant", 1>>>>)
            \o If(A, <<<<"array length", 4>>>>) \o S \o If("status" \in M, <<<<"status", 4>>>>)
            \o If("time" \in M, <<<<"time", 8>>>>)
            \o If("server time" \in M, <<<<"server time", 8>>>>)
            \o If("picoseconds" \in M, <<<<"picoseconds", 2>>>>), all)
  <2> HIDE DEF S
  <2>1. QED
    BY <1>11, <1>12, <1>13, <1>14, <1>15, <1>16, <1>18, <1>19, FitsJoin, Zenon
<1>24. Fits(FieldWant(D, M, V, L), all)
  BY <1>4, <1>23 DEF FieldWant
<1> HIDE DEF S
<1>25. D => Holds(all, 1, "DataValue", M)
  BY <1>11, <1>18, <1>19, <1>20, <1>21, <1>22, HoldsBefore, Zenon
<1>26. ASSUME "value" \in M
       PROVE  /\ Holds(all, IF D THEN 2 ELSE 1, "variant", V)
              /\ A => Holds(all, IF D THEN 3 ELSE 2, "array length", L)
              /\ \A i \in 1..L : Holds(all, First(s, n, j) + i, "scalar", Z[i])
  <2> DEFINE k == IF D THEN 1 ELSE 0
             h == IF A THEN 1 ELSE 0
  <2>1. k \in Nat /\ h \in Nat
    OBVIOUS
  <2>2. Len(d) = k
    BY <1>10, <1>22
  <2>3. Len(a) = h
    BY <1>10, <1>22
  <2>4. (k + 1) = (IF D THEN 2 ELSE 1) /\ (k + 1) + 1 = (IF D THEN 3 ELSE 2)
        /\ (k + 1) + h = First(s, n, j)
    BY <1>6
  <2> HIDE DEF k, h
  <2>5. d \o v \in Seq(Cells) /\ Len(d \o v) = k + 1
    <3>1. d \o v \in Seq(Cells) /\ Len(d \o v) = Len(d) + Len(v)
      BY <1>20, JoinedPlaces, Zenon
    <3>2. QED
      BY <1>10, <1>22, <1>26, <2>1, <2>2, <3>1
  <2>6. d \o v \o a \in Seq(Cells) /\ Len(d \o v \o a) = (k + 1) + h
    <3>1. d \o v \o a \in Seq(Cells) /\ Len(d \o v \o a) = Len(d \o v) + Len(a)
      BY <1>20, <2>5, JoinedPlaces, Zenon
    <3>2. QED
      BY <2>3, <2>5, <3>1
  <2>7. Holds(d \o v, k + 1, "variant", V)
    BY <1>12, <1>20, <1>22, <1>26, <2>2, HoldsAfter, Zenon
  <2>8. Holds(all, k + 1, "variant", V)
    BY <1>18, <1>19, <1>20, <1>21, <2>7, HoldsBefore, Zenon
  <2>9. A => Holds(d \o v \o a, (k + 1) + 1, "array length", L)
    BY <1>13, <1>20, <1>22, <2>5, HoldsAfter, Zenon
  <2>10. A => Holds(all, (k + 1) + 1, "array length", L)
    BY <1>18, <1>19, <1>20, <1>21, <2>9, HoldsBefore, Zenon
  <2>11. ASSUME NEW i \in 1..L
         PROVE  Holds(all, First(s, n, j) + i, "scalar", Z[i])
    <3>1. Holds(d \o v \o a \o z, ((k + 1) + h) + i, "scalar", Z[i])
      BY <1>21, <2>6, HoldsAfter, Zenon
    <3>2. Holds(all, ((k + 1) + h) + i, "scalar", Z[i])
      BY <1>18, <1>19, <1>20, <3>1, HoldsBefore, Zenon
    <3>3. QED
      BY <2>4, <3>2
  <2>12. QED
    BY <2>4, <2>8, <2>10, <2>11
<1>27. Lacks(d \o v \o a \o z, "status") /\ Lacks(d \o v \o a \o z, "time")
  BY <1>11, <1>12, <1>13, <1>14, LacksJoin, Zenon
<1>28. "status" \in M => Carries(all, "status", f.status)
  <2>1. "status" \in M => Carries(d \o v \o a \o z \o u, "status", f.status)
    BY <1>15, <1>27, CarriesAfter, Zenon
  <2>2. QED
    BY <2>1, <1>16, <1>18, <1>19, CarriesBefore, Zenon
<1>29. "status" \notin M => Lacks(all, "status")
  BY <1>15, <1>16, <1>18, <1>19, <1>27, LacksJoin, Zenon
<1>30. "time" \in M => Carries(all, "time", f.time)
  <2>1. Lacks(d \o v \o a \o z \o u, "time")
    BY <1>15, <1>27, LacksJoin, Zenon
  <2>2. "time" \in M => Carries(d \o v \o a \o z \o u \o t, "time", f.time)
    BY <1>16, <2>1, CarriesAfter, Zenon
  <2>3. QED
    BY <2>2, <1>18, <1>19, CarriesBefore, Zenon
<1>31. "time" \notin M => Lacks(all, "time")
  BY <1>15, <1>16, <1>18, <1>19, <1>27, LacksJoin, Zenon
<1> HIDE DEF all
<1>32. FieldPart(s, n, j) = all
  BY <1>2 DEF all, d, dd, v, vv, a, aa, z, u, uu, t, tt, o, p
<1>33. QED
  BY <1>24, <1>25, <1>26, <1>28, <1>29, <1>30, <1>31, <1>32, Zenon DEF f, D, M, V, Z, L, A, T

Fields(s, n) == IF Quiet(s, n) THEN 0 ELSE Len(s.message.messages[n].fields)

FieldParts(s, n) == [j \in 1..Fields(s, n) |-> FieldPart(s, n, j)]

\* The fields after the first j, and the messages after the first n.
FieldsFrom(s, n, j) == FlattenSeq(SubSeq(FieldParts(s, n), j + 1, Fields(s, n)))

DataSetPart(s, n) == MessagePart(s, n) \o FieldsFrom(s, n, 0)

DataSets(s) == [n \in 1..Count(s) |-> DataSetPart(s, n)]

MessagesFrom(s, n) == FlattenSeq(SubSeq(DataSets(s), n + 1, Count(s)))

\* What is still to come at each section.
FromSizes(s) == SizesPart(s) \o MessagesFrom(s, 0)
FromSecurity(s) == SecurityPart(s) \o FromSizes(s)
FromTimes(s) == TimesPart(s) \o FromSecurity(s)
FromPayload(s) == PayloadPart(s) \o FromTimes(s)
FromGroup(s) == GroupPart(s) \o FromPayload(s)
FromId(s) == IdPart(s) \o FromGroup(s)
Body(s) == HeaderPart(s) \o FromId(s)

\* The fields from one on: it and the others.
LEMMA FieldsOneByOne ==
    ASSUME NEW s, Given(s), NEW n, n \in 1..Count(s)
    PROVE  /\ Fields(s, n) \in Nat
           /\ FieldParts(s, n) \in Seq(Seq(Cells)) /\ Len(FieldParts(s, n)) = Fields(s, n)
           /\ \A j \in 1..Fields(s, n) : /\ j \in 1..Len(s.message.messages[n].fields)
                                         /\ FieldPart(s, n, j) \in Seq(Cells)
           /\ \A j \in 0..Fields(s, n) : FieldsFrom(s, n, j) \in Seq(Cells)
           /\ \A j \in 0..Fields(s, n) - 1 :
                 FieldsFrom(s, n, j) = FieldPart(s, n, j + 1) \o FieldsFrom(s, n, j + 1)
           /\ FieldsFrom(s, n, 0) = FlattenSeq(FieldParts(s, n))
           /\ FieldsFrom(s, n, Fields(s, n)) = <<>>
<1> DEFINE k == Fields(s, n)
           p(j) == FieldPart(s, n, j)
           q == FieldParts(s, n)
<1>1. k \in Nat /\ \A j \in 1..k : j \in 1..Len(s.message.messages[n].fields)
  <2>1. Len(s.message.messages[n].fields) \in Nat
    BY MessageFlags
  <2>2. k = 0 \/ k = Len(s.message.messages[n].fields)
    BY DEF Fields
  <2> HIDE DEF k
  <2>3. QED
    BY <2>1, <2>2
<1>2. \A j \in 1..k : p(j) \in Seq(Cells)
  <2> SUFFICES ASSUME NEW j \in 1..k PROVE p(j) \in Seq(Cells)
    OBVIOUS
  <2>1. Fits(FieldWant(AsDataValue(s, n), Mask(s, n, j), Shape(s, n, j), Len(Scalar(s, n, j))), p(j))
    BY <1>1, FieldFits, Zenon
  <2>2. QED
    BY <2>1, Zenon DEF Fits
<1>3. q = [j \in 1..k |-> p(j)]
  BY DEF FieldParts
<1> HIDE DEF k, p, q
<1>4. q \in [1..k -> Seq(Cells)]
  BY <1>2, <1>3, Zenon
<1>5. q \in Seq(Seq(Cells)) /\ Len(q) = k
  <2> DEFINE S == Seq(Cells)
  <2>1. q \in [1..k -> S]
    BY <1>4
  <2> HIDE DEF S
  <2>2. q \in Seq(S) /\ Len(q) = k
    BY <1>1, <2>1
  <2>3. QED
    BY <2>2 DEF S
<1> DEFINE R(j) == FlattenSeq(SubSeq(q, j, Len(q)))
<1>6. /\ \A j \in 1..k + 1 : R(j) \in Seq(Cells)
      /\ \A j \in 1..k : R(j) = q[j] \o R(j + 1)
      /\ R(1) = FlattenSeq(q) /\ R(k + 1) = <<>>
  BY <1>5, FlattenFrom
<1>7. \A j : FieldsFrom(s, n, j) = R(j + 1)
  BY <1>5 DEF FieldsFrom, k, q
<1> HIDE DEF R
<1>8. \A j \in 0..k : R(j + 1) \in Seq(Cells)
  <2>1. \A j \in 0..k : j + 1 \in 1..k + 1
    BY <1>1
  <2>2. QED
    BY <1>6, <2>1
<1>9. \A j \in 0..k - 1 : R(j + 1) = p(j + 1) \o R(j + 1 + 1)
  <2>1. \A j \in 0..k - 1 : j + 1 \in 1..k
    BY <1>1
  <2>2. \A j \in 1..k : q[j] = p(j)
    BY <1>3
  <2>3. \A j \in 1..k : R(j) = p(j) \o R(j + 1)
    BY <1>6, <2>2
  <2>4. QED
    BY <2>1, <2>3
<1>10. R(0 + 1) = FlattenSeq(q) /\ 0 + 1 = 1
  BY <1>6
<1>11. QED
  BY <1>1, <1>2, <1>5, <1>6, <1>7, <1>8, <1>9, <1>10 DEF k, p, q

\* The messages from one on: it and the others.
LEMMA MessagesOneByOne ==
    ASSUME NEW s, Given(s)
    PROVE  /\ \A n \in 1..Count(s) : /\ MessagePart(s, n) \in Seq(Cells)
                                     /\ DataSetPart(s, n) \in Seq(Cells)
           /\ DataSets(s) \in Seq(Seq(Cells)) /\ Len(DataSets(s)) = Count(s)
           /\ \A n \in 0..Count(s) : MessagesFrom(s, n) \in Seq(Cells)
           /\ \A n \in 0..Count(s) - 1 :
                 MessagesFrom(s, n) = DataSetPart(s, n + 1) \o MessagesFrom(s, n + 1)
           /\ MessagesFrom(s, 0) = FlattenSeq(DataSets(s))
           /\ MessagesFrom(s, Count(s)) = <<>>
<1> DEFINE k == Count(s)
           p(n) == DataSetPart(s, n)
           q == DataSets(s)
<1>1. k \in Nat
  BY GivenTyped
<1>0. \A n \in 1..k : MessagePart(s, n) \in Seq(Cells)
  <2> SUFFICES ASSUME NEW n \in 1..k PROVE MessagePart(s, n) \in Seq(Cells)
    OBVIOUS
  <2>1. Fits(MessageWant(Flags1(s, n), Flags2(s, n)), MessagePart(s, n))
    BY MessageFits, Zenon
  <2>2. QED
    BY <2>1, Zenon DEF Fits
<1>2. \A n \in 1..k : p(n) \in Seq(Cells)
  <2> SUFFICES ASSUME NEW n \in 1..k PROVE p(n) \in Seq(Cells)
    OBVIOUS
  <2>1. Fields(s, n) \in Nat /\ \A j \in 0..Fields(s, n) : FieldsFrom(s, n, j) \in Seq(Cells)
    BY FieldsOneByOne
  <2>2. FieldsFrom(s, n, 0) \in Seq(Cells)
    BY <2>1
  <2>3. QED
    BY <1>0, <2>2, Joined, Zenon DEF DataSetPart
<1>3. q = [n \in 1..k |-> p(n)]
  BY DEF DataSets
<1> HIDE DEF k, p, q
<1>4. q \in [1..k -> Seq(Cells)]
  BY <1>2, <1>3, Zenon
<1>5. q \in Seq(Seq(Cells)) /\ Len(q) = k
  <2> DEFINE S == Seq(Cells)
  <2>1. q \in [1..k -> S]
    BY <1>4
  <2> HIDE DEF S
  <2>2. q \in Seq(S) /\ Len(q) = k
    BY <1>1, <2>1
  <2>3. QED
    BY <2>2 DEF S
<1> DEFINE R(n) == FlattenSeq(SubSeq(q, n, Len(q)))
<1>6. /\ \A n \in 1..k + 1 : R(n) \in Seq(Cells)
      /\ \A n \in 1..k : R(n) = q[n] \o R(n + 1)
      /\ R(1) = FlattenSeq(q) /\ R(k + 1) = <<>>
  BY <1>5, FlattenFrom
<1>7. \A n : MessagesFrom(s, n) = R(n + 1)
  BY <1>5 DEF MessagesFrom, k, q
<1> HIDE DEF R
<1>8. \A n \in 0..k : R(n + 1) \in Seq(Cells)
  <2>1. \A n \in 0..k : n + 1 \in 1..k + 1
    BY <1>1
  <2>2. QED
    BY <1>6, <2>1
<1>9. \A n \in 0..k - 1 : R(n + 1) = p(n + 1) \o R(n + 1 + 1)
  <2>1. \A n \in 0..k - 1 : n + 1 \in 1..k
    BY <1>1
  <2>2. \A n \in 1..k : q[n] = p(n)
    BY <1>3
  <2>3. \A n \in 1..k : R(n) = p(n) \o R(n + 1)
    BY <1>6, <2>2
  <2>4. QED
    BY <2>1, <2>3
<1>10. R(0 + 1) = FlattenSeq(q) /\ 0 + 1 = 1
  BY <1>6
<1>11. QED
  BY <1>0, <1>2, <1>5, <1>6, <1>7, <1>8, <1>9, <1>10 DEF k, p, q

\* All that is to come are cells.
LEMMA PartsAreCells ==
    ASSUME NEW s, Given(s)
    PROVE  /\ HeaderPart(s) \in Seq(Cells) /\ IdPart(s) \in Seq(Cells) /\ GroupPart(s) \in Seq(Cells)
           /\ PayloadPart(s) \in Seq(Cells) /\ TimesPart(s) \in Seq(Cells)
           /\ SecurityPart(s) \in Seq(Cells) /\ SizesPart(s) \in Seq(Cells)
           /\ MessagesFrom(s, 0) \in Seq(Cells) /\ FromSizes(s) \in Seq(Cells)
           /\ FromSecurity(s) \in Seq(Cells) /\ FromTimes(s) \in Seq(Cells)
           /\ FromPayload(s) \in Seq(Cells) /\ FromGroup(s) \in Seq(Cells)
           /\ FromId(s) \in Seq(Cells) /\ Body(s) \in Seq(Cells)
<1>1. HeaderPart(s) \in Seq(Cells)
  BY HeaderFits, Zenon DEF Fits
<1>2. IdPart(s) \in Seq(Cells)
  BY IdFits, Zenon DEF Fits
<1>3. GroupPart(s) \in Seq(Cells)
  BY GroupFits, Zenon DEF Fits
<1>4. PayloadPart(s) \in Seq(Cells)
  BY PayloadFits, Zenon DEF Fits
<1>5. TimesPart(s) \in Seq(Cells)
  BY TimesFits, Zenon DEF Fits
<1>6. SecurityPart(s) \in Seq(Cells)
  BY SecurityFits, Zenon DEF Fits
<1>7. SizesPart(s) \in Seq(Cells)
  BY SizesFits, Zenon DEF Fits
<1>8. MessagesFrom(s, 0) \in Seq(Cells)
  <2>1. 0 \in 0..Count(s)
    BY GivenTyped
  <2>2. QED
    BY <2>1, MessagesOneByOne
<1>9. FromSizes(s) \in Seq(Cells)
  BY <1>7, <1>8, Joined, Zenon DEF FromSizes
<1>10. FromSecurity(s) \in Seq(Cells)
  BY <1>6, <1>9, Joined, Zenon DEF FromSecurity
<1>11. FromTimes(s) \in Seq(Cells)
  BY <1>5, <1>10, Joined, Zenon DEF FromTimes
<1>12. FromPayload(s) \in Seq(Cells)
  BY <1>4, <1>11, Joined, Zenon DEF FromPayload
<1>13. FromGroup(s) \in Seq(Cells)
  BY <1>3, <1>12, Joined, Zenon DEF FromGroup
<1>14. FromId(s) \in Seq(Cells)
  BY <1>2, <1>13, Joined, Zenon DEF FromId
<1>15. Body(s) \in Seq(Cells)
  BY <1>1, <1>14, Joined, Zenon DEF Body
<1>16. QED
  BY <1>1, <1>2, <1>3, <1>4, <1>5, <1>6, <1>7, <1>8, <1>9, <1>10, <1>11, <1>12, <1>13, <1>14, <1>15

-----------------------------------------------------------------------------
(* Both makes of frames have this layout. *)

\* Nothing joined to cells leaves them as they are.
LEMMA JoinNothing ==
    ASSUME NEW x \in Seq(Cells)
    PROVE  x \o <<>> = x /\ <<>> \o x = x
OBVIOUS

\* It is the same which of three are joined first.
Regroups(x, a, b) == (x \o a) \o b = x \o (a \o b)

\* Cells may be joined in either order.
LEMMA JoinTwo ==
    ASSUME NEW x, x \in Seq(Cells), NEW a, a \in Seq(Cells), NEW b, b \in Seq(Cells)
    PROVE  Regroups(x, a, b) /\ x \o a \in Seq(Cells) /\ a \o b \in Seq(Cells)
<1>1. Regroups(x, a, b)
  BY Rejoined, SMTT(30) DEF Regroups
<1>2. x \o a \in Seq(Cells) /\ a \o b \in Seq(Cells)
  BY Joined, ZenonT(30)
<1>3. QED
  BY <1>1, <1>2

\* The body of a frame, part by part.
LEMMA BodyParts ==
    ASSUME NEW s, Given(s)
    PROVE  Body(s) = HeaderPart(s) \o IdPart(s) \o GroupPart(s) \o PayloadPart(s) \o TimesPart(s)
                     \o SecurityPart(s) \o SizesPart(s) \o MessagesFrom(s, 0)
<1> DEFINE a == HeaderPart(s)
           b == IdPart(s)
           c == GroupPart(s)
           d == PayloadPart(s)
           e == TimesPart(s)
           f == SecurityPart(s)
           g == SizesPart(s)
           h == MessagesFrom(s, 0)
<1>1. /\ a \in Seq(Cells) /\ b \in Seq(Cells) /\ c \in Seq(Cells) /\ d \in Seq(Cells)
      /\ e \in Seq(Cells) /\ f \in Seq(Cells) /\ g \in Seq(Cells) /\ h \in Seq(Cells)
  BY PartsAreCells
<1>2. Body(s) = a \o (b \o (c \o (d \o (e \o (f \o (g \o h))))))
  BY DEF Body, FromId, FromGroup, FromPayload, FromTimes, FromSecurity, FromSizes
<1> HIDE DEF a, b, c, d, e, f, g, h
<1> DEFINE t7 == g \o h
           t6 == f \o t7
           t5 == e \o t6
           t4 == d \o t5
           t3 == c \o t4
           p2 == a \o b
           p3 == p2 \o c
           p4 == p3 \o d
           p5 == p4 \o e
           p6 == p5 \o f
<1>3. t7 \in Seq(Cells)
  BY <1>1, Joined, Zenon
<1>4. t6 \in Seq(Cells)
  BY <1>1, <1>3, Joined, Zenon
<1>5. t5 \in Seq(Cells)
  BY <1>1, <1>4, Joined, Zenon
<1>6. t4 \in Seq(Cells)
  BY <1>1, <1>5, Joined, Zenon
<1>7. t3 \in Seq(Cells)
  BY <1>1, <1>6, Joined, Zenon
<1>8. p2 \in Seq(Cells)
  BY <1>1, <1>7, Joined, Zenon
<1>9. p3 \in Seq(Cells)
  BY <1>1, <1>8, Joined, Zenon
<1>10. p4 \in Seq(Cells)
  BY <1>1, <1>9, Joined, Zenon
<1>11. p5 \in Seq(Cells)
  BY <1>1, <1>10, Joined, Zenon
<1>12. p6 \in Seq(Cells)
  BY <1>1, <1>11, Joined, Zenon
<1>13. Body(s) = a \o (b \o t3)
  BY <1>2
<1> HIDE DEF t3, t4, t5, t6, t7, p2, p3, p4, p5, p6
<1>14. Regroups(a, b, t3)
  BY <1>1, <1>3, <1>4, <1>5, <1>6, <1>7, <1>8, <1>9, <1>10, <1>11, <1>12, JoinTwo, Zenon
<1>15. Regroups(p2, c, t4)
  BY <1>1, <1>3, <1>4, <1>5, <1>6, <1>7, <1>8, <1>9, <1>10, <1>11, <1>12, JoinTwo, Zenon
<1>16. Regroups(p3, d, t5)
  BY <1>1, <1>3, <1>4, <1>5, <1>6, <1>7, <1>8, <1>9, <1>10, <1>11, <1>12, JoinTwo, Zenon
<1>17. Regroups(p4, e, t6)
  BY <1>1, <1>3, <1>4, <1>5, <1>6, <1>7, <1>8, <1>9, <1>10, <1>11, <1>12, JoinTwo, Zenon
<1>18. Regroups(p5, f, t7)
  BY <1>1, <1>3, <1>4, <1>5, <1>6, <1>7, <1>8, <1>9, <1>10, <1>11, <1>12, JoinTwo, Zenon
<1>19. Regroups(p6, g, h)
  BY <1>1, <1>3, <1>4, <1>5, <1>6, <1>7, <1>8, <1>9, <1>10, <1>11, <1>12, JoinTwo, Zenon
<1>20. Body(s) = p6 \o g \o h
  <2>1. a \o (b \o t3) = p2 \o t3
    BY <1>14, Zenon DEF Regroups, p2
  <2>2. p2 \o t3 = p3 \o t4
    BY <1>15, Zenon DEF Regroups, p3, t3
  <2>3. p3 \o t4 = p4 \o t5
    BY <1>16, Zenon DEF Regroups, p4, t4
  <2>4. p4 \o t5 = p5 \o t6
    BY <1>17, Zenon DEF Regroups, p5, t5
  <2>5. p5 \o t6 = p6 \o t7
    BY <1>18, Zenon DEF Regroups, p6, t6
  <2>6. p6 \o t7 = p6 \o g \o h
    BY <1>19, Zenon DEF Regroups, t7
  <2>7. QED
    BY <1>13, <2>1, <2>2, <2>3, <2>4, <2>5, <2>6
<1>21. QED
  BY <1>20 DEF p6, p5, p4, p3, p2, a, b, c, d, e, f, g, h

\* What is announced in a frame of either make.
LEMMA OwnAnnounces ==
    ASSUME NEW s, Given(s), Own(s)
    PROVE  /\ "publisher id" \in On(s) /\ "payload header" \in On(s)
           /\ "group header" \in On(s) <=> (s.message.group # None \/ s.message.sequence # None)
           /\ "extended" \in Flags(s) <=> Extended(s)
           /\ "security" \in On(s) <=> s.key # None
           /\ On(s) \cap {"class id", "frame time", "frame picoseconds", "promoted", "ext2"} = {}
           /\ "ext2" \notin Ext1(s)
<1> DEFINE p == s.message.pid_type
           g == s.message.group # None \/ s.message.sequence # None
           x == Extended(s)
           k == s.key # None
<1>1. p \in DOMAIN PidSize
  BY GivenTyped
<1>2. Flags(s) = {"publisher id", "payload header"} \cup Flag(x, "extended") \cup Flag(g, "group header")
  BY DEF Flags
<1>3. Ext1(s) = IF x THEN {p} \cup Flag(k, "security") ELSE {}
  BY DEF Ext1
<1>4. Ext2(s) = {} /\ (k => x)
  BY DEF Ext2, Extended
<1> HIDE DEF p, g, x, k
<1>5. p \in {"BYTE", "UINT16", "UINT32", "UINT64"}
  BY <1>1 DEF PidSize
<1>6. On(s) = Flags(s) \cup Ext1(s)
  BY <1>4 DEF On
<1>7. Ext1(s) \subseteq {"BYTE", "UINT16", "UINT32", "UINT64", "security"}
  BY <1>3, <1>5 DEF Flag
<1>8. Flags(s) \subseteq {"publisher id", "payload header", "extended", "group header"}
  BY <1>2 DEF Flag
<1>9. "publisher id" \in Flags(s) /\ "payload header" \in Flags(s)
  BY <1>2
<1>10. ("group header" \in Flags(s) <=> g) /\ ("extended" \in Flags(s) <=> x)
  BY <1>2 DEF Flag
<1>11. "security" \in Ext1(s) <=> k
  BY <1>3, <1>4, <1>5 DEF Flag
<1>12. On(s) \cap {"class id", "frame time", "frame picoseconds", "promoted", "ext2"} = {}
  BY <1>6, <1>7, <1>8
<1>13. "group header" \notin Ext1(s) /\ "security" \notin Flags(s) /\ "ext2" \notin Ext1(s)
  BY <1>7, <1>8
<1>14. QED
  BY <1>6, <1>9, <1>10, <1>11, <1>12, <1>13 DEF g, x, k

\* What the flags of another maker announce is what its options name.
LEMMA ForeignAnnounces ==
    ASSUME NEW s, Given(s), ~Own(s)
    PROVE  /\ \A x \in {"publisher id", "payload header", "class id", "frame time",
                        "frame picoseconds", "promoted"} : x \in On(s) <=> x \in s.options
           /\ "group header" \in On(s) /\ "extended" \in Flags(s)
           /\ "security" \in On(s) <=> s.key # None
           /\ "ext2" \in Ext1(s) <=> "ext2" \in s.options
<1> DEFINE p == s.message.pid_type
           k == s.key # None
           X == s.options
<1>1. p \in DOMAIN PidSize
  BY GivenTyped
<1>2. Flags(s) = {"extended", "group header"} \cup (X \cap {"publisher id", "payload header"})
  BY DEF Flags
<1>3. Ext1(s) = {p} \cup (X \cap {"class id", "frame time", "frame picoseconds", "ext2"})
                \cup Flag(k, "security")
  BY DEF Ext1
<1>4. Ext2(s) = X \cap {"chunk", "promoted", "discovery"}
  BY DEF Ext2
<1> HIDE DEF p, k, X
<1>5. p \in {"BYTE", "UINT16", "UINT32", "UINT64"}
  BY <1>1 DEF PidSize
<1>6. QED
  BY <1>2, <1>3, <1>4, <1>5 DEF On, Flag, p, k, X

\* What hypernova writes of a field.
LEMMA OwnVariant ==
    ASSUME NEW s, Given(s), Own(s), NEW n, n \in 1..Count(s),
           NEW j, j \in 1..Len(s.message.messages[n].fields)
    PROVE  /\ Cell("variant", Shape(s, n, j), 1)
              \o If(Shape(s, n, j)[1] = "array", Cell("array length", Len(Scalar(s, n, j)), 4))
              \o Scalars(Shape(s, n, j)[2], Scalar(s, n, j)) = Variant(FieldAt(s, n, j))
           /\ IsNull(FieldAt(s, n, j)) =>
                 /\ If(Shape(s, n, j)[1] = "array", Cell("array length", Len(Scalar(s, n, j)), 4)) = <<>>
                 /\ Scalars(Shape(s, n, j)[2], Scalar(s, n, j)) = <<>>
<1> DEFINE f == FieldAt(s, n, j)
           V == Shape(s, n, j)
           Z == Scalar(s, n, j)
           v == Cell("variant", V, 1)
           a == If(V[1] = "array", Cell("array length", Len(Z), 4))
           z == Scalars(V[2], Z)
<1>1. v \in Seq(Cells) /\ Cell("array length", Len(Z), 4) \in Seq(Cells)
  BY FieldPieces
<1>2. V = IF IsNull(f) THEN <<"null", "NULL">>
          ELSE <<IF IsArray(f.value) THEN "array" ELSE "scalar", f.type>>
  BY DEF Shape
<1>3. Z = IF IsNull(f) THEN <<>> ELSE IF IsArray(f.value) THEN f.value ELSE <<f.value>>
  BY DEF Scalar
<1>4. Variant(f) = IF IsNull(f) THEN Cell("variant", <<"null", "NULL">>, 1)
                   ELSE IF IsArray(f.value)
                   THEN Cell("variant", <<"array", f.type>>, 1)
                        \o Cell("array length", Len(f.value), 4) \o Scalars(f.type, f.value)
                   ELSE Cell("variant", <<"scalar", f.type>>, 1) \o Scalars(f.type, <<f.value>>)
  BY DEF Variant, IsNull
<1> HIDE DEF f, V, Z
<1>5. CASE IsNull(f)
  <2>1. V = <<"null", "NULL">> /\ Z = <<>> /\ Variant(f) = Cell("variant", V, 1)
    BY <1>2, <1>3, <1>4, <1>5
  <2>2. V[1] # "array" /\ z = <<>>
    BY <2>1 DEF Scalars
  <2>3. a = <<>>
    BY <2>2 DEF If
  <2> HIDE DEF v, a, z
  <2>4. v \o a \o z = v
    BY <1>1, <2>2, <2>3, JoinNothing, Zenon
  <2>5. QED
    BY <2>1, <2>2, <2>3, <2>4 DEF v, a, z, f, V, Z
<1>6. CASE ~IsNull(f) /\ IsArray(f.value)
  <2>1. V = <<"array", f.type>> /\ Z = f.value
    BY <1>2, <1>3, <1>6
  <2>2. V[1] = "array" /\ V[2] = f.type
    BY <2>1
  <2>3. a = Cell("array length", Len(Z), 4)
    BY <2>2 DEF If
  <2>4. v \o a \o z = Variant(f)
    BY <1>4, <1>6, <2>1, <2>2, <2>3
  <2>5. QED
    BY <1>6, <2>4 DEF v, a, z, f, V, Z
<1>7. CASE ~IsNull(f) /\ ~IsArray(f.value)
  <2>1. V = <<"scalar", f.type>> /\ Z = <<f.value>>
    BY <1>2, <1>3, <1>7
  <2>2. V[1] # "array" /\ V[2] = f.type
    BY <2>1
  <2>3. a = <<>>
    BY <2>2 DEF If
  <2>4. v \o a = v
    BY <1>1, <2>3, JoinNothing, Zenon
  <2>5. v \o a \o z = Variant(f)
    BY <1>4, <1>7, <2>1, <2>2, <2>4
  <2>6. QED
    BY <1>7, <2>5 DEF v, a, z, f, V, Z
<1>8. QED
  BY <1>5, <1>6, <1>7

\* A field of a frame of the encoder is a DataValue or a Variant, as its message is.
LEMMA OwnField ==
    ASSUME NEW s, Given(s), Own(s), NEW n, n \in 1..Count(s),
           NEW j, j \in 1..Len(s.message.messages[n].fields)
    PROVE  FieldPart(s, n, j) = IF AsDataValue(s, n) THEN DataValue(FieldAt(s, n, j))
                                ELSE Variant(FieldAt(s, n, j))
<1> DEFINE f == FieldAt(s, n, j)
           D == AsDataValue(s, n)
           M == Mask(s, n, j)
           V == Shape(s, n, j)
           Z == Scalar(s, n, j)
           dd == Cell("DataValue", M, 1)
           d == If(D, dd)
           vv == Cell("variant", V, 1)
           v == If("value" \in M, vv)
           aa == Cell("array length", Len(Z), 4)
           a == If(V[1] = "array", aa)
           z == Scalars(V[2], Z)
           uu == Cell("status", f.status, 4)
           u == If("status" \in M, uu)
           tt == Cell("time", f.time, 8)
           t == If("time" \in M, tt)
           o == If("server time" \in M, Cell("server time", None, 8))
           p == If("picoseconds" \in M, Cell("picoseconds", None, 2))
<1>1. FieldPart(s, n, j) = d \o v \o a \o z \o u \o t \o o \o p
  BY DEF FieldPart
<1>2. /\ dd \in Seq(Cells) /\ vv \in Seq(Cells) /\ aa \in Seq(Cells) /\ uu \in Seq(Cells)
      /\ "time" \in M => tt \in Seq(Cells)
      /\ Written(z, Z, Len(Z), ScalarSize[V[2]])
  BY FieldPieces
<1>3. z \in Seq(Cells)
  BY <1>2 DEF Written
<1>4. /\ vv \o a \o z = Variant(f)
      /\ IsNull(f) => a = <<>> /\ z = <<>>
  BY OwnVariant
<1>5. M = IF ~D THEN {"value"}
          ELSE Flag(f.type # "NULL" /\ f.value # None, "value")
               \cup Flag(f.status # "good", "status") \cup Flag(f.time # None, "time")
  BY DEF Mask
<1>6. "value" \notin M => IsNull(f) /\ D
  <2> HIDE DEF f, D, M
  <2>1. QED
    BY <1>5 DEF Flag, IsNull
<1>7. "server time" \notin M /\ "picoseconds" \notin M
  <2> HIDE DEF f, D, M
  <2>1. QED
    BY <1>5 DEF Flag
<1>8. o = <<>> /\ p = <<>>
  BY <1>7 DEF If
<1>9. DataValue(f) = IF D THEN dd \o If("value" \in M, Variant(f)) \o u \o t ELSE DataValue(f)
  <2> HIDE DEF f, D
  <2>1. QED
    BY <1>5 DEF DataValue
<1>10. d \in Seq(Cells) /\ v \in Seq(Cells) /\ a \in Seq(Cells) /\ u \in Seq(Cells) /\ t \in Seq(Cells)
  BY <1>2, GivenCells, Zenon
<1>11. d = (IF D THEN dd ELSE <<>>) /\ v = (IF "value" \in M THEN vv ELSE <<>>)
  BY DEF If
<1>12. ~D => u = <<>> /\ t = <<>>
  <2>1. ~D => "status" \notin M /\ "time" \notin M
    <3> HIDE DEF M, D
    <3>1. QED
      BY <1>5
  <2>2. QED
    BY <2>1 DEF If
<1>13. If("value" \in M, Variant(f)) = v \o a \o z
  <2> HIDE DEF v, a, z
  <2>1. CASE "value" \in M
    <3>1. v = vv
      BY <1>11, <2>1
    <3>2. QED
      BY <1>4, <2>1, <3>1 DEF If
  <2>2. CASE "value" \notin M
    <3>1. v = <<>> /\ a = <<>> /\ z = <<>>
      BY <1>4, <1>6, <1>11, <2>2
    <3>2. v \o a \o z = <<>>
      BY <3>1
    <3>3. QED
      BY <2>2, <3>2 DEF If
  <2>3. QED
    BY <2>1, <2>2
<1>14. ~D => "value" \in M
  BY <1>6
<1> HIDE DEF f, D, M, V, Z, dd, d, vv, v, aa, a, z, uu, u, tt, t, o, p
<1>15. d \o v \in Seq(Cells) /\ v \o a \in Seq(Cells)
  BY <1>10, JoinTwo, Zenon
<1>16. d \o v \o a \in Seq(Cells) /\ v \o a \o z \in Seq(Cells)
  BY <1>3, <1>10, <1>15, JoinTwo, Zenon
<1>17. d \o v \o a \o z \in Seq(Cells)
  BY <1>3, <1>16, JoinTwo, Zenon
<1>18. d \o v \o a \o z \o u \in Seq(Cells)
  BY <1>10, <1>17, JoinTwo, Zenon
<1>19. d \o v \o a \o z \o u \o t \in Seq(Cells)
  BY <1>10, <1>18, JoinTwo, Zenon
<1>20. FieldPart(s, n, j) = d \o v \o a \o z \o u \o t
  <2> DEFINE all == d \o v \o a \o z \o u \o t
  <2>1. FieldPart(s, n, j) = all \o <<>> \o <<>>
    BY <1>1, <1>8
  <2> HIDE DEF all
  <2>2. all \in Seq(Cells)
    BY <1>19 DEF all
  <2>3. all \o <<>> = all
    BY <2>2, JoinNothing, Zenon
  <2>4. FieldPart(s, n, j) = all
    BY <2>1, <2>3, Zenon
  <2>5. QED
    BY <2>4 DEF all
<1>21. d \o (v \o a \o z) = d \o v \o a \o z
  <2>1. Regroups(d, v, a)
    BY <1>10, JoinTwo, Zenon
  <2>2. Regroups(d, v \o a, z)
    BY <1>3, <1>10, <1>15, JoinTwo, Zenon
  <2>3. QED
    BY <2>1, <2>2, Zenon DEF Regroups
<1>22. CASE D
  <2>1. d = dd
    BY <1>11, <1>22
  <2>2. DataValue(f) = dd \o (v \o a \o z) \o u \o t
    BY <1>9, <1>13, <1>22
  <2>3. QED
    BY <1>20, <1>21, <1>22, <2>1, <2>2 DEF D, f
<1>23. CASE ~D
  <2>1. d = <<>> /\ u = <<>> /\ t = <<>>
    BY <1>11, <1>12, <1>23
  <2>2. d \o v \o a \o z = v \o a \o z
    BY <1>16, <1>21, <2>1, JoinNothing, Zenon
  <2>3. FieldPart(s, n, j) = v \o a \o z
    BY <1>16, <1>20, <2>1, <2>2, JoinNothing, Zenon
  <2>4. v \o a \o z = Variant(f)
    BY <1>13, <1>14, <1>23 DEF If
  <2>5. QED
    BY <1>23, <2>3, <2>4 DEF D, f
<1>24. QED
  BY <1>22, <1>23

\* Nothing joined to cells more than once.
LEMMA JoinNothings ==
    ASSUME NEW x \in Seq(Cells)
    PROVE  /\ x \o <<>> \o <<>> \o <<>> \o <<>> \o <<>> = x
           /\ x \o <<>> \o <<>> \o <<>> \o <<>> \o <<>> \o <<>> \o <<>> = x
<1>1. x \o <<>> = x
  BY JoinNothing, Zenon
<1>2. QED
  BY <1>1, Zenon

\* What hypernova writes of a message.
LEMMA OwnMessage ==
    ASSUME NEW s, Given(s), Own(s), NEW n, n \in 1..Count(s)
    PROVE  DataSetPart(s, n) = DataSetMessage(s.message.messages[n], s.datavalue)
<1> DEFINE d == s.message.messages[n]
           D == AsDataValue(s, n)
           F == Flags1(s, n)
           G == Flags2(s, n)
           N == Number(s, n)
           L == Len(s.message.messages[n].fields)
           a == Cell("flags1", F, 1)
           bb == Cell("flags2", G, 1)
           b == If("flags2" \in F, bb)
           qq == Cell("sequence", N, 2)
           q == If("sequence" \in F, qq)
           t == If("timestamp" \in G, Cell("timestamp", None, 8))
           p == If("picoseconds" \in G, Cell("picoseconds", None, 2))
           u == If("status" \in F, Cell("message status", None, 2))
           j == If("major" \in F, Cell("major", None, 4))
           i == If("minor" \in F, Cell("minor", None, 4))
           cc == Cell("field count", L, 2)
           c == If(~("keep alive" \in G), cc)
           r == FieldsFrom(s, n, 0)
           e == UseDataValue(d, s.datavalue)
           W == [k \in DOMAIN d.fields |-> IF e THEN DataValue(d.fields[k]) ELSE Variant(d.fields[k])]
<1>1. MessagePart(s, n) = a \o b \o q \o t \o p \o u \o j \o i \o c
  BY DEF MessagePart
<1>2. DataSetPart(s, n) = MessagePart(s, n) \o r
  BY DEF DataSetPart
<1>3. DataSetMessage(d, s.datavalue)
        = IF d.keep_alive
          THEN Cell("flags1", {"flags2"}, 1) \o Cell("flags2", {"keep alive"}, 1)
          ELSE Cell("flags1", {IF e THEN "DataValue" ELSE "Variant"} \cup Flag(d.sequence # None, "sequence"), 1)
               \o If(d.sequence # None, Cell("sequence", d.sequence % SeqModulus, 2))
               \o Cell("field count", Len(d.fields), 2) \o FlattenSeq(W)
  BY DEF DataSetMessage
<1>0. D <=> e
  BY DEF AsDataValue
<1>4. F = IF d.keep_alive THEN {"flags2"}
          ELSE {IF D THEN "DataValue" ELSE "Variant"} \cup Flag(d.sequence # None, "sequence")
  BY DEF Flags1
<1>5. G = IF d.keep_alive THEN {"keep alive"} ELSE {}
  BY DEF Flags2
<1>6. N = d.sequence % SeqModulus
  BY DEF Number
<1>7. MessagePart(s, n) \in Seq(Cells)
  BY MessagesOneByOne
<1>8. /\ Fields(s, n) \in Nat /\ FieldsFrom(s, n, 0) = FlattenSeq(FieldParts(s, n))
      /\ FieldsFrom(s, n, Fields(s, n)) = <<>>
  BY FieldsOneByOne
<1>9. Fields(s, n) = IF "keep alive" \in G THEN 0 ELSE L
  BY DEF Fields, Quiet
<1>10. d.fields \in Seq(FieldValue) /\ L = Len(d.fields)
  BY MessageFlags
<1>11. ~d.keep_alive => FieldParts(s, n) = W
  <2>1. \A k \in 1..L : FieldPart(s, n, k)
           = IF D THEN DataValue(d.fields[k]) ELSE Variant(d.fields[k])
    BY OwnField DEF FieldAt
  <2>0. \A k \in 1..L : FieldPart(s, n, k)
           = IF e THEN DataValue(d.fields[k]) ELSE Variant(d.fields[k])
    BY <1>0, <2>1
  <2>2. FieldParts(s, n) = [k \in 1..Fields(s, n) |-> FieldPart(s, n, k)]
    BY DEF FieldParts
  <2> HIDE DEF d, D, e, L, G
  <2>3. DOMAIN d.fields = 1..L
    BY <1>10
  <2>4. ~d.keep_alive => Fields(s, n) = L
    BY <1>5, <1>9
  <2>5. QED
    BY <2>0, <2>2, <2>3, <2>4
<1>12. a \in Seq(Cells) /\ bb \in Seq(Cells) /\ cc \in Seq(Cells)
  <2>1. "flags1" \in FlagKinds /\ "flags2" \in FlagKinds /\ "field count" \in Numbers
    BY DEF FlagKinds, Numbers
  <2>2. 1 \in Nat /\ 2 \in Nat /\ F \in SUBSET FlagNames /\ G \in SUBSET FlagNames /\ L \in Nat
    BY MessageFlags
  <2> HIDE DEF F, G, L
  <2>3. QED
    BY <2>1, <2>2, FlagsCell, NumberCell, Zenon
<1>13. "sequence" \in F => qq \in Seq(Cells)
  <2>1. "sequence" \in F => N \in Residues
    BY MessageFlags
  <2> HIDE DEF F, N
  <2>2. QED
    BY <2>1, SequenceCell, Zenon
<1>14. b \in Seq(Cells) /\ q \in Seq(Cells) /\ c \in Seq(Cells)
  <2> HIDE DEF bb, qq, cc
  <2>1. QED
    BY <1>12, <1>13, GivenCells, Zenon
<1>15. "timestamp" \notin G /\ "picoseconds" \notin G /\ "status" \notin F /\ "major" \notin F
       /\ "minor" \notin F
  <2> HIDE DEF d, D, F, G
  <2>1. QED
    BY <1>4, <1>5 DEF Flag
<1>16. t = <<>> /\ p = <<>> /\ u = <<>> /\ j = <<>> /\ i = <<>>
  BY <1>15 DEF If
<1> HIDE DEF r, W, t, p, u, j, i
<1>17. CASE d.keep_alive
  <2>1. F = {"flags2"} /\ G = {"keep alive"}
    BY <1>4, <1>5, <1>17
  <2>2. "flags2" \in F /\ "sequence" \notin F /\ "keep alive" \in G
    BY <2>1
  <2>3. r = <<>>
    BY <1>8, <1>9, <2>2 DEF r
  <2>4. b = bb /\ q = <<>> /\ c = <<>>
    BY <2>2 DEF If
  <2>5. DataSetMessage(d, s.datavalue) = a \o bb
    BY <1>3, <1>17, <2>1
  <2> HIDE DEF a, bb, b, qq, q, cc, c, d
  <2>6. a \o bb \in Seq(Cells)
    BY <1>12, JoinTwo, Zenon
  <2>7. MessagePart(s, n) = a \o bb \o <<>> \o <<>> \o <<>> \o <<>> \o <<>> \o <<>> \o <<>>
    BY <1>1, <1>16, <2>4
  <2>8. MessagePart(s, n) = a \o bb
    BY <2>6, <2>7, JoinNothings, Zenon
  <2>9. a \o bb \o <<>> = a \o bb
    BY <2>6, JoinNothing, Zenon
  <2>10. QED
    BY <1>2, <2>3, <2>5, <2>8, <2>9 DEF d
<1>18. CASE ~d.keep_alive
  <2>1. F = {IF D THEN "DataValue" ELSE "Variant"} \cup Flag(d.sequence # None, "sequence") /\ G = {}
    BY <1>4, <1>5, <1>18
  <2>2. "flags2" \notin F /\ "keep alive" \notin G /\ ("sequence" \in F <=> d.sequence # None)
    <3> HIDE DEF F, G, D, d
    <3>1. QED
      BY <2>1 DEF Flag
  <2>3. b = <<>> /\ c = cc
    BY <2>2 DEF If
  <2>4. q = If(d.sequence # None, Cell("sequence", d.sequence % SeqModulus, 2))
    BY <1>6, <2>2 DEF If
  <2>5. r = FlattenSeq(W)
    BY <1>8, <1>11, <1>18 DEF r
  <2>6. DataSetMessage(d, s.datavalue) = a \o q \o cc \o r
    <3> DEFINE g == Cell("flags1", {IF e THEN "DataValue" ELSE "Variant"}
                                   \cup Flag(d.sequence # None, "sequence"), 1)
    <3>1. a = g
      BY <1>0, <2>1
    <3>2. cc = Cell("field count", Len(d.fields), 2)
      BY <1>10
    <3>3. DataSetMessage(d, s.datavalue)
            = g \o If(d.sequence # None, Cell("sequence", d.sequence % SeqModulus, 2))
                \o Cell("field count", Len(d.fields), 2) \o FlattenSeq(W)
      BY <1>3, <1>18
    <3> HIDE DEF g, a, q, cc, d, e
    <3>4. QED
      BY <2>4, <2>5, <3>1, <3>2, <3>3
  <2> HIDE DEF a, bb, b, qq, q, cc, c, d
  <2>7. a \o q \in Seq(Cells)
    BY <1>12, <1>14, JoinTwo, Zenon
  <2>8. MessagePart(s, n) = a \o <<>> \o q \o <<>> \o <<>> \o <<>> \o <<>> \o <<>> \o cc
    BY <1>1, <1>16, <2>3
  <2>9. a \o <<>> = a
    BY <1>12, JoinNothing, Zenon
  <2>10. MessagePart(s, n) = a \o q \o cc
    BY <2>7, <2>8, <2>9, JoinNothings, Zenon
  <2>11. QED
    BY <1>2, <2>6, <2>10 DEF d
<1>19. QED
  BY <1>17, <1>18

\* What hypernova writes of the messages, and of their sizes.
LEMMA OwnMessages ==
    ASSUME NEW s, Given(s), Own(s)
    PROVE  /\ Bodies(s.message, s.datavalue) = DataSets(s)
           /\ Len(Bodies(s.message, s.datavalue)) = Count(s)
           /\ DOMAIN Bodies(s.message, s.datavalue) = 1..Count(s)
           /\ DOMAIN s.message.messages = 1..Count(s)
<1> DEFINE m == s.message.messages
           v == s.datavalue
<1>1. m \in Seq(DataSet) /\ Count(s) = Len(m) /\ Count(s) \in Nat
  BY GivenTyped DEF Count
<1>2. \A n \in 1..Count(s) : DataSetPart(s, n) = DataSetMessage(m[n], v)
  BY OwnMessage
<1>3. Bodies(s.message, v) = [n \in DOMAIN m |-> DataSetMessage(m[n], v)]
  BY DEF Bodies
<1>4. DataSets(s) = [n \in 1..Count(s) |-> DataSetPart(s, n)]
  BY DEF DataSets
<1>5. Len(DataSets(s)) = Count(s)
  BY MessagesOneByOne
<1> HIDE DEF m
<1>6. DOMAIN m = 1..Count(s)
  BY <1>1
<1>7. Bodies(s.message, v) = DataSets(s)
  BY <1>2, <1>3, <1>4, <1>6
<1>8. QED
  BY <1>4, <1>5, <1>6, <1>7 DEF m

\* What hypernova writes of a group header.
LEMMA OwnGroup ==
    ASSUME NEW s, Given(s), Own(s)
    PROVE  GroupPart(s) = GroupHeader(s.message)
<1> DEFINE m == s.message
           F == GroupFlags(s)
           f == Cell("group flags", F, 1)
           g == If("group" \in F, Cell("group", m.group, 2))
           v == If("group version" \in F, Cell("group version", None, 4))
           n == If("number" \in F, Cell("number", None, 2))
           q == If("group sequence" \in F, Cell("group sequence", m.sequence % SeqModulus, 2))
           h == "group header" \in On(s)
<1>1. GroupPart(s) = If(h, f \o g \o v \o n \o q)
  BY DEF GroupPart
<1>2. F = Flag(m.group # None, "group") \cup Flag(m.sequence # None, "group sequence")
  BY DEF GroupFlags
<1>3. h <=> F # {}
  <2>1. h <=> (m.group # None \/ m.sequence # None)
    BY OwnAnnounces
  <2> HIDE DEF m, F, h
  <2>2. QED
    BY <1>2, <2>1 DEF Flag
<1>4. GroupHeader(m) = If(F # {}, Cell("group flags", F, 1) \o If(m.group # None, Cell("group", m.group, 2))
                     \o If(m.sequence # None, Cell("group sequence", m.sequence % SeqModulus, 2)))
  BY <1>2 DEF GroupHeader
<1>5. /\ "group" \in F <=> m.group # None
      /\ "group sequence" \in F <=> m.sequence # None
      /\ "group version" \notin F /\ "number" \notin F
  <2> HIDE DEF m, F
  <2>1. QED
    BY <1>2 DEF Flag
<1>6. v = <<>> /\ n = <<>>
  BY <1>5 DEF If
<1>7. F \in SUBSET FlagNames /\ m.group \in Nat \cup {None} /\ m.sequence \in Nat \cup {None}
  <2>1. m.group \in Nat \cup {None} /\ m.sequence \in Nat \cup {None}
    BY GivenTyped
  <2> HIDE DEF m, F
  <2>2. QED
    BY <1>2, <2>1 DEF Flag, FlagNames
<1>8. f \in Seq(Cells) /\ g \in Seq(Cells)
  <2> HIDE DEF m, F
  <2>1. "group flags" \in FlagKinds /\ 1 \in Nat
    BY DEF FlagKinds
  <2>2. f \in Seq(Cells)
    BY <1>7, <2>1, FlagsCell, Zenon
  <2>4. Cell("group", m.group, 2) \in Seq(Cells)
    BY <1>7, GroupCell, Zenon
  <2>5. QED
    BY <2>2, <2>4, GivenCells, Zenon
<1>9. /\ g = If(m.group # None, Cell("group", m.group, 2))
      /\ q = If(m.sequence # None, Cell("group sequence", m.sequence % SeqModulus, 2))
  BY <1>5 DEF If
<1> HIDE DEF f, g, v, n, q, h, F, m
<1>10. f \o g \in Seq(Cells)
  BY <1>8, JoinTwo, Zenon
<1>11. f \o g \o v \o n \o q = f \o g \o q
  <2> DEFINE x == f \o g
  <2>1. x \in Seq(Cells)
    BY <1>10
  <2> HIDE DEF x
  <2>2. x \o <<>> = x
    BY <2>1, JoinNothing, Zenon
  <2>3. x \o v \o n \o q = x \o q
    BY <1>6, <2>2
  <2>4. QED
    BY <2>3 DEF x
<1>12. GroupHeader(m) = If(F # {}, f \o g \o q)
  BY <1>4, <1>9 DEF f
<1>13. QED
  BY <1>1, <1>3, <1>11, <1>12 DEF If, m

\* What hypernova writes is of this layout.
LEMMA OwnLayout ==
    ASSUME NEW s, Given(s), Own(s)
    PROVE  Encode(s.message, s.datavalue, s.key) = Signed(Body(s), s.key)
<1> DEFINE m == s.message
           B == Bodies(s.message, s.datavalue)
           A1 == Cell("flags", Flags(s), 1)
           A2 == If("extended" \in Flags(s), Cell("ext1", Ext1(s), 1))
           C == Cell("publisher id", m.pid, PidSize[m.pid_type])
           G == GroupHeader(m)
           N == Cell("count", Count(s), 1)
           W == Writers(s)
           K == SecurityPart(s)
           Z == SizesPart(s)
           M == FlattenSeq(DataSets(s))
<1>1. Body(s) = HeaderPart(s) \o IdPart(s) \o GroupPart(s) \o PayloadPart(s) \o TimesPart(s)
                \o SecurityPart(s) \o SizesPart(s) \o MessagesFrom(s, 0)
  BY BodyParts
<1>2. /\ "publisher id" \in On(s) /\ "payload header" \in On(s)
      /\ "extended" \in Flags(s) <=> Extended(s)
      /\ "security" \in On(s) <=> s.key # None
      /\ On(s) \cap {"class id", "frame time", "frame picoseconds", "promoted", "ext2"} = {}
      /\ "ext2" \notin Ext1(s)
  BY OwnAnnounces
<1>3. "class id" \notin On(s) /\ "frame time" \notin On(s) /\ "frame picoseconds" \notin On(s)
      /\ "promoted" \notin On(s)
  BY <1>2
<1>4. /\ HeaderPart(s) = A1 \o A2 \o <<>> /\ IdPart(s) = C \o <<>>
      /\ TimesPart(s) = <<>> \o <<>> \o <<>> /\ PayloadPart(s) = N \o W
  BY <1>2, <1>3 DEF HeaderPart, IdPart, TimesPart, PayloadPart, If
<1>5. /\ HeaderPart(s) \in Seq(Cells) /\ IdPart(s) \in Seq(Cells) /\ GroupPart(s) \in Seq(Cells)
      /\ PayloadPart(s) \in Seq(Cells)
  BY PartsAreCells
<1>6. A1 \in Seq(Cells) /\ A2 \in Seq(Cells) /\ C \in Seq(Cells)
  <2>1. Flags(s) \in SUBSET FlagNames /\ Ext1(s) \in SUBSET FlagNames
    BY Announced
  <2>2. "flags" \in FlagKinds /\ "ext1" \in FlagKinds /\ 1 \in Nat /\ "publisher id" \in Numbers
    BY DEF FlagKinds, Numbers
  <2>3. A1 \in Seq(Cells) /\ Cell("ext1", Ext1(s), 1) \in Seq(Cells)
    BY <2>1, <2>2, FlagsCell, Zenon
  <2>4. A2 \in Seq(Cells)
    BY <2>3, GivenCells, Zenon
  <2>5. m.pid \in Nat /\ PidSize[m.pid_type] \in Nat
    BY GivenTyped
  <2>6. C \in Seq(Cells)
    BY <2>2, <2>5, NumberCell, Zenon
  <2>7. QED
    BY <2>3, <2>4, <2>6
<1>7. N \in Seq(Cells) /\ W \in Seq(Cells)
  <2>1. "count" \in Numbers /\ 1 \in Nat /\ Count(s) \in Nat
    BY GivenTyped DEF Numbers
  <2>2. N \in Seq(Cells)
    BY <2>1, NumberCell, Zenon
  <2>3. \A i \in 1..Count(s) : s.message.messages[i].writer \in Nat
    BY GivenTyped
  <2>4. \A i \in 1..Count(s) : [kind |-> "writer id", value |-> s.message.messages[i].writer, width |-> 2] \in Cells
    BY <2>3 DEF Cells, Numbers
  <2>5. W \in [1..Count(s) -> Cells]
    BY <2>4, Zenon DEF Writers
  <2> DEFINE S == Cells
  <2>6. W \in [1..Count(s) -> S]
    BY <2>5
  <2> HIDE DEF W, S
  <2>7. W \in Seq(S)
    BY <2>1, <2>6
  <2>8. QED
    BY <2>2, <2>7 DEF S
<1>8. B = DataSets(s) /\ Len(B) = Count(s) /\ DOMAIN B = 1..Count(s) /\ DOMAIN m.messages = 1..Count(s)
  BY OwnMessages
<1>9. MessagesFrom(s, 0) = M
  BY MessagesOneByOne
<1>10. GroupPart(s) = G
  BY OwnGroup
<1> DEFINE sizes == [i \in DOMAIN B |-> [kind |-> "size", value |-> Width(B[i]), width |-> 2]]
           writers == [i \in DOMAIN m.messages |->
                         [kind |-> "writer id", value |-> m.messages[i].writer, width |-> 2]]
           flags == {"publisher id", "payload header"} \cup Flag(Extended(s), "extended")
                         \cup Flag(m.group # None \/ m.sequence # None, "group header")
           ext1 == {m.pid_type} \cup Flag(s.key # None, "security")
           E == Cell("flags", flags, 1) \o If(Extended(s), Cell("ext1", ext1, 1))
                \o Cell("publisher id", m.pid, PidSize[m.pid_type]) \o G
                \o Cell("count", Len(m.messages), 1) \o writers
                \o If(s.key # None, Cell("security flags", {"signed"}, 1) \o Cell("token", 1, 4)
                                  \o Cell("nonce length", 8, 1) \o Cell("nonce", None, 8))
                \o If(Len(B) > 1, sizes) \o FlattenSeq(B)
<1>11. Encode(s.message, s.datavalue, s.key) = Signed(E, s.key)
  BY DEF Encode, Extended
<1>12. writers = W
  BY <1>8 DEF Writers
<1>13. If(Len(B) > 1, sizes) = Z
  <2>1. sizes = Sizes(s)
    BY <1>8 DEF Sizes
  <2> HIDE DEF sizes, B
  <2>2. QED
    BY <1>2, <1>8, <2>1 DEF SizesPart, If
<1>14. If(s.key # None, Cell("security flags", {"signed"}, 1) \o Cell("token", 1, 4)
                                  \o Cell("nonce length", 8, 1) \o Cell("nonce", None, 8)) = K
  <2> DEFINE x == Cell("security flags", {"signed"}, 1) \o Cell("token", 1, 4)
                                  \o Cell("nonce length", 8, 1) \o Cell("nonce", None, 8)
  <2>1. SecurityFlags(s) = {"signed"} /\ Token(s) = 1 /\ Nonce(s) = 8
    BY DEF SecurityFlags, Token, Nonce
  <2>2. K = If("security" \in On(s), x \o If("footer" \in {"signed"}, Cell("footer size", None, 2)))
    BY <2>1 DEF SecurityPart
  <2>3. If("footer" \in {"signed"}, Cell("footer size", None, 2)) = <<>>
    BY DEF If
  <2>4. x \in Seq(Cells)
    <3>1. {"signed"} \in SUBSET FlagNames
      BY DEF FlagNames
    <3>2. "security flags" \in FlagKinds /\ "token" \in Numbers /\ "nonce length" \in Numbers
          /\ "nonce" \in Skips /\ 1 \in Nat /\ 4 \in Nat /\ 8 \in Nat
      BY DEF FlagKinds, Numbers, Skips
    <3>3. Cell("security flags", {"signed"}, 1) \in Seq(Cells)
      BY <3>1, <3>2, FlagsCell, Zenon
    <3>4. Cell("token", 1, 4) \in Seq(Cells) /\ Cell("nonce length", 8, 1) \in Seq(Cells)
      BY <3>2, NumberCell, Zenon
    <3>5. Cell("nonce", None, 8) \in Seq(Cells)
      BY <3>2, SkippedCell, Zenon
    <3>6. QED
      BY <3>3, <3>4, <3>5, Joined, Zenon
  <2> HIDE DEF x
  <2>5. x \o <<>> = x
    BY <2>4, JoinNothing, Zenon
  <2>6. K = If("security" \in On(s), x)
    BY <2>2, <2>3, <2>5
  <2>7. If(s.key # None, x) = K
    BY <1>2, <2>6 DEF If
  <2>8. QED
    BY <2>7 DEF x
<1>15. Cell("flags", flags, 1) = A1
  BY DEF Flags
<1>16. If(Extended(s), Cell("ext1", ext1, 1)) = A2
  <2>1. CASE Extended(s)
    <3>1. Ext1(s) = ext1
      BY <2>1 DEF Ext1
    <3> HIDE DEF ext1
    <3>2. QED
      BY <1>2, <2>1, <3>1 DEF If
  <2>2. CASE ~Extended(s)
    BY <1>2, <2>2 DEF If
  <2>3. QED
    BY <2>1, <2>2
<1>17. E = A1 \o A2 \o C \o G \o N \o W \o K \o Z \o M
  <2>1. Cell("count", Len(m.messages), 1) = N
    BY DEF Count
  <2>2. FlattenSeq(B) = M
    BY <1>8
  <2> DEFINE k == If(s.key # None, Cell("security flags", {"signed"}, 1) \o Cell("token", 1, 4)
                                  \o Cell("nonce length", 8, 1) \o Cell("nonce", None, 8))
             z == If(Len(B) > 1, sizes)
             n == Cell("count", Len(m.messages), 1)
             f == Cell("flags", flags, 1)
             e == If(Extended(s), Cell("ext1", ext1, 1))
             b == FlattenSeq(B)
  <2>3. E = f \o e \o C \o G \o n \o writers \o k \o z \o b
    OBVIOUS
  <2>4. f = A1 /\ e = A2 /\ n = N /\ k = K /\ z = Z /\ b = M /\ writers = W
    BY <1>12, <1>13, <1>14, <1>15, <1>16, <2>1, <2>2
  <2> HIDE DEF f, e, n, k, z, b, writers, E, A1, A2, N, K, Z, M, C, G, W
  <2>5. QED
    BY <2>3, <2>4
<1> HIDE DEF A1, A2, C, G, N, W, K, Z, M, E
<1>18. A1 \o A2 \in Seq(Cells)
  BY <1>6, JoinTwo, Zenon
<1>19. HeaderPart(s) = A1 \o A2
  BY <1>4, <1>18, JoinNothing, Zenon
<1>20. IdPart(s) = C
  BY <1>4, <1>6, JoinNothing, Zenon
<1>21. TimesPart(s) = <<>>
  BY <1>4
<1> DEFINE X == A1 \o A2 \o C \o G
<1>22. X \in Seq(Cells)
  <2>1. A1 \o A2 \o C \in Seq(Cells)
    BY <1>6, <1>18, JoinTwo, Zenon
  <2>2. G \in Seq(Cells)
    BY <1>5, <1>10
  <2>3. QED
    BY <2>1, <2>2, JoinTwo, Zenon
<1>23. Body(s) = X \o (N \o W) \o <<>> \o K \o Z \o M
  BY <1>1, <1>4, <1>9, <1>10, <1>19, <1>20, <1>21 DEF K, Z
<1>24. E = X \o N \o W \o K \o Z \o M
  BY <1>17
<1> HIDE DEF X
<1>25. X \o (N \o W) = X \o N \o W
  <2>1. Regroups(X, N, W)
    BY <1>7, <1>22, JoinTwo, Zenon
  <2>2. QED
    BY <2>1, Zenon DEF Regroups
<1>26. X \o N \o W \in Seq(Cells)
  <2>1. X \o N \in Seq(Cells)
    BY <1>7, <1>22, JoinTwo, Zenon
  <2>2. QED
    BY <1>7, <2>1, JoinTwo, Zenon
<1>27. X \o N \o W \o <<>> = X \o N \o W
  BY <1>26, JoinNothing, Zenon
<1>28. Body(s) = E
  BY <1>23, <1>24, <1>25, <1>27, Zenon
<1>29. QED
  BY <1>11, <1>28

RegroupsThree(x, a, b, c) == x \o (a \o b \o c) = x \o a \o b \o c

RegroupsFour(x, a, b, c, d) == x \o (a \o b \o c \o d) = x \o a \o b \o c \o d

RegroupsSix(x, a, b, c, d, e, f) ==
    x \o (a \o b \o c \o d \o e \o f) = x \o a \o b \o c \o d \o e \o f

\* Three parts behind another, joined in either order,
LEMMA GroupThree ==
    ASSUME NEW x, x \in Seq(Cells), NEW a, a \in Seq(Cells), NEW b, b \in Seq(Cells),
           NEW c, c \in Seq(Cells)
    PROVE  RegroupsThree(x, a, b, c)
<1>1. a \o b \in Seq(Cells) /\ Regroups(x, a, b)
  BY JoinTwo, Zenon
<1>2. Regroups(x, a \o b, c)
  BY <1>1, JoinTwo, Zenon
<1>3. QED
  BY <1>1, <1>2, Zenon DEF Regroups, RegroupsThree

\* four parts,
LEMMA GroupFour ==
    ASSUME NEW x, x \in Seq(Cells), NEW a, a \in Seq(Cells), NEW b, b \in Seq(Cells),
           NEW c, c \in Seq(Cells), NEW d, d \in Seq(Cells)
    PROVE  RegroupsFour(x, a, b, c, d)
<1>1. a \o b \in Seq(Cells)
  BY JoinTwo, Zenon
<1>2. a \o b \o c \in Seq(Cells)
  BY <1>1, JoinTwo, Zenon
<1>3. Regroups(x, a \o b \o c, d) /\ RegroupsThree(x, a, b, c)
  BY <1>2, JoinTwo, GroupThree, Zenon
<1>4. QED
  BY <1>3, Zenon DEF Regroups, RegroupsThree, RegroupsFour

\* and six.
LEMMA GroupSix ==
    ASSUME NEW x, x \in Seq(Cells), NEW a, a \in Seq(Cells), NEW b, b \in Seq(Cells),
           NEW c, c \in Seq(Cells), NEW d, d \in Seq(Cells), NEW e, e \in Seq(Cells),
           NEW f, f \in Seq(Cells)
    PROVE  RegroupsSix(x, a, b, c, d, e, f)
<1>1. a \o b \in Seq(Cells)
  BY JoinTwo, Zenon
<1>2. a \o b \o c \in Seq(Cells)
  BY <1>1, JoinTwo, Zenon
<1>3. a \o b \o c \o d \in Seq(Cells)
  BY <1>2, JoinTwo, Zenon
<1>4. a \o b \o c \o d \o e \in Seq(Cells)
  BY <1>3, JoinTwo, Zenon
<1>5. Regroups(x, a \o b \o c \o d \o e, f)
  BY <1>4, JoinTwo, Zenon
<1>6. Regroups(x, a \o b \o c \o d, e)
  BY <1>3, JoinTwo, Zenon
<1>7. RegroupsFour(x, a, b, c, d)
  BY GroupFour, Zenon
<1>8. QED
  BY <1>5, <1>6, <1>7, Zenon DEF Regroups, RegroupsFour, RegroupsSix

\* The pieces of a field as another maker writes it are cells.
LEMMA ForeignPieces ==
    ASSUME NEW s, Given(s), ~Own(s)
    PROVE  /\ Cell("DataValue", {"value", "status", "server time", "picoseconds"}, 1) \in Seq(Cells)
           /\ Cell("variant", <<IF "matrix" \in s.options THEN "matrix" ELSE "scalar", "BYTE">>, 1)
                 \in Seq(Cells)
           /\ Scalars("BYTE", <<s.message.messages[1].fields[1].value>>) \in Seq(Cells)
           /\ Cell("status", s.message.messages[1].fields[1].status, 4) \in Seq(Cells)
           /\ Cell("server time", None, 8) \in Seq(Cells) /\ Cell("picoseconds", None, 2) \in Seq(Cells)
<1>1. Count(s) = 1 /\ Len(s.message.messages[1].fields) = 1
  BY DEF Given, Own, Expressible, Count
<1>2. 1 \in 1..Count(s) /\ 1 \in 1..Len(s.message.messages[1].fields)
  BY <1>1
<1>3. /\ Mask(s, 1, 1) = {"value", "status", "server time", "picoseconds"}
      /\ Shape(s, 1, 1) = <<IF "matrix" \in s.options THEN "matrix" ELSE "scalar", "BYTE">>
      /\ Scalar(s, 1, 1) = <<s.message.messages[1].fields[1].value>>
  BY DEF Mask, Shape, Scalar, AsDataValue, FieldAt
<1>4. Shape(s, 1, 1)[2] = "BYTE"
  <2> DEFINE V == Shape(s, 1, 1)
  <2>1. V = <<IF "matrix" \in s.options THEN "matrix" ELSE "scalar", "BYTE">>
    BY <1>3
  <2> HIDE DEF V
  <2>2. V[2] = "BYTE"
    BY <2>1
  <2>3. QED
    BY <2>2 DEF V
<1>5. /\ Cell("DataValue", Mask(s, 1, 1), 1) \in Seq(Cells)
      /\ Cell("variant", Shape(s, 1, 1), 1) \in Seq(Cells)
      /\ Cell("status", FieldAt(s, 1, 1).status, 4) \in Seq(Cells)
      /\ Written(Scalars(Shape(s, 1, 1)[2], Scalar(s, 1, 1)), Scalar(s, 1, 1),
                 Len(Scalar(s, 1, 1)), ScalarSize[Shape(s, 1, 1)[2]])
  BY <1>2, FieldPieces
<1>6. Scalars("BYTE", <<s.message.messages[1].fields[1].value>>) \in Seq(Cells)
  BY <1>3, <1>4, <1>5 DEF Written
<1>7. Cell("status", s.message.messages[1].fields[1].status, 4) \in Seq(Cells)
  BY <1>5 DEF FieldAt
<1>8. Cell("server time", None, 8) \in Seq(Cells) /\ Cell("picoseconds", None, 2) \in Seq(Cells)
  <2>1. "server time" \in Skips /\ "picoseconds" \in Skips /\ 8 \in Nat /\ 2 \in Nat
    BY DEF Skips
  <2>2. QED
    BY <2>1, SkippedCell, Zenon
<1>9. QED
  BY <1>3, <1>5, <1>6, <1>7, <1>8

\* What a publisher of another make writes of its field.
LEMMA ForeignField ==
    ASSUME NEW s, Given(s), ~Own(s)
    PROVE  /\ Count(s) = 1 /\ Len(s.message.messages[1].fields) = 1
           /\ FieldPart(s, 1, 1)
                = Cell("DataValue", {"value", "status", "server time", "picoseconds"}, 1)
                  \o Cell("variant", <<IF "matrix" \in s.options THEN "matrix" ELSE "scalar", "BYTE">>, 1)
                  \o Scalars("BYTE", <<s.message.messages[1].fields[1].value>>)
                  \o Cell("status", s.message.messages[1].fields[1].status, 4)
                  \o Cell("server time", None, 8) \o Cell("picoseconds", None, 2)
<1> DEFINE f == FieldAt(s, 1, 1)
           M == Mask(s, 1, 1)
           V == Shape(s, 1, 1)
           Z == Scalar(s, 1, 1)
           d == Cell("DataValue", M, 1)
           v == Cell("variant", V, 1)
           a == If(V[1] = "array", Cell("array length", Len(Z), 4))
           z == Scalars(V[2], Z)
           u == Cell("status", f.status, 4)
           t == If("time" \in M, Cell("time", f.time, 8))
           o == Cell("server time", None, 8)
           p == Cell("picoseconds", None, 2)
<1>1. Count(s) = 1 /\ Len(s.message.messages[1].fields) = 1
  BY DEF Given, Own, Expressible, Count
<1>2. 1 \in 1..Count(s) /\ 1 \in 1..Len(s.message.messages[1].fields)
  BY <1>1
<1>3. AsDataValue(s, 1)
  BY DEF AsDataValue
<1>4. M = {"value", "status", "server time", "picoseconds"}
  BY <1>3 DEF Mask
<1>5. V = <<IF "matrix" \in s.options THEN "matrix" ELSE "scalar", "BYTE">>
  BY DEF Shape
<1>6. V[1] # "array" /\ V[2] = "BYTE"
  <2> HIDE DEF V
  <2>1. QED
    BY <1>5
<1>7. Z = <<f.value>>
  BY DEF Scalar
<1>8. /\ d \in Seq(Cells) /\ v \in Seq(Cells) /\ u \in Seq(Cells) /\ Written(z, Z, Len(Z), ScalarSize[V[2]])
  BY <1>2, FieldPieces
<1>9. z \in Seq(Cells)
  BY <1>8 DEF Written
<1>10. o \in Seq(Cells)
  <2>1. "server time" \in Skips /\ 8 \in Nat
    BY DEF Skips
  <2>2. QED
    BY <2>1, SkippedCell, Zenon
<1>11. "value" \in M /\ "status" \in M /\ "server time" \in M /\ "picoseconds" \in M /\ "time" \notin M
  <2> HIDE DEF M
  <2>1. QED
    BY <1>4
<1>12. FieldPart(s, 1, 1) = d \o v \o <<>> \o z \o u \o <<>> \o o \o p
  <2>1. FieldPart(s, 1, 1) = d \o v \o a \o z \o u \o t \o o \o p
    BY <1>3, <1>11 DEF FieldPart, If
  <2>2. a = <<>> /\ t = <<>>
    BY <1>6, <1>11 DEF If
  <2>3. QED
    BY <2>1, <2>2
<1>13. s.message.messages[1].fields[1] = f
  BY DEF FieldAt
<1> HIDE DEF d, v, z, u, o, p
<1>14. d \o v \in Seq(Cells)
  BY <1>8, JoinTwo, Zenon
<1>15. d \o v \o <<>> = d \o v
  BY <1>14, JoinNothing, Zenon
<1>16. d \o v \o z \in Seq(Cells)
  BY <1>9, <1>14, JoinTwo, Zenon
<1>17. d \o v \o z \o u \in Seq(Cells)
  BY <1>8, <1>16, JoinTwo, Zenon
<1>18. d \o v \o z \o u \o <<>> = d \o v \o z \o u
  BY <1>17, JoinNothing, Zenon
<1>19. FieldPart(s, 1, 1) = d \o v \o z \o u \o o \o p
  BY <1>12, <1>15, <1>18, Zenon
<1>20. /\ d = Cell("DataValue", {"value", "status", "server time", "picoseconds"}, 1)
       /\ v = Cell("variant", <<IF "matrix" \in s.options THEN "matrix" ELSE "scalar", "BYTE">>, 1)
       /\ z = Scalars("BYTE", <<s.message.messages[1].fields[1].value>>)
       /\ u = Cell("status", s.message.messages[1].fields[1].status, 4)
       /\ o = Cell("server time", None, 8) /\ p = Cell("picoseconds", None, 2)
  <2>1. d = Cell("DataValue", {"value", "status", "server time", "picoseconds"}, 1)
    BY <1>4 DEF d
  <2>2. v = Cell("variant", <<IF "matrix" \in s.options THEN "matrix" ELSE "scalar", "BYTE">>, 1)
    BY <1>5 DEF v
  <2>3. z = Scalars("BYTE", <<s.message.messages[1].fields[1].value>>)
    BY <1>6, <1>7, <1>13 DEF z
  <2>4. u = Cell("status", s.message.messages[1].fields[1].status, 4)
    BY <1>13 DEF u
  <2>5. QED
    BY <2>1, <2>2, <2>3, <2>4 DEF o, p
<1>21. QED
  BY <1>1, <1>19, <1>20

\* And of its message.
LEMMA ForeignMessage ==
    ASSUME NEW s, Given(s), ~Own(s)
    PROVE  ForeignBody(s.message.messages[1], s.options) = DataSetPart(s, 1)
<1> DEFINE e == s.message.messages[1]
           F == Flags1(s, 1)
           G == Flags2(s, 1)
           X == s.options
           a == Cell("flags1", F, 1)
           b == Cell("flags2", G, 1)
           q == Cell("sequence", e.sequence, 2)
           t == If("timestamp" \in G, Cell("timestamp", None, 8))
           p == If("picoseconds" \in G, Cell("picoseconds", None, 2))
           u == If("status" \in F, Cell("message status", None, 2))
           j == If("major" \in F, Cell("major", None, 4))
           i == If("minor" \in F, Cell("minor", None, 4))
           cc == Cell("field count", 1, 2)
           c == If(~("keep alive" \in G), cc)
           d == Cell("DataValue", {"value", "status", "server time", "picoseconds"}, 1)
           v == Cell("variant", <<IF "matrix" \in X THEN "matrix" ELSE "scalar", "BYTE">>, 1)
           z == Scalars("BYTE", <<e.fields[1].value>>)
           w == Cell("status", e.fields[1].status, 4)
           o == Cell("server time", None, 8)
           r == Cell("picoseconds", None, 2)
           x == a \o b \o q \o t \o p \o u \o j \o i
           y == d \o v \o z \o w \o o \o r
<1>1. Count(s) = 1 /\ Len(e.fields) = 1 /\ FieldPart(s, 1, 1) = y
  BY ForeignField
<1>2. 1 \in 1..Count(s)
  <2>1. Count(s) = 1
    BY <1>1
  <2>2. QED
    BY <2>1
<1>3. F = {"flags2", "sequence", IF "raw" \in X THEN "raw" ELSE "DataValue"}
             \cup (X \cap {"status", "major", "minor"})
  BY DEF Flags1
<1>4. G = X \cap {"keep alive", "delta", "timestamp", "picoseconds"}
  BY DEF Flags2
<1>5. /\ "flags2" \in F /\ "sequence" \in F
      /\ "status" \in F <=> "status" \in X
      /\ "major" \in F <=> "major" \in X
      /\ "minor" \in F <=> "minor" \in X
      /\ "timestamp" \in G <=> "timestamp" \in X
      /\ "picoseconds" \in G <=> "picoseconds" \in X
      /\ "keep alive" \in G <=> "keep alive" \in X
  <2> HIDE DEF F, G, X
  <2>1. QED
    BY <1>3, <1>4
<1>6. Quiet(s, 1) <=> "keep alive" \in G
  BY DEF Quiet
<1>7. DataSetPart(s, 1) = x \o c \o FieldsFrom(s, 1, 0)
  <2>1. MessagePart(s, 1) = x \o c
    BY <1>1, <1>5, ZenonT(30) DEF MessagePart, Number, If
  <2>2. QED
    BY <2>1 DEF DataSetPart
<1>8. ForeignBody(e, X) = x \o If(~("keep alive" \in G), cc \o d \o v \o z \o w \o o \o r)
  <2> DEFINE t2 == If("timestamp" \in X, Cell("timestamp", None, 8))
             p2 == If("picoseconds" \in X, Cell("picoseconds", None, 2))
             u2 == If("status" \in X, Cell("message status", None, 2))
             j2 == If("major" \in X, Cell("major", None, 4))
             i2 == If("minor" \in X, Cell("minor", None, 4))
             a2 == Cell("flags1", {"flags2", "sequence", IF "raw" \in X THEN "raw" ELSE "DataValue"}
                   \cup (X \cap {"status", "major", "minor"}), 1)
             b2 == Cell("flags2", X \cap {"keep alive", "delta", "timestamp", "picoseconds"}, 1)
             y2 == If(X \cap {"keep alive"} = {}, cc \o d \o v \o z \o w \o o \o r)
  <2>1. ForeignBody(e, X) = a2 \o b2 \o q \o t2 \o p2 \o u2 \o j2 \o i2 \o y2
    BY DEF ForeignBody
  <2>2. t2 = t /\ p2 = p /\ u2 = u /\ j2 = j /\ i2 = i
    BY <1>5 DEF If
  <2>3. a2 = a /\ b2 = b
    BY <1>3, <1>4
  <2>4. y2 = If(~("keep alive" \in G), cc \o d \o v \o z \o w \o o \o r)
    <3>1. X \cap {"keep alive"} = {} <=> ~("keep alive" \in X)
      OBVIOUS
    <3>2. X \cap {"keep alive"} = {} <=> ~("keep alive" \in G)
      BY <1>5, <3>1
    <3> HIDE DEF G, X, cc, d, v, z, w, o, r
    <3>3. QED
      BY <3>2 DEF If
  <2> HIDE DEF a, b, q, t, p, u, j, i, a2, b2, t2, p2, u2, j2, i2, y2, G, X, cc, d, v, z, w, o, r, e
  <2>5. QED
    BY <2>1, <2>2, <2>3, <2>4
<1>9. MessagePart(s, 1) \in Seq(Cells) /\ DataSetPart(s, 1) \in Seq(Cells)
  BY <1>2, MessagesOneByOne
<1>10. /\ FieldsFrom(s, 1, Fields(s, 1)) = <<>> /\ FieldsFrom(s, 1, 0) \in Seq(Cells)
       /\ Fields(s, 1) = 1 => FieldsFrom(s, 1, 0) = FieldPart(s, 1, 1) \o FieldsFrom(s, 1, 1)
  <2>1. /\ Fields(s, 1) \in Nat
        /\ \A k \in 0..Fields(s, 1) : FieldsFrom(s, 1, k) \in Seq(Cells)
        /\ \A k \in 0..Fields(s, 1) - 1 :
                 FieldsFrom(s, 1, k) = FieldPart(s, 1, k + 1) \o FieldsFrom(s, 1, k + 1)
        /\ FieldsFrom(s, 1, Fields(s, 1)) = <<>>
    BY <1>2, FieldsOneByOne
  <2>2. FieldsFrom(s, 1, 0) \in Seq(Cells)
    BY <2>1
  <2>3. ASSUME Fields(s, 1) = 1
        PROVE  FieldsFrom(s, 1, 0) = FieldPart(s, 1, 1) \o FieldsFrom(s, 1, 1)
    <3>1. 0 \in 0..Fields(s, 1) - 1 /\ 0 + 1 = 1
      BY <2>3
    <3>2. FieldsFrom(s, 1, 0) = FieldPart(s, 1, 0 + 1) \o FieldsFrom(s, 1, 0 + 1)
      BY <2>1, <3>1
    <3>3. QED
      BY <3>1, <3>2
  <2>4. QED
    BY <2>1, <2>2, <2>3
<1>11. Fields(s, 1) = IF "keep alive" \in G THEN 0 ELSE 1
  BY <1>1, <1>6 DEF Fields
<1>12. x \in Seq(Cells) /\ cc \in Seq(Cells)
  <2>1. /\ "flags1" \in FlagKinds /\ "flags2" \in FlagKinds /\ "field count" \in Numbers
        /\ 1 \in Nat /\ 2 \in Nat /\ 4 \in Nat /\ 8 \in Nat
        /\ "timestamp" \in Skips /\ "picoseconds" \in Skips /\ "message status" \in Skips
        /\ "major" \in Skips /\ "minor" \in Skips /\ "server time" \in Skips
    BY DEF FlagKinds, Numbers, Skips
  <2>2. F \in SUBSET FlagNames /\ G \in SUBSET FlagNames /\ Number(s, 1) \in Residues
    BY <1>2, <1>5, MessageFlags
  <2>3. Number(s, 1) = e.sequence
    BY DEF Number
  <2>4. e.sequence \in Residues
    BY <2>2, <2>3
  <2> HIDE DEF F, G
  <2>5. a \in Seq(Cells) /\ b \in Seq(Cells)
    BY <2>1, <2>2, FlagsCell, Zenon
  <2>6. cc \in Seq(Cells)
    BY <2>1, NumberCell, Zenon
  <2>7. q \in Seq(Cells)
    BY <2>4, SequenceCell, Zenon
  <2>8. t \in Seq(Cells) /\ p \in Seq(Cells) /\ u \in Seq(Cells) /\ j \in Seq(Cells)
        /\ i \in Seq(Cells)
    BY <2>1, SkippedPiece, Zenon
  <2> HIDE DEF a, b, q, t, p, u, j, i
  <2>9. x \in Seq(Cells)
    BY <2>5, <2>7, <2>8, Joined, Zenon
  <2>10. QED
    BY <2>6, <2>9
<1>13. CASE "keep alive" \in G
  <2>1. FieldsFrom(s, 1, 0) = <<>>
    BY <1>10, <1>11, <1>13
  <2>2. c = <<>> /\ If(~("keep alive" \in G), cc \o d \o v \o z \o w \o o \o r) = <<>>
    BY <1>13 DEF If
  <2> HIDE DEF x
  <2>3. x \o <<>> = x
    BY <1>12, JoinNothing, Zenon
  <2>4. QED
    BY <1>7, <1>8, <2>1, <2>2, <2>3
<1>14. CASE ~("keep alive" \in G)
  <2>1. FieldPart(s, 1, 1) \in Seq(Cells) /\ FieldsFrom(s, 1, 0) = y \o <<>>
    <3>1. Fields(s, 1) = 1
      BY <1>11, <1>14
    <3>2. \A k \in 1..Fields(s, 1) : FieldPart(s, 1, k) \in Seq(Cells)
      BY <1>2, FieldsOneByOne
    <3>3. FieldPart(s, 1, 1) \in Seq(Cells)
      BY <3>1, <3>2
    <3> HIDE DEF y
    <3>4. QED
      BY <1>1, <1>10, <3>1, <3>3
  <2>2. FieldsFrom(s, 1, 0) = y /\ y \in Seq(Cells)
    <3>1. y \in Seq(Cells)
      BY <1>1, <2>1
    <3> HIDE DEF y
    <3>2. y \o <<>> = y
      BY <3>1, JoinNothing, Zenon
    <3>3. QED
      BY <2>1, <3>1, <3>2
  <2>3. c = cc /\ If(~("keep alive" \in G), cc \o d \o v \o z \o w \o o \o r)
                    = cc \o d \o v \o z \o w \o o \o r
    BY <1>14 DEF If
  <2>4. cc \o y = cc \o d \o v \o z \o w \o o \o r
    <3>1. RegroupsSix(cc, d, v, z, w, o, r)
      <4>1. /\ d \in Seq(Cells) /\ v \in Seq(Cells) /\ z \in Seq(Cells) /\ w \in Seq(Cells)
            /\ o \in Seq(Cells) /\ r \in Seq(Cells)
        BY ForeignPieces
      <4> HIDE DEF cc, d, v, z, w, o, r
      <4>2. QED
        BY <1>12, <4>1, GroupSix, Zenon
    <3> HIDE DEF cc, d, v, z, w, o, r
    <3>2. QED
      BY <3>1, Zenon DEF RegroupsSix
  <2> HIDE DEF x, y, cc, c, d, v, z, w, o, r
  <2>5. x \o cc \o y = x \o (cc \o y)
    <3>1. Regroups(x, cc, y)
      BY <1>12, <2>2, JoinTwo, Zenon
    <3>2. QED
      BY <3>1, Zenon DEF Regroups
  <2>6. QED
    BY <1>7, <1>8, <2>2, <2>3, <2>4, <2>5
<1>15. QED
  BY <1>13, <1>14

\* A frame of another make is of this layout.
LEMMA ForeignLayout ==
    ASSUME NEW s, Given(s), ~Own(s)
    PROVE  Foreign(s.message, s.key, s.options) = Signed(Body(s), s.key)
<1> DEFINE m == s.message
           X == s.options
           A1 == Cell("flags", Flags(s), 1)
           A2 == Cell("ext1", Ext1(s), 1)
           A3 == If("ext2" \in X, Cell("ext2", Ext2(s), 1))
           I == If("publisher id" \in X, Cell("publisher id", m.pid, PidSize[m.pid_type]))
           C == If("class id" \in X, Cell("class id", None, 16))
           g1 == Cell("group flags", {"group", "group version", "number"}, 1)
           g2 == Cell("group", m.group, 2)
           g3 == Cell("group version", None, 4)
           g4 == Cell("number", None, 2)
           P == If("payload header" \in X, Cell("count", 1, 1) \o Cell("writer id", m.messages[1].writer, 2))
           t1 == If("frame time" \in X, Cell("frame time", None, 8))
           t2 == If("frame picoseconds" \in X, Cell("frame picoseconds", None, 2))
           t3 == If("promoted" \in X, Cell("promoted size", 3, 2) \o Cell("promoted", None, 3))
           K == If(s.key # None, Cell("security flags", {"signed", "footer"} \cup (X \cap {"encrypted"}), 1)
                             \o Cell("token", 7, 4) \o Cell("nonce length", 1, 1)
                             \o Cell("nonce", None, 1) \o Cell("footer size", None, 2))
           F == ForeignBody(m.messages[1], X)
           E == A1 \o A2 \o A3 \o I \o C \o g1 \o g2 \o g3 \o g4 \o P \o t1 \o t2 \o t3 \o K \o F
<1>1. Body(s) = HeaderPart(s) \o IdPart(s) \o GroupPart(s) \o PayloadPart(s) \o TimesPart(s)
                \o SecurityPart(s) \o SizesPart(s) \o MessagesFrom(s, 0)
  BY BodyParts
<1>2. /\ \A x \in {"publisher id", "payload header", "class id", "frame time",
                   "frame picoseconds", "promoted"} : x \in On(s) <=> x \in X
      /\ "group header" \in On(s) /\ "extended" \in Flags(s)
      /\ "security" \in On(s) <=> s.key # None
      /\ "ext2" \in Ext1(s) <=> "ext2" \in X
  BY ForeignAnnounces
<1>3. /\ "publisher id" \in On(s) <=> "publisher id" \in X
      /\ "payload header" \in On(s) <=> "payload header" \in X
      /\ "class id" \in On(s) <=> "class id" \in X
      /\ "frame time" \in On(s) <=> "frame time" \in X
      /\ "frame picoseconds" \in On(s) <=> "frame picoseconds" \in X
      /\ "promoted" \in On(s) <=> "promoted" \in X
  <2> HIDE DEF X
  <2>1. QED
    BY <1>2
<1>4. Foreign(s.message, s.key, X) = Signed(E, s.key)
  <2> DEFINE f == {"extended", "group header"} \cup (X \cap {"publisher id", "payload header"})
             e1 == {m.pid_type} \cup (X \cap {"class id", "frame time", "frame picoseconds", "ext2"})
                   \cup Flag(s.key # None, "security")
             e2 == X \cap {"chunk", "promoted", "discovery"}
             D == Cell("flags", f, 1) \o Cell("ext1", e1, 1) \o If("ext2" \in X, Cell("ext2", e2, 1))
                  \o I \o C \o g1 \o g2 \o g3 \o g4 \o P \o t1 \o t2 \o t3 \o K \o F
  <2>1. Foreign(s.message, s.key, X) = Signed(D, s.key)
    BY DEF Foreign
  <2>2. f = Flags(s) /\ e1 = Ext1(s) /\ e2 = Ext2(s)
    BY DEF Flags, Ext1, Ext2
  <2> HIDE DEF f, e1, e2, I, C, g1, g2, g3, g4, P, t1, t2, t3, K, F
  <2>3. D = E
    BY <2>2
  <2>4. QED
    BY <2>1, <2>3
<1>5. HeaderPart(s) = A1 \o A2 \o A3
  BY <1>2 DEF HeaderPart, If
<1>6. IdPart(s) = I \o C
  BY <1>3 DEF IdPart, If
<1>7. GroupPart(s) = g1 \o g2 \o g3 \o g4 \o <<>>
  <2> DEFINE G == GroupFlags(s)
             q == Cell("group sequence", m.sequence % SeqModulus, 2)
  <2>1. G = {"group", "group version", "number"}
    BY DEF GroupFlags
  <2>2. GroupPart(s) = Cell("group flags", G, 1) \o If("group" \in G, g2) \o If("group version" \in G, g3)
                       \o If("number" \in G, g4) \o If("group sequence" \in G, q)
    BY <1>2 DEF GroupPart, If
  <2> HIDE DEF G
  <2>3. "group" \in G /\ "group version" \in G /\ "number" \in G /\ "group sequence" \notin G
    BY <2>1
  <2>4. If("group" \in G, g2) = g2 /\ If("group version" \in G, g3) = g3
        /\ If("number" \in G, g4) = g4 /\ If("group sequence" \in G, q) = <<>>
    BY <2>3 DEF If
  <2>5. Cell("group flags", G, 1) = g1
    BY <2>1
  <2> HIDE DEF g1, g2, g3, g4, q
  <2>6. QED
    BY <2>2, <2>4, <2>5
<1>8. Count(s) = 1
  BY ForeignField
<1>9. PayloadPart(s) = P
  <2> DEFINE r == [kind |-> "writer id", value |-> m.messages[1].writer, width |-> 2]
  <2>1. Writers(s) = [i \in 1..1 |-> r]
    BY <1>8 DEF Writers
  <2> HIDE DEF r
  <2>2. [i \in 1..1 |-> r] = <<r>>
    OBVIOUS
  <2>3. Cell("writer id", m.messages[1].writer, 2) = <<r>>
    BY DEF Cell, r
  <2>4. PayloadPart(s) = If("payload header" \in X, Cell("count", 1, 1) \o Writers(s))
    BY <1>3, <1>8 DEF PayloadPart, If
  <2>5. QED
    BY <2>1, <2>2, <2>3, <2>4
<1>10. TimesPart(s) = t1 \o t2 \o t3
  BY <1>3 DEF TimesPart, If
<1>11. SecurityPart(s) = K
  <2> DEFINE S == SecurityFlags(s)
  <2>1. S = {"signed", "footer"} \cup (X \cap {"encrypted"}) /\ Token(s) = 7 /\ Nonce(s) = 1
    BY DEF SecurityFlags, Token, Nonce
  <2>2. SecurityPart(s) = If("security" \in On(s),
           Cell("security flags", S, 1) \o Cell("token", 7, 4) \o Cell("nonce length", 1, 1)
           \o Cell("nonce", None, 1) \o If("footer" \in S, Cell("footer size", None, 2)))
    BY <2>1 DEF SecurityPart
  <2> HIDE DEF S
  <2>3. "footer" \in S
    BY <2>1
  <2>4. If("footer" \in S, Cell("footer size", None, 2)) = Cell("footer size", None, 2)
    BY <2>3 DEF If
  <2>5. QED
    BY <1>2, <2>1, <2>2, <2>4 DEF If
<1>12. SizesPart(s) = <<>>
  BY <1>8 DEF SizesPart, If
<1>13. MessagesFrom(s, 0) = F \o <<>>
  <2>1. /\ \A n \in 0..Count(s) - 1 :
                 MessagesFrom(s, n) = DataSetPart(s, n + 1) \o MessagesFrom(s, n + 1)
        /\ MessagesFrom(s, Count(s)) = <<>>
    BY MessagesOneByOne
  <2>2. 0 \in 0..Count(s) - 1 /\ 0 + 1 = 1
    BY <1>8
  <2>3. MessagesFrom(s, 0) = DataSetPart(s, 0 + 1) \o MessagesFrom(s, 0 + 1)
    BY <2>1, <2>2
  <2>4. MessagesFrom(s, 1) = <<>>
    BY <1>8, <2>1
  <2>5. DataSetPart(s, 1) = F
    BY ForeignMessage
  <2> HIDE DEF F
  <2>6. QED
    BY <2>2, <2>3, <2>4, <2>5
<1>14. F \in Seq(Cells)
  <2>1. 1 \in 1..Count(s)
    BY <1>8
  <2>2. DataSetPart(s, 1) \in Seq(Cells)
    BY <2>1, MessagesOneByOne
  <2>3. QED
    BY <2>2, ForeignMessage
<1>15. /\ HeaderPart(s) \in Seq(Cells) /\ IdPart(s) \in Seq(Cells) /\ GroupPart(s) \in Seq(Cells)
       /\ PayloadPart(s) \in Seq(Cells) /\ TimesPart(s) \in Seq(Cells) /\ SecurityPart(s) \in Seq(Cells)
  BY PartsAreCells
<1>16. I \in Seq(Cells) /\ C \in Seq(Cells)
  <2>1. "class id" \in Skips /\ "publisher id" \in Numbers /\ 16 \in Nat
    BY DEF Skips, Numbers
  <2>2. m.pid \in Nat /\ PidSize[m.pid_type] \in Nat
    BY GivenTyped
  <2>3. Cell("publisher id", m.pid, PidSize[m.pid_type]) \in Seq(Cells)
    BY <2>1, <2>2, NumberCell, Zenon
  <2>4. C \in Seq(Cells)
    BY <2>1, SkippedPiece, Zenon
  <2>5. I \in Seq(Cells)
    BY <2>3, GivenCells, Zenon
  <2>6. QED
    BY <2>4, <2>5
<1>17. g1 \in Seq(Cells) /\ g2 \in Seq(Cells) /\ g3 \in Seq(Cells) /\ g4 \in Seq(Cells)
  <2>1. "group flags" \in FlagKinds /\ 1 \in Nat /\ 2 \in Nat /\ 4 \in Nat
        /\ "group version" \in Skips /\ "number" \in Skips
    BY DEF FlagKinds, Skips
  <2>2. {"group", "group version", "number"} \in SUBSET FlagNames
    BY DEF FlagNames
  <2>3. m.group \in Nat \cup {None}
    BY GivenTyped
  <2>4. g1 \in Seq(Cells)
    BY <2>1, <2>2, FlagsCell, Zenon
  <2>5. g2 \in Seq(Cells)
    BY <2>3, GroupCell, Zenon
  <2>6. g3 \in Seq(Cells) /\ g4 \in Seq(Cells)
    BY <2>1, SkippedCell, Zenon
  <2>7. QED
    BY <2>4, <2>5, <2>6
<1>18. t1 \in Seq(Cells) /\ t2 \in Seq(Cells) /\ t3 \in Seq(Cells)
  <2>1. "frame time" \in Skips /\ "frame picoseconds" \in Skips /\ "promoted" \in Skips
        /\ "promoted size" \in Numbers /\ 2 \in Nat /\ 3 \in Nat /\ 8 \in Nat
    BY DEF Skips, Numbers
  <2>2. t1 \in Seq(Cells) /\ t2 \in Seq(Cells)
    BY <2>1, SkippedPiece, Zenon
  <2>3. Cell("promoted size", 3, 2) \in Seq(Cells)
    BY <2>1, NumberCell, Zenon
  <2>4. Cell("promoted", None, 3) \in Seq(Cells)
    BY <2>1, SkippedCell, Zenon
  <2>5. t3 \in Seq(Cells)
    BY <2>3, <2>4, Joined, GivenCells, Zenon
  <2>6. QED
    BY <2>2, <2>5
<1> DEFINE H == A1 \o A2 \o A3
<1> HIDE DEF A1, A2, A3, I, C, g1, g2, g3, g4, P, t1, t2, t3, K, F, E
<1>19. E = H \o I \o C \o g1 \o g2 \o g3 \o g4 \o P \o t1 \o t2 \o t3 \o K \o F
  BY DEF E
<1>20. H \in Seq(Cells) /\ P \in Seq(Cells) /\ K \in Seq(Cells)
  BY <1>5, <1>9, <1>11, <1>15
<1> DEFINE G == g1 \o g2 \o g3 \o g4
           T == t1 \o t2 \o t3
<1>21. G \in Seq(Cells)
  <2>1. g1 \o g2 \in Seq(Cells)
    BY <1>17, JoinTwo, Zenon
  <2>2. g1 \o g2 \o g3 \in Seq(Cells)
    BY <1>17, <2>1, JoinTwo, Zenon
  <2>3. QED
    BY <1>17, <2>2, JoinTwo, Zenon
<1>22. G \o <<>> = G
  <2> HIDE DEF G
  <2>1. QED
    BY <1>21, JoinNothing, Zenon
<1>23. F \o <<>> = F
  BY <1>14, JoinNothing, Zenon
<1> HIDE DEF H
<1> DEFINE Y1 == H \o I \o C
           Y2 == Y1 \o g1 \o g2 \o g3 \o g4
           Y3 == Y2 \o P
           Y4 == Y3 \o t1 \o t2 \o t3
<1>24. E = Y4 \o K \o F
  BY <1>19
<1>25. Y1 = H \o (I \o C) /\ Y1 \in Seq(Cells)
  <2>1. Regroups(H, I, C) /\ H \o I \in Seq(Cells)
    BY <1>16, <1>20, JoinTwo, Zenon
  <2>2. Y1 \in Seq(Cells)
    BY <1>16, <2>1, JoinTwo, Zenon
  <2>3. Y1 = H \o (I \o C)
    BY <2>1, Zenon DEF Regroups
  <2>4. QED
    BY <2>2, <2>3
<1> HIDE DEF Y1
<1>26. Y2 = Y1 \o G /\ Y2 \in Seq(Cells)
  <2>1. RegroupsFour(Y1, g1, g2, g3, g4)
    BY <1>17, <1>25, GroupFour, Zenon
  <2>2. Y2 = Y1 \o G
    BY <2>1, Zenon DEF RegroupsFour
  <2>3. Y1 \o G \in Seq(Cells)
    <3> HIDE DEF G
    <3>1. QED
      BY <1>21, <1>25, JoinTwo, Zenon
  <2> HIDE DEF Y2, G
  <2>4. QED
    BY <2>2, <2>3
<1> HIDE DEF Y2, G
<1>27. Y3 \in Seq(Cells)
  BY <1>20, <1>26, JoinTwo, Zenon
<1> HIDE DEF Y3
<1>28. Y4 = Y3 \o T
  <2>1. RegroupsThree(Y3, t1, t2, t3)
    BY <1>18, <1>27, GroupThree, Zenon
  <2>2. QED
    BY <2>1, Zenon DEF RegroupsThree
<1>29. Y4 \in Seq(Cells)
  <2>1. Y3 \o t1 \in Seq(Cells)
    BY <1>18, <1>27, JoinTwo, Zenon
  <2>2. Y3 \o t1 \o t2 \in Seq(Cells)
    BY <1>18, <2>1, JoinTwo, Zenon
  <2>3. QED
    BY <1>18, <2>2, JoinTwo, Zenon
<1> HIDE DEF Y4
<1>30. Y4 \o K \o <<>> = Y4 \o K
  <2>1. Y4 \o K \in Seq(Cells)
    BY <1>20, <1>29, JoinTwo, Zenon
  <2>2. QED
    BY <2>1, JoinNothing, Zenon
<1>31. Body(s) = H \o (I \o C) \o (g1 \o g2 \o g3 \o g4 \o <<>>) \o P \o T \o K \o <<>> \o (F \o <<>>)
  BY <1>1, <1>5, <1>6, <1>7, <1>9, <1>10, <1>11, <1>12, <1>13 DEF H, T
<1>32. Body(s) = H \o (I \o C) \o G \o P \o T \o K \o <<>> \o F
  <2>1. g1 \o g2 \o g3 \o g4 \o <<>> = G
    BY <1>22 DEF G
  <2> HIDE DEF T
  <2>2. QED
    BY <1>23, <1>31, <2>1, Zenon
<1>33. Body(s) = Y4 \o K \o <<>> \o F
  BY <1>25, <1>26, <1>28, <1>32, Zenon DEF Y3
<1>34. Body(s) = E
  BY <1>24, <1>30, <1>33, Zenon
<1>35. QED
  BY <1>4, <1>34

=============================================================================
