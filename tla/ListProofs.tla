----------------------------- MODULE ListProofs -----------------------------
(***************************************************************************)
(* Proofs about the three components that are made of lists, for lists of  *)
(* every length: CitiImport, whose texts become records and chunks of any  *)
(* size, AllegroPayments, whose pages of orders become payments, and       *)
(* Suggestions, whose snapshots of transactions become ranked categories.  *)
(* Lists are flattened, mapped, filtered, summed, folded and sorted, and   *)
(* the first lemmas of each part say what that gives.                      *)
(***************************************************************************)
EXTENDS CitiImport, AllegroPayments, Suggestions, SequenceTheorems, FiniteSetTheorems,
        WellFoundedInduction, TLAPS

-----------------------------------------------------------------------------
(* Numbers.                                                                *)

LEMMA LeastExists ==
  ASSUME NEW D \in SUBSET Nat, D # {}
  PROVE  \E d \in D : \A e \in D : d <= e
<1>1. PICK d \in D : \A e \in D : <<e, d>> \notin OpToRel(<, Nat)
  BY WFMin, NatLessThanWellFounded
<1>2. \A e \in D : ~(e < d)
  BY <1>1 DEF OpToRel
<1>3. \A e \in D : e \in Nat
  OBVIOUS
<1>4. \A e \in D : d <= e
  BY <1>2, <1>3
<1>5. QED
  BY <1>4

LEMMA Division ==
  ASSUME NEW a \in Nat, NEW s \in Nat \ {0}
  PROVE  /\ a \div s \in Nat
         /\ (a \div s) * s <= a
         /\ a < (a \div s) * s + s
OBVIOUS

LEMMA MultiplesOf ==
  ASSUME NEW a \in Nat, NEW b \in Nat, a <= b, NEW s \in Nat
  PROVE  a * s \in Nat /\ a * s <= b * s
OBVIOUS

LEMMA NextMultiple ==
  ASSUME NEW a \in Nat, NEW s \in Nat
  PROVE  (a + 1) * s = a * s + s
OBVIOUS

-----------------------------------------------------------------------------
(* Lists flattened.                                                        *)

(* The lists g begin with the first part and add one part each.            *)
Flattens(g, c, m) == g = [i \in 1 .. m |-> IF i = 1 THEN c[i] ELSE g[i - 1] \o c[i]]

LEMMA FlattensAt ==
  ASSUME NEW c, NEW m \in Nat, NEW g, Flattens(g, c, m), NEW k \in 1 .. m
  PROVE  g[k] = IF k = 1 THEN c[k] ELSE g[k - 1] \o c[k]
BY DEF Flattens

(* FlattenSeq is the last of them.                                         *)
LEMMA FlattenIs ==
  ASSUME NEW c, NEW m \in Nat \ {0}, Len(c) = m,
         NEW g, Flattens(g, c, m)
  PROVE  FlattenSeq(c) = g[m]
<1>1. ASSUME NEW f, Flattens(f, c, m) PROVE f = g
  <2> DEFINE D == {i \in 1 .. m : f[i] # g[i]}
  <2>1. CASE D # {}
    <3>1. PICK d \in D : \A e \in D : d <= e
      <4>1. D \in SUBSET Nat
        OBVIOUS
      <4> HIDE DEF D
      <4>2. QED
        BY <2>1, <4>1, LeastExists
    <3>2. d # 1 => d - 1 \in 1 .. m /\ d - 1 \notin D
      BY <3>1
    <3>3. d \in 1 .. m /\ f[d] # g[d]
      BY <3>1, ZenonT(30)
    <3>4. CASE d = 1
      <4>1. f[d] = c[d] /\ g[d] = c[d]
        BY <1>1, <3>3, <3>4, FlattensAt
      <4>2. QED
        BY <3>3, <4>1
    <3>5. CASE d # 1
      <4>1. f[d] = f[d - 1] \o c[d] /\ g[d] = g[d - 1] \o c[d]
        <5>1. f[d] = IF d = 1 THEN c[d] ELSE f[d - 1] \o c[d]
          BY <1>1, <3>3, FlattensAt, SMTT(30)
        <5>2. g[d] = IF d = 1 THEN c[d] ELSE g[d - 1] \o c[d]
          BY <3>3, FlattensAt, SMTT(30)
        <5>3. QED
          BY <3>5, <5>1, <5>2
      <4>2. f[d - 1] = g[d - 1]
        BY <3>2, <3>5, ZenonT(30)
      <4>3. QED
        BY <3>3, <4>1, <4>2
    <3>6. QED
      BY <3>4, <3>5
  <2>2. CASE D = {}
    <3>1. f = [i \in 1 .. m |-> f[i]] /\ g = [i \in 1 .. m |-> g[i]]
      BY <1>1 DEF Flattens
    <3>2. \A i \in 1 .. m : f[i] = g[i]
      BY <2>2
    <3> HIDE DEF D
    <3>3. [i \in 1 .. m |-> f[i]] = [i \in 1 .. m |-> g[i]]
      BY <3>2
    <3>4. QED
      BY <3>1, <3>3, Zenon
  <2>3. QED
    BY <2>1, <2>2
<1>2. Flattens(CHOOSE f : Flattens(f, c, m), c, m)
  OBVIOUS
<1>3. FlattenSeq(c) = (CHOOSE f : Flattens(f, c, m))[m]
  BY DEF FlattenSeq, Flattens
<1>4. QED
  BY <1>1, <1>2, <1>3

-----------------------------------------------------------------------------
(* The archive.                                                            *)

(* Records 1 to n in chunks of s: how many there are, and where the k-th   *)
(* begins and ends.                                                        *)
LEMMA ChunkBounds ==
  ASSUME NEW n \in Nat \ {0}, NEW s \in Nat \ {0}
  PROVE  LET m == (n - 1) \div s + 1
         IN /\ m \in Nat \ {0}
            /\ n <= m * s
            /\ \A k \in 1 .. m : /\ (k - 1) * s \in Nat /\ (k - 1) * s < n
                                 /\ k * s = (k - 1) * s + s
<1> PICK q : q = (n - 1) \div s
  OBVIOUS
<1>1. n - 1 \in Nat /\ s \in Nat
  OBVIOUS
<1>2. q \in Nat /\ q * s \in Nat /\ q * s <= n - 1 /\ n - 1 < q * s + s
  BY <1>1, Division, MultiplesOf
<1>3. q + 1 \in Nat \ {0} /\ (q + 1) * s = q * s + s
  BY <1>1, <1>2, NextMultiple
<1>4. n <= (q + 1) * s
  BY <1>1, <1>2, <1>3
<1>5. ASSUME NEW k \in 1 .. q + 1
      PROVE  /\ (k - 1) * s \in Nat /\ (k - 1) * s < n
             /\ k * s = (k - 1) * s + s
  <2> PICK j : j = k - 1
    OBVIOUS
  <2>1. j \in Nat /\ j <= q /\ k = j + 1
    BY <1>2
  <2>2. j * s \in Nat /\ j * s <= q * s
    BY <1>1, <1>2, <2>1, MultiplesOf
  <2>3. (j + 1) * s = j * s + s
    BY <1>1, <2>1, NextMultiple
  <2>4. QED
    BY <1>1, <1>2, <2>1, <2>2, <2>3
<1>6. QED
  BY <1>3, <1>4, <1>5

(* The chunks are the records, cut.                                        *)
LEMMA ChunksPartition ==
  ASSUME NEW S, NEW records \in Seq(S), NEW size \in Nat \ {0}
  PROVE  LET c == Chunks(records, size)
         IN /\ c \in Seq(Seq(S)) /\ Len(c) \in Nat \ {0}
            /\ FlattenSeq(c) = records
            /\ \A k \in DOMAIN c : /\ Len(c[k]) <= size
                                   /\ c[k] = <<>> => records = <<>>
<1> PICK c : c = Chunks(records, size)
  OBVIOUS
<1> SUFFICES /\ c \in Seq(Seq(S)) /\ Len(c) \in Nat \ {0}
             /\ FlattenSeq(c) = records
             /\ \A k \in DOMAIN c : /\ Len(c[k]) <= size
                                    /\ c[k] = <<>> => records = <<>>
  OBVIOUS
<1>1. CASE records = <<>>
  <2>1. c = << <<>> >>
    BY <1>1 DEF Chunks
  <2>2. /\ c \in Seq(Seq(S)) /\ Len(c) = 1 /\ DOMAIN c = {1} /\ c[1] = <<>>
        /\ Len(c[1]) <= size
    BY <2>1
  <2>3. Flattens(c, c, 1)
    BY <2>1 DEF Flattens
  <2>4. FlattenSeq(c) = c[1]
    <3>1. 1 \in Nat \ {0}
      OBVIOUS
    <3>2. QED
      BY <2>2, <2>3, <3>1, FlattenIs
  <2>5. QED
    BY <1>1, <2>2, <2>4
<1>2. CASE records # <<>>
  <2> PICK n : n = Len(records)
    OBVIOUS
  <2> PICK m : m = (n - 1) \div size + 1
    OBVIOUS
  <2> DEFINE from(k) == (k - 1) * size
             to(k) == IF k * size < n THEN k * size ELSE n
             g == [k \in 1 .. m |-> SubSeq(records, 1, to(k))]
  <2>1. n \in Nat \ {0} /\ size \in Nat /\ size >= 1
    BY <1>2, LenProperties, EmptySeq
  <2>2. /\ m \in Nat \ {0} /\ n <= m * size
        /\ \A k \in 1 .. m : /\ from(k) \in Nat /\ from(k) < n
                             /\ k * size = from(k) + size
    BY <2>1, ChunkBounds
  <2>3. c = [k \in 1 .. m |-> SubSeq(records, from(k) + 1, to(k))]
    BY <1>2 DEF Chunks
  <2>4. \A k \in 1 .. m : /\ to(k) \in Nat /\ from(k) + 1 <= to(k)
                          /\ to(k) <= n /\ to(k) - from(k) <= size
    <3> TAKE k \in 1 .. m
    <3> PICK a : a = from(k)
      OBVIOUS
    <3>1. a \in Nat /\ a < n /\ k * size = a + size
      BY <2>2
    <3>2. to(k) = IF a + size < n THEN a + size ELSE n
      BY <3>1
    <3> HIDE DEF to, from
    <3>3. QED
      BY <2>1, <3>1, <3>2
  <2> HIDE DEF from, to
  <2>5. \A i \in 1 .. n : records[i] \in S
    BY ElementOfSeq
  <2>6. ASSUME NEW k \in 1 .. m
        PROVE  /\ c[k] \in Seq(S) /\ Len(c[k]) = to(k) - from(k)
               /\ Len(c[k]) <= size /\ c[k] # <<>>
    <3> PICK a : a = from(k) + 1
      OBVIOUS
    <3> PICK b : b = to(k)
      OBVIOUS
    <3>1. a \in Nat /\ b \in Nat /\ 1 <= a /\ a <= b /\ b <= n /\ b - (a - 1) <= size
      BY <2>2, <2>4
    <3>2. c[k] = SubSeq(records, a, b)
      BY <2>3
    <3>3. \A i \in a .. b : records[i] \in S
      BY <2>5, <3>1, <2>1
    <3>4. c[k] \in Seq(S) /\ Len(c[k]) = b - a + 1
      BY <3>1, <3>2, <3>3, SubSeqProperties, SMTT(30)
    <3>5. b - a + 1 = to(k) - from(k)
      BY <2>2, <3>1, SMTT(30)
    <3>6. Len(c[k]) <= size /\ Len(c[k]) # 0
      BY <2>1, <3>1, <3>4
    <3>7. QED
      BY <3>4, <3>5, <3>6, EmptySeq
  <2>7. c \in Seq(Seq(S)) /\ Len(c) = m /\ DOMAIN c = 1 .. m
    <3>1. c \in [1 .. m -> Seq(S)]
      BY <2>3, <2>6
    <3>2. m \in Nat
      BY <2>2
    <3>3. QED
      BY <3>1, <3>2
  <2>8. Flattens(g, c, m)
    <3>1. ASSUME NEW k \in 1 .. m, k = 1
          PROVE  SubSeq(records, 1, to(k)) = c[k]
      <4>1. from(k) + 1 = 1
        BY <2>1, <3>1 DEF from
      <4>2. QED
        BY <2>3, <4>1
    <3>2. ASSUME NEW k \in 1 .. m, k # 1
          PROVE  /\ k - 1 \in 1 .. m
                 /\ SubSeq(records, 1, to(k)) = SubSeq(records, 1, to(k - 1)) \o c[k]
      <4> PICK a : a = from(k)
        OBVIOUS
      <4>1. k - 1 \in 1 .. m
        BY <2>2, <3>2
      <4>2. a \in Nat /\ a < n /\ a = (k - 1) * size
        BY <2>2 DEF from
      <4>3. to(k - 1) = a
        BY <4>2 DEF to
      <4>4. to(k) \in Nat /\ a <= to(k) /\ to(k) <= n
        <5>1. a \in Nat /\ to(k) \in Nat /\ a + 1 <= to(k) /\ to(k) <= n
          BY <2>4, <4>2
        <5>2. QED
          BY <5>1
      <4>5. SubSeq(records, 1, a) \o SubSeq(records, a + 1, to(k)) = SubSeq(records, 1, to(k))
        <5>1. n \in Nat /\ a \in Nat
          BY <2>1, <4>2
        <5>2. /\ 1 \in 1 .. Len(records) + 1 /\ a \in 1 - 1 .. Len(records)
              /\ to(k) \in a .. Len(records)
          BY <4>4, <5>1
        <5>3. QED
          BY <5>2, ConcatAdjacentSubSeq
      <4>6. QED
        BY <2>3, <4>1, <4>3, <4>5
    <3>3. \A k \in 1 .. m : g[k] = IF k = 1 THEN c[k] ELSE g[k - 1] \o c[k]
      BY <3>1, <3>2
    <3>4. QED
      BY <3>3 DEF Flattens
  <2>9. FlattenSeq(c) = g[m]
    <3> HIDE DEF g
    <3>1. QED
      BY <2>2, <2>7, <2>8, FlattenIs
  <2>10. g[m] = records
    <3>1. to(m) = n
      BY <2>1, <2>2 DEF to
    <3>2. g[m] = SubSeq(records, 1, n)
      BY <2>2, <3>1
    <3>3. QED
      BY <3>2, SubSeqFull
  <2>11. QED
    BY <1>2, <2>2, <2>6, <2>7, <2>9, <2>10
<1>3. QED
  BY <1>1, <1>2

(* Members of an archive have names of their own, and hold the chunks.     *)
LEMMA ArchivePartitions ==
  ASSUME NEW records \in Seq(Transactions), NEW size \in Nat \ {0}
  PROVE  LET a == Archive(records, size)
         IN /\ FlattenSeq([k \in DOMAIN a |-> a[k].rows]) = records
            /\ \A k \in DOMAIN a : /\ a[k].rows \in Seq(Transactions)
                                   /\ Len(a[k].rows) <= size
                                   /\ a[k].rows = <<>> => records = <<>>
            /\ IsInjective([k \in DOMAIN a |-> a[k].name])
<1> PICK c : c = Chunks(records, size)
  OBVIOUS
<1> PICK a : a = Archive(records, size)
  OBVIOUS
<1> SUFFICES /\ FlattenSeq([k \in DOMAIN a |-> a[k].rows]) = records
             /\ \A k \in DOMAIN a : /\ a[k].rows \in Seq(Transactions)
                                    /\ Len(a[k].rows) <= size
                                    /\ a[k].rows = <<>> => records = <<>>
             /\ IsInjective([k \in DOMAIN a |-> a[k].name])
  OBVIOUS
<1>1. /\ c \in Seq(Seq(Transactions)) /\ Len(c) \in Nat \ {0}
      /\ FlattenSeq(c) = records
      /\ \A k \in DOMAIN c : /\ Len(c[k]) <= size
                             /\ c[k] = <<>> => records = <<>>
  BY ChunksPartition
<1>2. DOMAIN c = 1 .. Len(c) /\ c = [k \in DOMAIN c |-> c[k]]
  BY <1>1, LenProperties
<1>3. a = [k \in DOMAIN c |-> Member(records, c, k)]
  BY DEF Archive
<1>4. DOMAIN a = DOMAIN c /\ \A k \in DOMAIN c : a[k].rows = c[k]
  BY <1>3 DEF Member
<1>5. [k \in DOMAIN a |-> a[k].rows] = [k \in DOMAIN c |-> c[k]]
  BY <1>4
<1>6. \A k \in DOMAIN c : c[k] \in Seq(Transactions)
  BY <1>1, <1>2, ElementOfSeq
<1>7. ASSUME NEW k \in DOMAIN a, NEW l \in DOMAIN a, a[k].name = a[l].name
      PROVE  k = l
  <2>1. CASE Len(c) > 1
    <3> PICK n : n = ExportName(records)
      OBVIOUS
    <3>1. a[k].name = Append(n, k) /\ a[l].name = Append(n, l)
      BY <1>3, <1>4, <2>1 DEF Member
    <3>2. n \in Seq(Nat)
      <4>1. CASE records = <<>>
        BY <4>1 DEF ExportName
      <4>2. CASE records # <<>>
        <5>1. Len(records) \in Nat /\ Len(records) # 0
          BY <4>2, LenProperties, EmptySeq
        <5>2. records[1] \in Transactions /\ records[Len(records)] \in Transactions
          BY <5>1, ElementOfSeq
        <5>3. n = <<records[1].date, records[Len(records)].date>>
          BY <4>2 DEF ExportName, Last
        <5>4. records[1].date \in Nat /\ records[Len(records)].date \in Nat
          BY <5>2 DEF Transactions
        <5>5. QED
          BY <5>3, <5>4
      <4>3. QED
        BY <4>1, <4>2
    <3>3. k \in Nat /\ l \in Nat
      BY <1>1, <1>2, <1>4
    <3>4. Append(n, k)[Len(n) + 1] = k /\ Append(n, l)[Len(n) + 1] = l
      BY <3>2, <3>3, AppendProperties
    <3>5. QED
      BY <1>7, <3>1, <3>4
  <2>2. CASE ~(Len(c) > 1)
    BY <1>1, <1>2, <1>4, <2>2
  <2>3. QED
    BY <2>1, <2>2
<1>8. IsInjective([k \in DOMAIN a |-> a[k].name])
  BY <1>7 DEF IsInjective
<1>9. FlattenSeq([k \in DOMAIN a |-> a[k].rows]) = records
  BY <1>1, <1>2, <1>5
<1>10. QED
  BY <1>1, <1>4, <1>6, <1>8, <1>9

-----------------------------------------------------------------------------
(* The blocks of a text.                                                   *)

(* S are the dates before line end that begin a block.                     *)
BlocksTo(lines, end, S) ==
  /\ S \subseteq Dates(lines)
  /\ \A i \in S : i < end
  /\ \A i \in Dates(lines) : i < end => (i \in S <=> S \intersect (i-3)..(i-1) = {})

LEMMA DatesAreNumbers ==
  ASSUME NEW lines \in Seq(Lines)
  PROVE  Dates(lines) \in SUBSET (Nat \ {0}) /\ \A i \in Dates(lines) : i <= Len(lines)
BY LenProperties DEF Dates

(* There is one such set for a text, so the loop finds the blocks that     *)
(* Starts defines.                                                         *)
LEMMA BlocksUnique ==
  ASSUME NEW lines \in Seq(Lines), NEW S,
         BlocksTo(lines, Len(lines) + 1, S)
  PROVE  S = Starts(lines)
<1> DEFINE P(T) == \A i \in Dates(lines) : i \in T <=> T \intersect (i-3)..(i-1) = {}
<1>1. /\ Dates(lines) \in SUBSET (Nat \ {0})
      /\ \A i \in Dates(lines) : i < Len(lines) + 1
  BY DatesAreNumbers, LenProperties
<1>2. S \in SUBSET Dates(lines) /\ P(S)
  BY <1>1 DEF BlocksTo
<1>3. ASSUME NEW T \in SUBSET Dates(lines), P(T) PROVE T = S
  <2> DEFINE D == {i \in Dates(lines) : ~(i \in T <=> i \in S)}
  <2>1. CASE D # {}
    <3>1. PICK d \in D : \A e \in D : d <= e
      <4>1. D \in SUBSET Nat
        BY <1>1
      <4> HIDE DEF D
      <4>2. QED
        BY <2>1, <4>1, LeastExists
    <3>2. d \in Dates(lines) /\ d \in Nat /\ ~(d \in T <=> d \in S)
      BY <1>1, <3>1
    <3>3. \A i \in (d-3)..(d-1) : i \in Dates(lines) => (i \in T <=> i \in S)
      BY <1>1, <3>1, <3>2
    <3>4. T \intersect (d-3)..(d-1) = S \intersect (d-3)..(d-1)
      BY <1>2, <3>3
    <3>5. QED
      BY <1>2, <1>3, <3>2, <3>4
  <2>2. CASE D = {}
    BY <1>2, <2>2
  <2>3. QED
    BY <2>1, <2>2
<1> HIDE DEF P
<1>4. Starts(lines) = CHOOSE T \in SUBSET Dates(lines) : P(T)
  BY DEF Starts, P
<1>5. (CHOOSE T \in SUBSET Dates(lines) : P(T)) = S
  BY <1>2, <1>3
<1>6. QED
  BY <1>4, <1>5

(* A date that comes after the blocks before it begins one; the three      *)
(* lines that follow it do not.                                            *)
LEMMA BlockAdded ==
  ASSUME NEW lines \in Seq(Lines), NEW S, NEW i \in Dates(lines), NEW end \in Nat,
         BlocksTo(lines, i, S), \A j \in S : j + 4 <= i, i < end,
         end = i + 4 \/ Len(lines) < i + 3
  PROVE  BlocksTo(lines, end, S \union {i})
<1> PICK T : T = S \union {i}
  OBVIOUS
<1>1. /\ Dates(lines) \in SUBSET Nat /\ \A j \in Dates(lines) : j <= Len(lines)
      /\ S \subseteq Dates(lines) /\ Len(lines) \in Nat
  BY DatesAreNumbers, LenProperties DEF BlocksTo
<1>2. \A j \in T : j < end
  BY <1>1 DEF BlocksTo
<1>3. ASSUME NEW j \in Dates(lines), j < i
      PROVE  j \in T <=> T \intersect (j-3)..(j-1) = {}
  <2>1. j \in T <=> j \in S
    BY <1>1, <1>3
  <2>2. T \intersect (j-3)..(j-1) = S \intersect (j-3)..(j-1)
    BY <1>1, <1>3
  <2>3. QED
    BY <1>3, <2>1, <2>2 DEF BlocksTo
<1>4. T \intersect (i-3)..(i-1) = {}
  BY <1>1
<1>5. ASSUME NEW j \in Dates(lines), i < j, j < end
      PROVE  j \notin T /\ i \in T \intersect (j-3)..(j-1)
  <2>1. i \in Nat /\ j \in Nat /\ j <= i + 3
    BY <1>1, <1>5
  <2>2. j \notin S
    BY <1>1, <2>1, <1>5 DEF BlocksTo
  <2>3. QED
    BY <1>5, <2>1, <2>2
<1>6. ASSUME NEW j \in Dates(lines), j < end
      PROVE  j \in T <=> T \intersect (j-3)..(j-1) = {}
  <2>1. j < i \/ j = i \/ i < j
    BY <1>1
  <2>2. QED
    BY <1>3, <1>4, <1>5, <1>6, <2>1
<1>7. QED
  BY <1>1, <1>2, <1>6 DEF BlocksTo

(* A longer ascending list.                                                *)
LEMMA AscendingAppend ==
  ASSUME NEW list \in Seq(Nat), NEW T, Ascending(list, T), NEW i \in Nat,
         \A j \in T : j < i
  PROVE  Ascending(Append(list, i), T \union {i})
<1> PICK new : new = Append(list, i)
  OBVIOUS
<1>1. PICK n \in Nat : n = Len(list) /\ DOMAIN list = 1 .. n
  BY LenProperties
<1>2. /\ DOMAIN new = 1 .. n + 1
      /\ \A k \in 1 .. n : new[k] = list[k]
      /\ new[n + 1] = i
  BY <1>1, AppendProperties, LenProperties
<1>3. 1 .. n + 1 = (1 .. n) \union {n + 1}
  BY <1>1
<1>4. {list[k] : k \in 1 .. n} = T
  BY <1>1 DEF Ascending, ToSet
<1>5. ToSet(new) = T \union {i}
  <2>1. ToSet(new) = {new[k] : k \in 1 .. n + 1}
    BY <1>2 DEF ToSet
  <2>2. QED
    BY <1>2, <1>3, <1>4, <2>1
<1>6. ASSUME NEW k \in 1 .. n + 1, NEW l \in 1 .. n + 1, k < l
      PROVE  new[k] < new[l]
  <2>1. k \in 1 .. n
    BY <1>1, <1>6
  <2>2. CASE l \in 1 .. n
    BY <1>1, <1>2, <1>6, <2>1, <2>2 DEF Ascending
  <2>3. CASE l = n + 1
    <3>1. list[k] \in T
      BY <1>4, <2>1
    <3>2. QED
      BY <1>2, <2>1, <2>3, <3>1
  <2>4. QED
    BY <1>3, <2>2, <2>3
<1>7. QED
  BY <1>2, <1>5, <1>6 DEF Ascending

-----------------------------------------------------------------------------
(* The invariant.                                                          *)

Uploads ==
  [file : FileIds, lines : Seq(Lines), positive : BOOLEAN, size : Sizes,
   index : Nat \ {0}, transactions : Seq(Transactions), warnings : Seq(Nat)]

Tales ==
  [lines : Seq(Lines), positive : BOOLEAN, size : Sizes,
   records : Seq(Transactions), warnings : Seq(Nat)]

(* What would be told of an upload that ended where it is.                 *)
Tale(u) ==
  [lines |-> u.lines, positive |-> u.positive, size |-> u.size,
   records |-> u.transactions, warnings |-> u.warnings]

EntryOf(t) == [records |-> t.records, warnings |-> t.warnings, size |-> t.size]

(* The records and the warnings of t are those of the blocks that S begins.*)
Accounted(t, S) ==
  /\ Ascending([k \in DOMAIN t.records |-> t.records[k].date], {i \in S : Wanted(t, i)})
  /\ \A k \in DOMAIN t.records : t.records[k] = Transaction(t.records[k].date)
  /\ Ascending(t.warnings, {i \in S : ~Wanted(t, i) /\ ~Unwanted(t, i)})

(* The loop has accounted for the blocks before its index, and as long as  *)
(* it goes on, it is past the last of them.                                *)
Parsed(u) ==
  /\ u.index <= Len(u.lines) + 1
  /\ \E S \in SUBSET Dates(u.lines) :
       /\ BlocksTo(u.lines, u.index, S)
       /\ u.index <= Len(u.lines) => \A i \in S : i + 4 <= u.index
       /\ Accounted(Tale(u), S)

UploadInv == upload # None => upload \in Uploads /\ Parsed(upload)

ToldInv ==
  /\ DOMAIN told = FileIds
  /\ \A f \in FileIds :
       told[f] # None => told[f] \in Tales /\ Accounted(told[f], Starts(told[f].lines))

FilesInv ==
  /\ DOMAIN files = FileIds
  /\ \A f \in FileIds :
       files[f] # None => told[f] \in Tales /\ files[f] = EntryOf(told[f])

(* An answer about a file is made of what was told of it.                  *)
Answers(r) ==
  /\ r.status \in {200, 400, 404}
  /\ r.file \in FileIds \union {None}
  /\ r.status # 200 => r.archive = <<>>
  /\ r.status = 200 =>
       LET t == told[r.file]
       IN /\ r.file \in FileIds
          /\ t \in Tales
          /\ r.records = t.records
          /\ r.archive \in {<<>>, Archive(t.records, t.size)}

ReplyInv == reply # None => Answers(reply)

CitiInv == UploadInv /\ ToldInv /\ FilesInv /\ ReplyInv

-----------------------------------------------------------------------------
(* One block more.  What a block gives depends on the text and on whether  *)
(* credits are asked for.                                                  *)

SameText(t, u) == u.lines = t.lines /\ u.positive = t.positive

LEMMA SameBlocks ==
  ASSUME NEW t, NEW u, SameText(t, u)
  PROVE  \A i : (Wanted(u, i) <=> Wanted(t, i)) /\ (Unwanted(u, i) <=> Unwanted(t, i))
BY DEF Wanted, Unwanted, SameText

LEMMA RecordAdded ==
  ASSUME NEW t \in Tales, NEW S \in SUBSET Nat, Accounted(t, S),
         NEW i \in Nat, \A j \in S : j < i, Wanted(t, i),
         NEW u, SameText(t, u), u.warnings = t.warnings,
         u.records = Append(t.records, Transaction(i))
  PROVE  Accounted(u, S \union {i})
<1> PICK r : r = t.records
  OBVIOUS
<1> PICK L : L = [k \in DOMAIN r |-> r[k].date]
  OBVIOUS
<1> PICK T : T = {j \in S : Wanted(t, j)}
  OBVIOUS
<1>1. /\ r \in Seq(Transactions) /\ Transaction(i) \in Transactions
      /\ u.records = Append(r, Transaction(i)) /\ u.warnings = t.warnings
  BY DEF Tales, Transaction, Transactions
<1>2. PICK n \in Nat : n = Len(r) /\ DOMAIN r = 1 .. n
  BY <1>1, LenProperties
<1>3. /\ DOMAIN u.records = 1 .. n + 1
      /\ \A k \in 1 .. n : u.records[k] = r[k]
      /\ u.records[n + 1] = Transaction(i)
  BY <1>1, <1>2, AppendProperties, LenProperties
<1>4. L \in Seq(Nat) /\ Len(L) = n
  <2>1. \A k \in 1 .. n : r[k].date \in Nat
    <3>1. \A k \in 1 .. n : r[k] \in Transactions
      BY <1>1, <1>2, ElementOfSeq
    <3>2. QED
      BY <3>1 DEF Transactions
  <2>2. L \in [1 .. n -> Nat]
    BY <1>2, <2>1
  <2>3. QED
    BY <2>2
<1>5. [k \in DOMAIN u.records |-> u.records[k].date] = Append(L, i)
  <2>1. /\ DOMAIN Append(L, i) = 1 .. n + 1
        /\ \A k \in 1 .. n : Append(L, i)[k] = L[k]
        /\ Append(L, i)[n + 1] = i
    BY <1>4, AppendProperties, LenProperties
  <2>2. \A k \in 1 .. n : L[k] = r[k].date
    BY <1>2
  <2>3. 1 .. n + 1 = (1 .. n) \union {n + 1}
    BY <1>2
  <2>4. \A k \in 1 .. n + 1 : u.records[k].date = Append(L, i)[k]
    BY <1>3, <2>1, <2>2, <2>3 DEF Transaction
  <2>5. Append(L, i) \in Seq(Nat)
    BY <1>4, AppendProperties
  <2>6. Append(L, i) = [k \in 1 .. n + 1 |-> Append(L, i)[k]]
    BY <2>1, <2>5
  <2>7. QED
    BY <1>3, <2>4, <2>6
<1>6. SameText(t, u)
  OBVIOUS
<1>7. {j \in S \union {i} : Wanted(u, j)} = T \union {i}
  <2>1. \A j : Wanted(u, j) <=> Wanted(t, j)
    BY <1>6, SameBlocks
  <2>2. \A j : j \in T \union {i} <=> j = i \/ (j \in S /\ Wanted(t, j))
    OBVIOUS
  <2>3. QED
    BY <2>1, <2>2
<1>8. Ascending(Append(L, i), T \union {i})
  <2>1. Ascending(L, T) /\ \A j \in T : j < i
    BY DEF Accounted
  <2>2. QED
    BY <1>4, <2>1, AscendingAppend
<1>9. \A k \in DOMAIN u.records : u.records[k] = Transaction(u.records[k].date)
  <2>1. \A k \in 1 .. n : r[k] = Transaction(r[k].date)
    BY <1>2 DEF Accounted
  <2>2. 1 .. n + 1 = (1 .. n) \union {n + 1}
    BY <1>2
  <2>3. Transaction(i) = Transaction(Transaction(i).date)
    BY DEF Transaction
  <2>4. QED
    BY <1>3, <2>1, <2>2, <2>3
<1>10. {j \in S \union {i} : ~Wanted(u, j) /\ ~Unwanted(u, j)}
        = {j \in S : ~Wanted(t, j) /\ ~Unwanted(t, j)}
  BY <1>6, SameBlocks
<1>11. QED
  BY <1>1, <1>5, <1>7, <1>8, <1>9, <1>10 DEF Accounted

LEMMA WarningAdded ==
  ASSUME NEW t \in Tales, NEW S \in SUBSET Nat, Accounted(t, S),
         NEW i \in Nat, \A j \in S : j < i, ~Wanted(t, i), ~Unwanted(t, i),
         NEW u, SameText(t, u), u.records = t.records,
         u.warnings = Append(t.warnings, i)
  PROVE  Accounted(u, S \union {i})
<1> PICK T : T = {j \in S : ~Wanted(t, j) /\ ~Unwanted(t, j)}
  OBVIOUS
<1>1. /\ u.records = t.records /\ u.warnings = Append(t.warnings, i)
      /\ SameText(t, u) /\ t.warnings \in Seq(Nat)
  BY DEF Tales
<1>2. {j \in S \union {i} : Wanted(u, j)} = {j \in S : Wanted(t, j)}
  BY <1>1, SameBlocks
<1>3. {j \in S \union {i} : ~Wanted(u, j) /\ ~Unwanted(u, j)} = T \union {i}
  <2>1. \A j : (Wanted(u, j) <=> Wanted(t, j)) /\ (Unwanted(u, j) <=> Unwanted(t, j))
    BY <1>1, SameBlocks
  <2>2. \A j : j \in T \union {i} <=> j = i \/ (j \in S /\ ~Wanted(t, j) /\ ~Unwanted(t, j))
    OBVIOUS
  <2>3. \A j : j \in {k \in S \union {i} : ~Wanted(u, k) /\ ~Unwanted(u, k)}
                <=> j = i \/ (j \in S /\ ~Wanted(t, j) /\ ~Unwanted(t, j))
    BY <2>1
  <2>4. QED
    BY <2>2, <2>3
<1>4. Ascending(u.warnings, T \union {i})
  <2> PICK list : list = t.warnings
    OBVIOUS
  <2>1. list \in Seq(Nat) /\ Ascending(list, T) /\ \A j \in T : j < i
    BY <1>1 DEF Accounted
  <2>2. Ascending(Append(list, i), T \union {i})
    BY <2>1, AscendingAppend
  <2>3. QED
    BY <1>1, <2>2
<1>5. QED
  BY <1>1, <1>2, <1>3, <1>4 DEF Accounted

LEMMA CreditPassed ==
  ASSUME NEW t \in Tales, NEW S \in SUBSET Nat, Accounted(t, S),
         NEW i \in Nat, Unwanted(t, i)
  PROVE  Accounted(t, S \union {i})
<1>1. ~Wanted(t, i)
  BY DEF Wanted, Unwanted
<1>2. {j \in S \union {i} : Wanted(t, j)} = {j \in S : Wanted(t, j)}
  BY <1>1
<1>3. {j \in S \union {i} : ~Wanted(t, j) /\ ~Unwanted(t, j)}
        = {j \in S : ~Wanted(t, j) /\ ~Unwanted(t, j)}
  OBVIOUS
<1>4. QED
  BY <1>2, <1>3 DEF Accounted

-----------------------------------------------------------------------------
(* One way through the loop more.                                          *)

(* v accounts for the block that begins at u's index, too.                 *)
Advances(u, v) ==
  \A S \in SUBSET Nat :
    Accounted(Tale(u), S) /\ (\A j \in S : j < u.index)
      => Accounted(Tale(v), S \union {u.index})

(* What the upload becomes.                                                *)
At(u, end) == [u EXCEPT !.index = end]
WithWarning(u, end) ==
  [u EXCEPT !.warnings = Append(u.warnings, u.index), !.index = end]
WithRecord(u, end) ==
  [u EXCEPT !.transactions = Append(u.transactions, Transaction(u.index)), !.index = end]

LEMMA LinePassed ==
  ASSUME NEW u \in Uploads, Parsed(u), u.index <= Len(u.lines),
         u.lines[u.index] # "date"
  PROVE  At(u, u.index + 1) \in Uploads /\ Parsed(At(u, u.index + 1))
<1> PICK v : v = [u EXCEPT !.index = @ + 1]
  OBVIOUS
<1>1. PICK n \in Nat : n = Len(u.lines) /\ DOMAIN u.lines = 1 .. n
  BY LenProperties DEF Uploads
<1>2. /\ u.lines \in Seq(Lines) /\ v.lines = u.lines
      /\ u.index \in Nat \ {0} /\ v.index = u.index + 1 /\ Tale(v) = Tale(u)
  BY DEF Uploads, Tale
<1>3. v \in Uploads
  BY <1>2 DEF Uploads
<1>4. PICK S \in SUBSET Dates(u.lines) :
        /\ BlocksTo(u.lines, u.index, S)
        /\ u.index <= n => \A i \in S : i + 4 <= u.index
        /\ Accounted(Tale(u), S)
  BY <1>1 DEF Parsed
<1>5. Dates(u.lines) \in SUBSET Nat /\ u.index \notin Dates(u.lines)
  BY <1>2, DatesAreNumbers DEF Dates
<1>6. BlocksTo(u.lines, v.index, S)
  <2>1. \A i \in Dates(u.lines) : i < v.index <=> i < u.index
    BY <1>2, <1>5
  <2>2. QED
    BY <1>4, <2>1 DEF BlocksTo
<1>7. v.index <= n => \A i \in S : i + 4 <= v.index
  BY <1>1, <1>2, <1>4, <1>5
<1>8. v.index <= n + 1
  BY <1>1, <1>2
<1>9. QED
  <2>1. Parsed(v)
    BY <1>1, <1>2, <1>3, <1>4, <1>6, <1>7, <1>8 DEF Parsed
  <2>2. v = At(u, u.index + 1)
    BY DEF At
  <2>3. QED
    BY <1>3, <2>1, <2>2

LEMMA BlockPassed ==
  ASSUME NEW u \in Uploads, Parsed(u), u.index <= Len(u.lines),
         u.lines[u.index] = "date",
         NEW v \in Uploads, v.lines = u.lines, Advances(u, v),
         \/ u.index + 3 <= Len(u.lines) /\ v.index = u.index + 4
         \/ Len(u.lines) < u.index + 3 /\ v.index = Len(u.lines) + 1
  PROVE  Parsed(v)
<1>1. PICK n \in Nat : n = Len(u.lines) /\ DOMAIN u.lines = 1 .. n
  BY LenProperties DEF Uploads
<1> PICK i : i = u.index
  OBVIOUS
<1> PICK end : end = v.index
  OBVIOUS
<1>2. u.lines \in Seq(Lines) /\ i \in Nat \ {0} /\ i <= n
  BY <1>1 DEF Uploads
<1>3. i \in Dates(u.lines) /\ Dates(u.lines) \in SUBSET Nat
  BY <1>1, <1>2, DatesAreNumbers DEF Dates
<1>4. PICK S \in SUBSET Dates(u.lines) :
        /\ BlocksTo(u.lines, i, S)
        /\ \A j \in S : j + 4 <= i
        /\ Accounted(Tale(u), S)
  BY <1>1, <1>2 DEF Parsed
<1>5. end \in Nat /\ i < end /\ end <= n + 1 /\ (end = i + 4 \/ n < i + 3)
  BY <1>1, <1>2
<1>6. BlocksTo(u.lines, end, S \union {i})
  BY <1>1, <1>2, <1>3, <1>4, <1>5, BlockAdded
<1>7. Accounted(Tale(v), S \union {i})
  <2>1. \A j \in S : j < i
    BY <1>4 DEF BlocksTo
  <2>2. QED
    BY <1>3, <1>4, <2>1 DEF Advances
<1>8. end <= n => \A j \in S \union {i} : j + 4 <= end
  BY <1>1, <1>2, <1>3, <1>4, <1>5
<1>9. S \union {i} \in SUBSET Dates(v.lines)
  BY <1>3
<1>10. QED
  BY <1>1, <1>5, <1>6, <1>7, <1>8, <1>9 DEF Parsed

LEMMA TaleIsTale ==
  ASSUME NEW u \in Uploads
  PROVE  Tale(u) \in Tales
BY DEF Tale, Tales, Uploads

(* Where a block ends: after its amount, or with the text.                 *)
BlockEnd(u, end) ==
  \/ u.index + 3 <= Len(u.lines) /\ end = u.index + 4
  \/ Len(u.lines) < u.index + 3 /\ end = Len(u.lines) + 1

LEMMA WarningPassed ==
  ASSUME NEW u \in Uploads, Parsed(u), u.index <= Len(u.lines),
         u.lines[u.index] = "date", NEW end \in Nat \ {0}, BlockEnd(u, end),
         ~Wanted(Tale(u), u.index), ~Unwanted(Tale(u), u.index)
  PROVE  WithWarning(u, end) \in Uploads /\ Parsed(WithWarning(u, end))
<1> PICK w : w = Append(u.warnings, u.index)
  OBVIOUS
<1> PICK v : v = [u EXCEPT !.warnings = w, !.index = end]
  OBVIOUS
<1>1. w \in Seq(Nat) /\ u.index \in Nat
  <2>1. u.warnings \in Seq(Nat) /\ u.index \in Nat
    BY DEF Uploads
  <2>2. QED
    BY <2>1, AppendProperties
<1>2. v \in Uploads /\ v.lines = u.lines /\ v.index = end
  BY <1>1 DEF Uploads
<1>3. v.positive = u.positive /\ v.transactions = u.transactions /\ v.warnings = w
  BY DEF Uploads
<1>4. /\ SameText(Tale(u), Tale(v)) /\ Tale(v).records = Tale(u).records
      /\ Tale(v).warnings = Append(Tale(u).warnings, u.index)
  BY <1>2, <1>3 DEF Tale, SameText
<1>5. Tale(u) \in Tales
  BY TaleIsTale
<1>6. Advances(u, v)
  BY <1>1, <1>4, <1>5, WarningAdded DEF Advances
<1>7. Parsed(v)
  BY <1>2, <1>6, BlockPassed DEF BlockEnd
<1>8. QED
  BY <1>2, <1>7 DEF WithWarning

LEMMA RecordPassed ==
  ASSUME NEW u \in Uploads, Parsed(u), u.index <= Len(u.lines),
         u.lines[u.index] = "date", NEW end \in Nat \ {0}, BlockEnd(u, end),
         Wanted(Tale(u), u.index)
  PROVE  WithRecord(u, end) \in Uploads /\ Parsed(WithRecord(u, end))
<1> PICK x : x = Append(u.transactions, Transaction(u.index))
  OBVIOUS
<1> PICK v : v = [u EXCEPT !.transactions = x, !.index = end]
  OBVIOUS
<1>1. x \in Seq(Transactions) /\ u.index \in Nat
  <2>1. u.transactions \in Seq(Transactions) /\ u.index \in Nat
    BY DEF Uploads
  <2>2. Transaction(u.index) \in Transactions
    BY <2>1 DEF Transaction, Transactions
  <2>3. QED
    BY <2>1, <2>2, AppendProperties
<1>2. v \in Uploads /\ v.lines = u.lines /\ v.index = end
  BY <1>1 DEF Uploads
<1>3. v.positive = u.positive /\ v.transactions = x /\ v.warnings = u.warnings
  BY DEF Uploads
<1>4. /\ SameText(Tale(u), Tale(v)) /\ Tale(v).warnings = Tale(u).warnings
      /\ Tale(v).records = Append(Tale(u).records, Transaction(u.index))
  BY <1>2, <1>3 DEF Tale, SameText
<1>5. Tale(u) \in Tales
  BY TaleIsTale
<1>6. Advances(u, v)
  BY <1>1, <1>4, <1>5, RecordAdded DEF Advances
<1>7. Parsed(v)
  BY <1>2, <1>6, BlockPassed DEF BlockEnd
<1>8. QED
  BY <1>2, <1>7 DEF WithRecord

LEMMA NothingPassed ==
  ASSUME NEW u \in Uploads, Parsed(u), u.index <= Len(u.lines),
         u.lines[u.index] = "date", NEW end \in Nat \ {0}, BlockEnd(u, end),
         Unwanted(Tale(u), u.index)
  PROVE  At(u, end) \in Uploads /\ Parsed(At(u, end))
<1> PICK v : v = [u EXCEPT !.index = end]
  OBVIOUS
<1>1. v \in Uploads /\ v.lines = u.lines /\ v.index = end /\ Tale(v) = Tale(u)
  BY DEF Uploads, Tale
<1>2. Tale(u) \in Tales /\ u.index \in Nat
  BY TaleIsTale DEF Uploads
<1>3. Advances(u, v)
  BY <1>1, <1>2, CreditPassed DEF Advances
<1>4. Parsed(v)
  BY <1>1, <1>3, BlockPassed DEF BlockEnd
<1>5. QED
  BY <1>1, <1>4 DEF At

LEMMA LoopStep ==
  ASSUME UploadInv,
         SkipLine \/ Incomplete \/ InvalidAmount \/ PositiveSkipped \/ Taken
  PROVE  UploadInv'
<1> PICK u : u = upload
  OBVIOUS
<1> SUFFICES upload' \in Uploads /\ Parsed(upload')
  BY DEF UploadInv
<1>1. u \in Uploads /\ Parsed(u) /\ u.index <= Len(u.lines)
  BY DEF UploadInv, SkipLine, Incomplete, InvalidAmount, PositiveSkipped, Taken,
         Block, Parsing
<1>2. PICK n \in Nat : n = Len(u.lines) /\ DOMAIN u.lines = 1 .. n
  BY <1>1, LenProperties DEF Uploads
<1> PICK i : i = u.index
  OBVIOUS
<1>3. /\ i \in Nat \ {0} /\ i <= n
      /\ n + 1 \in Nat \ {0} /\ i + 4 \in Nat \ {0}
      /\ i + 3 <= n => i + 3 \in DOMAIN u.lines
  BY <1>1, <1>2 DEF Uploads
<1>4. Tale(u).lines = u.lines /\ Tale(u).positive = u.positive
  BY DEF Tale
<1>5. CASE SkipLine
  <2>1. upload' = At(u, i + 1) /\ u.lines[i] # "date"
    BY <1>1, <1>5 DEF SkipLine, Block, Line, At
  <2>2. QED
    BY <1>1, <2>1, LinePassed
<1>6. CASE Incomplete
  <2>1. u.lines[i] = "date" /\ n < i + 3 /\ upload' = WithWarning(u, n + 1)
    BY <1>1, <1>2, <1>3, <1>6 DEF Incomplete, Block, Complete, Line, WithWarning
  <2>2. ~Wanted(Tale(u), i) /\ ~Unwanted(Tale(u), i)
    BY <1>2, <1>3, <1>4, <2>1 DEF Wanted, Unwanted
  <2>3. BlockEnd(u, n + 1)
    BY <1>2, <2>1 DEF BlockEnd
  <2>4. QED
    BY <1>1, <1>3, <2>1, <2>2, <2>3, WarningPassed
<1>7. CASE InvalidAmount
  <2>1. /\ u.lines[i] = "date" /\ i + 3 <= n
        /\ u.lines[i + 3] \notin {"charge", "credit"}
        /\ upload' = WithWarning(u, i + 4)
    BY <1>1, <1>2, <1>3, <1>7
       DEF InvalidAmount, Block, Complete, AmountLine, Line, WithWarning
  <2>2. ~Wanted(Tale(u), i) /\ ~Unwanted(Tale(u), i)
    BY <1>4, <2>1 DEF Wanted, Unwanted
  <2>3. BlockEnd(u, i + 4)
    BY <1>2, <2>1 DEF BlockEnd
  <2>4. QED
    BY <1>1, <1>3, <2>1, <2>2, <2>3, WarningPassed
<1>8. CASE PositiveSkipped
  <2>1. /\ u.lines[i] = "date" /\ i + 3 <= n
        /\ u.lines[i + 3] = "credit" /\ ~u.positive
        /\ upload' = At(u, i + 4)
    BY <1>1, <1>2, <1>8
       DEF PositiveSkipped, Block, Complete, AmountLine, Line, Skipped, At
  <2>2. Unwanted(Tale(u), i)
    BY <1>3, <1>4, <2>1 DEF Unwanted
  <2>3. BlockEnd(u, i + 4)
    BY <1>2, <2>1 DEF BlockEnd
  <2>4. QED
    BY <1>1, <1>3, <2>1, <2>2, <2>3, NothingPassed
<1>9. CASE Taken
  <2>1. /\ u.lines[i] = "date" /\ i + 3 <= n
        /\ u.lines[i + 3] \in {"charge", "credit"}
        /\ u.lines[i + 3] = "credit" => u.positive
        /\ upload' = WithRecord(u, i + 4)
    BY <1>1, <1>2, <1>9
       DEF Taken, Block, Complete, AmountLine, Line, Skipped, WithRecord
  <2>2. Wanted(Tale(u), i)
    BY <1>3, <1>4, <2>1 DEF Wanted
  <2>3. BlockEnd(u, i + 4)
    BY <1>2, <2>1 DEF BlockEnd
  <2>4. QED
    BY <1>1, <1>3, <2>1, <2>2, <2>3, RecordPassed
<1>10. QED
  BY <1>5, <1>6, <1>7, <1>8, <1>9

-----------------------------------------------------------------------------
(* The steps of the service.                                               *)

LEMMA CitiInit ==
  ASSUME Init
  PROVE  CitiInv
BY DEF Init, CitiInv, UploadInv, ToldInv, FilesInv, ReplyInv

LEMMA BeginStep ==
  ASSUME CitiInv, NEW f \in FileIds, NEW lines \in Statements, NEW positive \in BOOLEAN,
         NEW size \in Sizes, Begin(f, lines, positive, size)
  PROVE  CitiInv'
<1> PICK u : u = Upload(f, lines, positive, size)
  OBVIOUS
<1>1. lines \in Seq(Lines) /\ Len(lines) \in Nat /\ Dates(lines) \in SUBSET (Nat \ {0})
  BY CitiAssumption, DatesAreNumbers, LenProperties
<1>2. /\ u \in Uploads /\ u.index = 1 /\ u.lines = lines
      /\ Tale(u).records = <<>> /\ Tale(u).warnings = <<>>
  BY <1>1 DEF Upload, Uploads, Tale
<1>3. Accounted(Tale(u), {})
  <2>1. Ascending(<<>>, {})
    BY DEF Ascending, ToSet
  <2>2. [k \in DOMAIN <<>> |-> <<>>[k].date] = <<>>
    OBVIOUS
  <2>3. {i \in {} : Wanted(Tale(u), i)} = {}
    OBVIOUS
  <2>4. {i \in {} : ~Wanted(Tale(u), i) /\ ~Unwanted(Tale(u), i)} = {}
    OBVIOUS
  <2>5. \A k \in DOMAIN <<>> : <<>>[k] = Transaction(<<>>[k].date)
    OBVIOUS
  <2>6. QED
    BY <1>2, <2>1, <2>2, <2>3, <2>4, <2>5 DEF Accounted
<1>4. BlocksTo(lines, 1, {})
  BY <1>1 DEF BlocksTo
<1>5. Parsed(u)
  <2>1. {} \in SUBSET Dates(u.lines)
    OBVIOUS
  <2>2. u.index <= Len(u.lines) + 1
    BY <1>1, <1>2
  <2>3. BlocksTo(u.lines, u.index, {})
    BY <1>2, <1>4
  <2>4. QED
    BY <1>3, <2>1, <2>2, <2>3 DEF Parsed
<1>6. upload' = u /\ reply' = None /\ files' = files /\ told' = told
  BY DEF Begin
<1>7. UploadInv'
  BY <1>2, <1>5, <1>6 DEF UploadInv
<1>8. ToldInv' /\ FilesInv' /\ ReplyInv'
  BY <1>6 DEF CitiInv, ToldInv, FilesInv, ReplyInv
<1>9. QED
  BY <1>7, <1>8 DEF CitiInv

LEMMA StoredStep ==
  ASSUME CitiInv, Stored
  PROVE  CitiInv'
<1> PICK u : u = upload
  OBVIOUS
<1> PICK t : t = Tale(u)
  OBVIOUS
<1>1. u \in Uploads /\ Parsed(u) /\ ~(u.index <= Len(u.lines))
  BY DEF CitiInv, UploadInv, Stored, Parsing
<1>2. PICK n \in Nat : n = Len(u.lines)
  BY <1>1, LenProperties DEF Uploads
<1>3. u.lines \in Seq(Lines) /\ u.file \in FileIds /\ u.index = n + 1
  BY <1>1, <1>2 DEF Uploads, Parsed
<1>4. t \in Tales /\ t.lines = u.lines
  BY <1>1, TaleIsTale DEF Tale
<1>5. Accounted(t, Starts(t.lines))
  <2>1. PICK S : BlocksTo(u.lines, n + 1, S) /\ Accounted(t, S)
    BY <1>1, <1>3 DEF Parsed
  <2>2. S = Starts(u.lines)
    BY <1>2, <1>3, <2>1, BlocksUnique
  <2>3. QED
    BY <1>4, <2>1, <2>2
<1>6. /\ upload' = None
      /\ told' = [told EXCEPT ![u.file] = t]
      /\ files' = [files EXCEPT ![u.file] = EntryOf(t)]
      /\ reply' = [status |-> 200, file |-> u.file, records |-> t.records, archive |-> <<>>]
  BY DEF Stored, Tale, EntryOf, Entry, Preview
<1>7. ASSUME NEW f \in FileIds
      PROVE  /\ told'[f] = IF f = u.file THEN t ELSE told[f]
             /\ files'[f] = IF f = u.file THEN EntryOf(t) ELSE files[f]
  <2>1. DOMAIN told = FileIds /\ DOMAIN files = FileIds
    BY DEF CitiInv, ToldInv, FilesInv
  <2>2. QED
    BY <1>3, <1>6, <2>1
<1>8. DOMAIN told' = FileIds /\ DOMAIN files' = FileIds
  BY <1>6 DEF CitiInv, ToldInv, FilesInv
<1>9. UploadInv'
  BY <1>6 DEF UploadInv
<1>10. ToldInv'
  BY <1>4, <1>5, <1>7, <1>8 DEF CitiInv, ToldInv
<1>11. FilesInv'
  BY <1>4, <1>7, <1>8 DEF CitiInv, FilesInv
<1>12. ReplyInv'
  BY <1>3, <1>4, <1>6, <1>7 DEF ReplyInv, Answers
<1>13. QED
  BY <1>9, <1>10, <1>11, <1>12 DEF CitiInv

(* What the routes that read answer with.                                  *)
LEMMA AnswerIsAbout ==
  ASSUME CitiInv, NEW id, NEW r,
         \/ /\ Known(id)
            /\ \/ r = Preview(id, files[id].records)
               \/ r = [Preview(id, files[id].records) EXCEPT
                         !.archive = Archive(files[id].records, files[id].size)]
         \/ r = Refused(id)
  PROVE  Answers(r)
<1>1. CASE r = Refused(id)
  BY <1>1 DEF Refused, Answers
<1>2. CASE Known(id) /\ r # Refused(id)
  <2>1. id \in FileIds /\ told[id] \in Tales /\ files[id] = EntryOf(told[id])
    BY <1>2 DEF Known, CitiInv, FilesInv
  <2> PICK t : t = told[id]
    OBVIOUS
  <2>2. files[id].records = t.records /\ files[id].size = t.size
    BY <2>1 DEF EntryOf
  <2>3. \/ r = Preview(id, t.records)
        \/ r = [Preview(id, t.records) EXCEPT !.archive = Archive(t.records, t.size)]
    BY <1>2, <2>2
  <2>4. /\ r.status = 200 /\ r.file = id /\ r.records = t.records
        /\ r.archive \in {<<>>, Archive(t.records, t.size)}
    BY <2>3 DEF Preview
  <2>5. QED
    BY <2>1, <2>4 DEF Answers
<1>3. QED
  BY <1>1, <1>2

LEMMA CitiStep ==
  ASSUME CitiInv, [Next]_vars
  PROVE  CitiInv'
<1>1. ASSUME NEW f \in FileIds, NEW lines \in Statements, NEW positive \in BOOLEAN,
             NEW size \in Sizes, Begin(f, lines, positive, size)
      PROVE  CitiInv'
  BY <1>1, BeginStep
<1>2. CASE RefuseName
  <2> PICK r : r = reply'
    OBVIOUS
  <2>1. Answers(r)
    BY <1>2 DEF RefuseName, Answers
  <2>2. upload' = upload /\ files' = files /\ told' = told
    BY <1>2 DEF RefuseName
  <2>3. UploadInv' /\ ToldInv' /\ FilesInv' /\ ReplyInv'
    BY <2>1, <2>2 DEF CitiInv, UploadInv, ToldInv, FilesInv, ReplyInv, Answers
  <2>4. QED
    BY <2>3 DEF CitiInv
<1>3. CASE SkipLine \/ Incomplete \/ InvalidAmount \/ PositiveSkipped \/ Taken
  <2>1. UploadInv'
    BY <1>3, LoopStep DEF CitiInv
  <2>2. files' = files /\ reply' = reply /\ told' = told
    BY <1>3 DEF SkipLine, Incomplete, InvalidAmount, PositiveSkipped, Taken
  <2>3. ToldInv' /\ FilesInv' /\ ReplyInv'
    BY <2>2 DEF CitiInv, ToldInv, FilesInv, ReplyInv, Answers
  <2>4. QED
    BY <2>1, <2>3 DEF CitiInv
<1>4. CASE Stored
  BY <1>4, StoredStep
<1>5. ASSUME NEW id \in FileIds \union {None}, GetFile(id) \/ ExportCsv(id)
      PROVE  CitiInv'
  <2> PICK r : r = reply'
    OBVIOUS
  <2>1. Answers(r)
    BY <1>5, AnswerIsAbout DEF GetFile, ExportCsv
  <2>2. upload' = upload /\ files' = files /\ told' = told
    BY <1>5 DEF GetFile, ExportCsv
  <2>3. UploadInv' /\ ToldInv' /\ FilesInv' /\ ReplyInv'
    BY <2>1, <2>2 DEF CitiInv, UploadInv, ToldInv, FilesInv, ReplyInv, Answers
  <2>4. QED
    BY <2>3 DEF CitiInv
<1>6. CASE Restart
  BY <1>6 DEF Restart, CitiInv, UploadInv, ToldInv, FilesInv, ReplyInv
<1>7. CASE UNCHANGED vars
  BY <1>7 DEF vars, CitiInv, UploadInv, ToldInv, FilesInv, ReplyInv, Answers
<1>8. QED
  BY <1>1, <1>2, <1>3, <1>4, <1>5, <1>6, <1>7 DEF Next, ParseStep

LEMMA CitiInvariant == Spec => []CitiInv
<1>1. Init => CitiInv
  BY CitiInit
<1>2. CitiInv /\ [Next]_vars => CitiInv'
  BY CitiStep
<1>3. QED
  BY <1>1, <1>2, PTL DEF Spec

-----------------------------------------------------------------------------
(* What the invariant gives.                                               *)

(* The parser's lists, the store of cache.py and the answers of the routes *)
(* have their types, whatever was uploaded.                                *)
THEOREM CitiTypeCorrect == Spec => []CitiTypeOK
<1>1. ASSUME CitiInv PROVE CitiTypeOK
  <2>1. upload # None =>
          /\ upload.file \in FileIds
          /\ upload.lines \in Seq(Lines)
          /\ upload.index \in Nat \ {0}
          /\ upload.transactions \in Seq(Transactions)
          /\ upload.warnings \in Seq(Nat)
    BY <1>1 DEF CitiInv, UploadInv, Uploads
  <2>2. \A f \in FileIds :
          files[f] # None =>
            /\ files[f].records \in Seq(Transactions)
            /\ files[f].warnings \in Seq(Nat)
            /\ files[f].size \in Sizes
    BY <1>1 DEF CitiInv, FilesInv, EntryOf, Tales
  <2>3. ASSUME reply # None
        PROVE  /\ reply.status \in {200, 400, 404}
               /\ reply.file \in FileIds \union {None}
               /\ \A k \in DOMAIN reply.archive : reply.archive[k].rows \in Seq(Transactions)
    <3>1. Answers(reply)
      BY <1>1, <2>3 DEF CitiInv, ReplyInv
    <3>2. CASE reply.archive = <<>>
      BY <3>1, <3>2 DEF Answers
    <3>3. CASE reply.archive # <<>>
      <4> PICK t : t = told[reply.file]
        OBVIOUS
      <4>1. t \in Tales /\ reply.archive = Archive(t.records, t.size)
        BY <3>1, <3>3 DEF Answers
      <4>2. t.records \in Seq(Transactions) /\ t.size \in Nat \ {0}
        BY <4>1, CitiAssumption DEF Tales
      <4>3. \A k \in DOMAIN reply.archive : reply.archive[k].rows \in Seq(Transactions)
        BY <4>1, <4>2, ArchivePartitions
      <4>4. QED
        BY <3>1, <4>3 DEF Answers
    <3>4. QED
      BY <3>2, <3>3
  <2>4. QED
    BY <2>1, <2>2, <2>3 DEF CitiTypeOK
<1>2. QED
  BY <1>1, CitiInvariant, PTL

(* Of a text of any length, the loop of parser.py:43-78 reports a record   *)
(* or a warning for exactly the blocks a definition without a loop finds,  *)
(* in the order of the text.                                               *)
THEOREM BlocksAreAccountedHolds == Spec => []BlocksAreAccounted
<1>1. ASSUME CitiInv PROVE BlocksAreAccounted
  <2>1. \A f \in FileIds :
          told[f] # None => Accounted(told[f], Starts(told[f].lines))
    BY <1>1 DEF CitiInv, ToldInv
  <2>2. QED
    BY <2>1 DEF Accounted, BlocksAreAccounted
<1>2. QED
  BY <1>1, CitiInvariant, PTL

(* An archive of exporter.py holds the records the upload reported, each   *)
(* once and in order, for every chunk size and number of records.          *)
THEOREM ArchiveIsPartitionHolds == Spec => []ArchiveIsPartition
<1>1. ASSUME CitiInv PROVE ArchiveIsPartition
  <2> SUFFICES ASSUME reply # None, reply.status = 200, NEW t, t = told[reply.file]
               PROVE  /\ reply.records = t.records
                      /\ reply.archive # <<>> =>
                           /\ FlattenSeq([k \in DOMAIN reply.archive |-> reply.archive[k].rows])
                                = t.records
                           /\ \A k \in DOMAIN reply.archive :
                                /\ Len(reply.archive[k].rows) <= t.size
                                /\ reply.archive[k].rows = <<>> => t.records = <<>>
                           /\ IsInjective([k \in DOMAIN reply.archive |-> reply.archive[k].name])
    BY DEF ArchiveIsPartition
  <2>1. /\ t \in Tales /\ reply.records = t.records
        /\ reply.archive # <<>> => reply.archive = Archive(t.records, t.size)
    BY <1>1 DEF CitiInv, ReplyInv, Answers
  <2>2. t.records \in Seq(Transactions) /\ t.size \in Nat \ {0}
    BY <2>1, CitiAssumption DEF Tales
  <2>3. QED
    BY <2>1, <2>2, ArchivePartitions
<1>2. QED
  BY <1>1, CitiInvariant, PTL

(* Induction up to a number, and over the subsets of a finite set.         *)
LEMMA Induction ==
  ASSUME NEW n \in Nat, NEW D, 0 \in D, \A k \in 0 .. n : k \in D /\ k # n => k + 1 \in D
  PROVE  \A k \in 0 .. n : k \in D
<1> DEFINE E == {k \in 0 .. n : k \notin D}
<1>1. CASE E = {}
  BY <1>1
<1>2. CASE E # {}
  <2>1. E \in SUBSET Nat
    OBVIOUS
  <2>2. PICK d \in E : \A e \in E : d <= e
    <3> HIDE DEF E
    <3>1. QED
      BY <1>2, <2>1, LeastExists
  <2>3. d \in 0 .. n /\ d \notin D /\ d # 0
    BY <2>2
  <2>4. d - 1 \in 0 .. n /\ d - 1 # n /\ (d - 1) + 1 = d
    BY <2>3
  <2>5. d - 1 \notin E
    BY <2>2, <2>4
  <2>6. QED
    BY <2>3, <2>4, <2>5
<1>3. QED
  BY <1>1, <1>2

LEMMA SmallestSet ==
  ASSUME NEW S, IsFiniteSet(S), NEW D \in SUBSET SUBSET S, D # {}
  PROVE  \E T \in D : \A x \in T : T \ {x} \notin D
<1> DEFINE N == {Cardinality(T) : T \in D}
<1>1. \A T \in D : IsFiniteSet(T) /\ Cardinality(T) \in Nat
  BY FS_Subset, FS_CardinalityType
<1>2. PICK d \in N : \A e \in N : d <= e
  <2>1. N \in SUBSET Nat /\ N # {}
    BY <1>1
  <2> HIDE DEF N
  <2>2. QED
    BY <2>1, LeastExists
<1>3. PICK T \in D : d = Cardinality(T)
  BY <1>2
<1>4. ASSUME NEW x \in T, T \ {x} \in D PROVE FALSE
  <2>1. Cardinality(T \ {x}) = Cardinality(T) - 1
    BY <1>1, FS_RemoveElement
  <2>2. Cardinality(T) <= Cardinality(T \ {x})
    BY <1>2, <1>3, <1>4
  <2>3. QED
    BY <1>1, <2>1, <2>2
<1>5. QED
  BY <1>4

-----------------------------------------------------------------------------
(* Recursion.  A step s[k] leads from the value at k - 1 to that at k.     *)

Recurs(g, V, base, s, m) == /\ g \in [0 .. m -> V] /\ g[0] = base
                            /\ \A k \in 1 .. m : g[k] = s[k][g[k - 1]]

LEMMA RecursionExists ==
  ASSUME NEW V, NEW base \in V, NEW n \in Nat, NEW s \in [1 .. n -> [V -> V]]
  PROVE  \E g : Recurs(g, V, base, s, n)
<1> DEFINE D == {m \in 0 .. n : \E g : Recurs(g, V, base, s, m)}
<1>1. 0 \in D
  <2>1. Recurs([k \in 0 .. 0 |-> base], V, base, s, 0)
    BY DEF Recurs
  <2>2. QED
    BY <2>1
<1>2. ASSUME NEW m \in 0 .. n, m \in D, m # n PROVE m + 1 \in D
  <2>0. PICK g : Recurs(g, V, base, s, m)
    BY <1>2
  <2>1. /\ g \in [0 .. m -> V] /\ g[0] = base
        /\ \A k \in 1 .. m : g[k] = s[k][g[k - 1]]
    BY <2>0 DEF Recurs
  <2> DEFINE h == [k \in 0 .. m + 1 |-> IF k <= m THEN g[k] ELSE s[k][g[k - 1]]]
  <2>2. m \in Nat /\ m + 1 \in 1 .. n
    BY <1>2
  <2>3. h \in [0 .. m + 1 -> V]
    <3> SUFFICES ASSUME NEW k \in 0 .. m + 1
                 PROVE  (IF k <= m THEN g[k] ELSE s[k][g[k - 1]]) \in V
      OBVIOUS
    <3>1. CASE k <= m
      BY <2>1, <2>2, <3>1
    <3>2. CASE ~(k <= m)
      <4>1. k = m + 1 /\ k - 1 \in 0 .. m /\ k \in 1 .. n
        BY <2>2, <3>2
      <4>2. g[k - 1] \in V /\ s[k] \in [V -> V]
        BY <2>1, <4>1
      <4>3. QED
        BY <3>2, <4>2
    <3>3. QED
      BY <3>1, <3>2
  <2>4. h[0] = base
    BY <2>1, <2>2
  <2>5. ASSUME NEW k \in 1 .. m + 1 PROVE h[k] = s[k][h[k - 1]]
    <3>1. k - 1 \in 0 .. m /\ k - 1 \in 0 .. m + 1 /\ k \in 0 .. m + 1
      BY <2>2
    <3>2. h[k - 1] = g[k - 1]
      BY <2>2, <3>1
    <3>3. h[k] = s[k][g[k - 1]]
      BY <2>1, <2>2, <3>1
    <3>4. QED
      BY <3>2, <3>3
  <2>6. Recurs(h, V, base, s, m + 1)
    BY <2>3, <2>4, <2>5 DEF Recurs
  <2>7. QED
    BY <2>2, <2>6
<1>3. n \in D
  <2> HIDE DEF D
  <2>1. \A k \in 0 .. n : k \in D
    BY <1>1, <1>2, Induction
  <2>2. QED
    BY <2>1
<1>4. QED
  BY <1>3

(* Two sequences of values with one beginning and the same steps.          *)
LEMMA RecursionUnique ==
  ASSUME NEW n \in Nat, NEW u, NEW v, u[0] = v[0],
         \A k \in 1 .. n : u[k - 1] = v[k - 1] => u[k] = v[k]
  PROVE  u[n] = v[n]
<1> DEFINE D == {k \in 0 .. n : u[k] = v[k]}
<1>1. 0 \in D
  OBVIOUS
<1>2. ASSUME NEW k \in 0 .. n, k \in D, k # n PROVE k + 1 \in D
  <2>1. k + 1 \in 1 .. n /\ k + 1 \in 0 .. n /\ (k + 1) - 1 = k
    BY <1>2
  <2>2. u[k] = v[k]
    BY <1>2
  <2>3. u[k + 1] = v[k + 1]
    BY <2>1, <2>2
  <2>4. QED
    BY <2>1, <2>3
<1>3. \A k \in 0 .. n : k \in D
  <2> HIDE DEF D
  <2>1. QED
    BY <1>1, <1>2, Induction
<1>4. QED
  BY <1>3

(* Recursion over the subsets of a finite set: c[T] is the element taken   *)
(* out of T, s[x] the step it makes.                                       *)
Folds(h, S, V, base, c, s) ==
  /\ h \in [SUBSET S -> V] /\ h[{}] = base
  /\ \A T \in SUBSET S : T # {} => h[T] = s[c[T]][h[T \ {c[T]}]]

LEMMA FoldExists ==
  ASSUME NEW V, NEW base \in V, NEW S, IsFiniteSet(S), NEW s \in [S -> [V -> V]],
         NEW c, \A T \in SUBSET S : T # {} => c[T] \in T
  PROVE  \E h : Folds(h, S, V, base, c, s)
<1> DEFINE W == [SUBSET S -> V]
           zero == [T \in SUBSET S |-> base]
           next(h) == [T \in SUBSET S |-> IF T = {} THEN base ELSE s[c[T]][h[T \ {c[T]}]]]
<1> PICK n : n = Cardinality(S)
  OBVIOUS
<1>1. n \in Nat /\ \A T \in SUBSET S : IsFiniteSet(T) /\ Cardinality(T) \in 0 .. n
  BY FS_Subset, FS_CardinalityType
<1>2. zero \in W
  OBVIOUS
<1>3. ASSUME NEW h \in W, NEW T \in SUBSET S, T # {}
      PROVE  /\ c[T] \in T /\ T \ {c[T]} \in SUBSET S
             /\ s[c[T]][h[T \ {c[T]}]] \in V
  <2>1. c[T] \in T /\ c[T] \in S /\ T \ {c[T]} \in SUBSET S
    BY <1>3
  <2>2. s[c[T]] \in [V -> V] /\ h[T \ {c[T]}] \in V
    BY <2>1
  <2>3. QED
    BY <2>1, <2>2
<1>4. ASSUME NEW h \in W PROVE next(h) \in W
  BY <1>3
<1> DEFINE steps == [k \in 1 .. n + 1 |-> [h \in W |-> next(h)]]
<1>5. \E g : Recurs(g, W, zero, steps, n + 1)
  <2>1. steps \in [1 .. n + 1 -> [W -> W]]
    <3> HIDE DEF W, next
    <3>1. QED
      BY <1>4
  <2>2. n + 1 \in Nat
    BY <1>1
  <2> HIDE DEF W, zero, steps
  <2>3. QED
    BY <1>2, <2>1, <2>2, RecursionExists
<1>6. PICK g : Recurs(g, W, zero, steps, n + 1)
  BY <1>5
<1>7. /\ g \in [0 .. n + 1 -> W] /\ g[0] = zero
      /\ \A k \in 1 .. n + 1 : g[k] = next(g[k - 1])
  <2>1. /\ g \in [0 .. n + 1 -> W] /\ g[0] = zero
        /\ \A k \in 1 .. n + 1 : g[k] = steps[k][g[k - 1]]
    BY <1>6 DEF Recurs
  <2>2. \A k \in 1 .. n + 1 : g[k - 1] \in W
    <3> HIDE DEF W
    <3>1. \A k \in 1 .. n + 1 : k - 1 \in 0 .. n + 1
      BY <1>1
    <3>2. QED
      BY <2>1, <3>1
  <2>3. QED
    <3> HIDE DEF W, next
    <3>1. QED
      BY <2>1, <2>2
<1>8. ASSUME NEW k \in 1 .. n + 1, NEW T \in SUBSET S
      PROVE  g[k][T] = IF T = {} THEN base ELSE s[c[T]][g[k - 1][T \ {c[T]}]]
  <2> PICK h : h = g[k - 1]
    OBVIOUS
  <2>1. g[k] = next(h)
    <3> HIDE DEF next
    <3>1. QED
      BY <1>7
  <2>2. next(h)[T] = IF T = {} THEN base ELSE s[c[T]][h[T \ {c[T]}]]
    OBVIOUS
  <2> HIDE DEF next
  <2>3. QED
    BY <2>1, <2>2
<1>8a. g[0][{}] = base
  BY <1>7
<1> HIDE DEF W, zero, next, steps
<1> DEFINE D == {k \in 0 .. n : \A T \in SUBSET S :
                   Cardinality(T) <= k => g[k + 1][T] = g[k][T]}
<1>9. 0 \in D
  <2>1. \A T \in SUBSET S : Cardinality(T) <= 0 => T = {}
    BY <1>1, FS_EmptySet
  <2>2. g[1][{}] = base
    <3>1. 1 \in 1 .. n + 1 /\ {} \in SUBSET S
      BY <1>1
    <3>2. QED
      BY <1>8, <3>1
  <2>3. ASSUME NEW T \in SUBSET S, Cardinality(T) <= 0 PROVE g[0 + 1][T] = g[0][T]
    <3>1. T = {} /\ 0 + 1 = 1
      BY <2>1, <2>3
    <3>2. QED
      BY <1>8a, <2>2, <3>1
  <2>4. 0 \in 0 .. n
    BY <1>1
  <2>5. QED
    BY <2>3, <2>4
<1>10. ASSUME NEW k \in 0 .. n, k \in D, k # n PROVE k + 1 \in D
  <2>1. k + 1 \in 0 .. n /\ k + 1 \in 1 .. n + 1 /\ (k + 1) + 1 \in 1 .. n + 1
        /\ (k + 1) - 1 = k /\ ((k + 1) + 1) - 1 = k + 1
    BY <1>1, <1>10
  <2>2. ASSUME NEW T \in SUBSET S, Cardinality(T) <= k + 1
        PROVE  g[(k + 1) + 1][T] = g[k + 1][T]
    <3> DEFINE R == T \ {c[T]}
    <3>1. /\ g[(k + 1) + 1][T] = IF T = {} THEN base ELSE s[c[T]][g[k + 1][R]]
          /\ g[k + 1][T] = IF T = {} THEN base ELSE s[c[T]][g[k][R]]
      <4>1. g[(k + 1) + 1][T]
              = IF T = {} THEN base ELSE s[c[T]][g[((k + 1) + 1) - 1][R]]
        BY <1>8, <2>1
      <4>2. g[k + 1][T] = IF T = {} THEN base ELSE s[c[T]][g[(k + 1) - 1][R]]
        BY <1>8, <2>1
      <4> HIDE DEF R
      <4>3. QED
        BY <2>1, <4>1, <4>2
    <3>2. CASE T = {}
      BY <3>1, <3>2
    <3>3. CASE T # {}
      <4>1. R \in SUBSET S /\ Cardinality(R) = Cardinality(T) - 1
        <5>1. c[T] \in T /\ IsFiniteSet(T)
          BY <1>1, <3>3
        <5>2. QED
          BY <5>1, FS_RemoveElement
      <4>2. Cardinality(R) <= k
        BY <1>1, <2>2, <4>1
      <4> HIDE DEF R
      <4>3. g[k + 1][R] = g[k][R]
        BY <1>10, <4>1, <4>2
      <4>4. QED
        BY <3>1, <4>3
    <3>4. QED
      BY <3>2, <3>3
  <2>3. QED
    BY <2>1, <2>2
<1>11. n \in D
  <2> HIDE DEF D
  <2>1. \A k \in 0 .. n : k \in D
    BY <1>1, <1>9, <1>10, Induction
  <2>2. QED
    BY <1>1, <2>1
<1>12. \A T \in SUBSET S : g[n + 1][T] = g[n][T]
  BY <1>1, <1>11
<1>13. g[n] \in W /\ g[n][{}] = base
  <2>1. g[n] \in W
    BY <1>1, <1>7
  <2>2. g[n + 1][{}] = base
    <3>1. n + 1 \in 1 .. n + 1 /\ {} \in SUBSET S
      BY <1>1
    <3>2. QED
      BY <1>8, <3>1
  <2>3. QED
    BY <1>12, <2>1, <2>2
<1>14. ASSUME NEW T \in SUBSET S, T # {} PROVE g[n][T] = s[c[T]][g[n][T \ {c[T]}]]
  <2>0. n + 1 \in 1 .. n + 1 /\ (n + 1) - 1 = n
    BY <1>1
  <2>1. g[n + 1][T] = s[c[T]][g[(n + 1) - 1][T \ {c[T]}]]
    BY <1>8, <1>14, <2>0
  <2>2. QED
    BY <1>12, <2>0, <2>1
<1>15. Folds(g[n], S, V, base, c, s)
  BY <1>13, <1>14 DEF Folds, W
<1>16. QED
  BY <1>15

-----------------------------------------------------------------------------
(* Sums.                                                                   *)

Sums(h, S, f) ==
  h = [T \in SUBSET S |-> IF T = {} THEN 0
                          ELSE f[CHOOSE x \in T : TRUE] + h[T \ {CHOOSE x \in T : TRUE}]]

LEMMA SumsAt ==
  ASSUME NEW S, NEW f, NEW h, Sums(h, S, f), NEW T \in SUBSET S
  PROVE  IF T = {} THEN h[T] = 0 ELSE \E x \in T : h[T] = f[x] + h[T \ {x}]
<1>1. h[T] = IF T = {} THEN 0
             ELSE f[CHOOSE x \in T : TRUE] + h[T \ {CHOOSE x \in T : TRUE}]
  BY DEF Sums
<1> PICK x : x = CHOOSE y \in T : TRUE
  OBVIOUS
<1>2. T # {} => x \in T
  OBVIOUS
<1>3. h[T] = IF T = {} THEN 0 ELSE f[x] + h[T \ {x}]
  BY <1>1
<1>4. QED
  BY <1>2, <1>3

LEMMA SumsExist ==
  ASSUME NEW S, IsFiniteSet(S), NEW f, \A x \in S : f[x] \in Int
  PROVE  \E h : Sums(h, S, f)
<1> DEFINE c == [T \in SUBSET S |-> CHOOSE x \in T : TRUE]
           s == [x \in S |-> [v \in Int |-> f[x] + v]]
<1>1. \A T \in SUBSET S : T # {} => c[T] \in T
  OBVIOUS
<1>2. s \in [S -> [Int -> Int]] /\ 0 \in Int
  OBVIOUS
<1>3. \E h : Folds(h, S, Int, 0, c, s)
  <2> HIDE DEF c, s
  <2>1. QED
    BY <1>1, <1>2, FoldExists
<1>4. PICK h : Folds(h, S, Int, 0, c, s)
  BY <1>3
<1>5. /\ h \in [SUBSET S -> Int] /\ h[{}] = 0
      /\ \A T \in SUBSET S : T # {} => h[T] = s[c[T]][h[T \ {c[T]}]]
  BY <1>4 DEF Folds
<1>6. ASSUME NEW T \in SUBSET S, T # {}
      PROVE  h[T] = f[CHOOSE x \in T : TRUE] + h[T \ {CHOOSE x \in T : TRUE}]
  <2> PICK x : x = CHOOSE y \in T : TRUE
    OBVIOUS
  <2>1. x \in T /\ c[T] = x
    BY <1>6
  <2>2. h[T] = s[x][h[T \ {x}]]
    BY <1>5, <1>6, <2>1
  <2>3. h[T \ {x}] \in Int /\ x \in S
    BY <1>5, <2>1
  <2>4. h[T] = f[x] + h[T \ {x}]
    BY <2>2, <2>3
  <2>5. QED
    BY <2>4
<1>7. Sums(h, S, f)
  <2>1. h = [T \in SUBSET S |-> h[T]]
    BY <1>5
  <2>2. \A T \in SUBSET S :
          h[T] = IF T = {} THEN 0
                 ELSE f[CHOOSE x \in T : TRUE] + h[T \ {CHOOSE x \in T : TRUE}]
    BY <1>5, <1>6
  <2>3. QED
    BY <2>1, <2>2 DEF Sums
<1>8. QED
  BY <1>7

LEMMA SumsInt ==
  ASSUME NEW S, IsFiniteSet(S), NEW f, \A x \in S : f[x] \in Int, NEW h, Sums(h, S, f)
  PROVE  \A T \in SUBSET S : h[T] \in Int
<1> DEFINE D == {T \in SUBSET S : h[T] \notin Int}
<1>1. CASE D # {}
  <2>1. PICK T \in D : \A x \in T : T \ {x} \notin D
    <3>1. D \in SUBSET SUBSET S
      OBVIOUS
    <3> HIDE DEF D
    <3>2. QED
      BY <1>1, <3>1, SmallestSet
  <2>2. T \in SUBSET S /\ h[T] \notin Int
    OBVIOUS
  <2>3. IF T = {} THEN h[T] = 0 ELSE \E x \in T : h[T] = f[x] + h[T \ {x}]
    BY <2>2, SumsAt
  <2>4. PICK x \in T : h[T] = f[x] + h[T \ {x}]
    BY <2>2, <2>3
  <2>5. f[x] \in Int /\ h[T \ {x}] \in Int
    BY <2>1, <2>2
  <2>6. QED
    BY <2>2, <2>4, <2>5
<1>2. QED
  BY <1>1

(* Any element may be taken out first.                                     *)
AnyFirst(h, S, f) ==
  \A T \in SUBSET S : h[T] \in Int /\ \A x \in T : h[T] = f[x] + h[T \ {x}]

LEMMA SumsTakeOut ==
  ASSUME NEW S, IsFiniteSet(S), NEW f, \A x \in S : f[x] \in Int, NEW h, Sums(h, S, f)
  PROVE  AnyFirst(h, S, f)
<1> USE DEF AnyFirst
<1> DEFINE Fine(T) == h[T] \in Int /\ \A x \in T : h[T] = f[x] + h[T \ {x}]
           D == {T \in SUBSET S : ~Fine(T)}
<1>1. h[{}] = 0
  <2>1. {} \in SUBSET S
    OBVIOUS
  <2>2. QED
    BY <2>1, SumsAt
<1>2. CASE D # {}
  <2>1. PICK T \in D : \A x \in T : T \ {x} \notin D
    <3>1. D \in SUBSET SUBSET S
      OBVIOUS
    <3> HIDE DEF D
    <3>2. QED
      BY <1>2, <3>1, SmallestSet
  <2>2. T \in SUBSET S /\ ~Fine(T)
    OBVIOUS
  <2>3. \A x \in T : T \ {x} \in SUBSET S /\ Fine(T \ {x})
    BY <2>1, <2>2
  <2>4. T # {}
    <3>1. Fine({})
      BY <1>1
    <3> HIDE DEF Fine
    <3>2. QED
      BY <2>2, <3>1
  <2>5. PICK x \in T : h[T] = f[x] + h[T \ {x}]
    <3>1. IF T = {} THEN h[T] = 0 ELSE \E x \in T : h[T] = f[x] + h[T \ {x}]
      BY <2>2, SumsAt
    <3>2. QED
      BY <2>4, <3>1
  <2>6. h[T] \in Int
    BY <2>2, SumsInt
  <2>7. ASSUME NEW y \in T, y # x PROVE h[T] = f[y] + h[T \ {y}]
    <3> PICK R : R = (T \ {x}) \ {y}
      OBVIOUS
    <3>1. R = (T \ {y}) \ {x} /\ y \in T \ {x} /\ x \in T \ {y} /\ R \in SUBSET S
      BY <2>2, <2>5, <2>7
    <3>2. h[T \ {x}] = f[y] + h[R] /\ h[T \ {y}] = f[x] + h[R]
      <4>1. h[T \ {x}] = f[y] + h[(T \ {x}) \ {y}]
        BY <2>3, <2>5, <3>1
      <4>2. h[T \ {y}] = f[x] + h[(T \ {y}) \ {x}]
        BY <2>3, <2>7, <3>1
      <4>3. QED
        BY <3>1, <4>1, <4>2
    <3>3. h[R] \in Int
      BY <3>1, SumsInt
    <3>4. f[x] \in Int /\ f[y] \in Int
      BY <2>2, <2>5
    <3>5. QED
      BY <2>5, <3>2, <3>3, <3>4
  <2>8. Fine(T)
    BY <2>5, <2>6, <2>7
  <2>9. QED
    BY <2>2, <2>8
<1>3. CASE D = {}
  BY <1>3
<1>4. QED
  BY <1>2, <1>3

(* The sums of a list's beginnings.                                        *)
LEMMA SumIs ==
  ASSUME NEW S, IsFiniteSet(S), NEW f, DOMAIN f = S, \A x \in S : f[x] \in Int
  PROVE  \E h : Sums(h, S, f) /\ SumFunction(f) = h[S]
<1>1. Sums(CHOOSE h : Sums(h, S, f), S, f)
  BY SumsExist
<1>2. SumFunction(f) = (CHOOSE h : Sums(h, S, f))[S]
  BY DEF SumFunction, SumFunctionOnSet, FoldFunctionOnSet, MapThenFoldSet, Sums
<1>3. QED
  BY <1>1, <1>2

LEMMA RunningSum ==
  ASSUME NEW n \in Nat, NEW f \in [1 .. n -> Int]
  PROVE  \E g \in [0 .. n -> Int] : /\ g[0] = 0 /\ SumFunction(f) = g[n]
                                    /\ \A k \in 1 .. n : g[k] = g[k - 1] + f[k]
<1>1. IsFiniteSet(1 .. n) /\ DOMAIN f = 1 .. n /\ \A x \in 1 .. n : f[x] \in Int
  BY FS_Interval
<1>2. PICK h : Sums(h, 1 .. n, f) /\ SumFunction(f) = h[1 .. n]
  BY <1>1, SumIs
<1>3. \A T \in SUBSET (1 .. n) : h[T] \in Int
  BY <1>1, <1>2, SumsInt
<1>4. ASSUME NEW k \in 1 .. n PROVE h[1 .. k] = f[k] + h[1 .. (k - 1)]
  <2>1. 1 .. k \in SUBSET (1 .. n) /\ k \in 1 .. k /\ (1 .. k) \ {k} = 1 .. (k - 1)
    OBVIOUS
  <2>2. AnyFirst(h, 1 .. n, f)
    BY <1>1, <1>2, SumsTakeOut
  <2>3. h[1 .. k] = f[k] + h[(1 .. k) \ {k}]
    BY <2>1, <2>2 DEF AnyFirst
  <2>4. QED
    BY <2>1, <2>3
<1>5. h[{}] = 0
  <2>1. {} \in SUBSET (1 .. n)
    OBVIOUS
  <2>2. IF {} = {} THEN h[{}] = 0 ELSE \E x \in {} : h[{}] = f[x] + h[{} \ {x}]
    BY <1>2, <2>1, SumsAt
  <2>3. QED
    BY <2>2
<1> DEFINE g == [k \in 0 .. n |-> h[1 .. k]]
<1>6. g \in [0 .. n -> Int]
  <2>1. \A k \in 0 .. n : 1 .. k \in SUBSET (1 .. n)
    OBVIOUS
  <2>2. QED
    BY <1>3, <2>1
<1>7. g[0] = 0
  <2>1. 1 .. 0 = {}
    OBVIOUS
  <2>2. QED
    BY <1>5, <2>1
<1>8. ASSUME NEW k \in 1 .. n PROVE g[k] = g[k - 1] + f[k]
  <2>1. k \in 0 .. n /\ k - 1 \in 0 .. n
    OBVIOUS
  <2>2. g[k] = h[1 .. k] /\ g[k - 1] = h[1 .. (k - 1)]
    BY <2>1
  <2>3. h[1 .. (k - 1)] \in Int
    BY <1>6, <2>1, <2>2
  <2>4. f[k] \in Int
    OBVIOUS
  <2>5. QED
    BY <1>4, <2>2, <2>3, <2>4
<1>9. SumFunction(f) = g[n]
  BY <1>2
<1>10. QED
  BY <1>6, <1>7, <1>8, <1>9

(* What the elements of a list weigh together.                             *)
Weight(w, s) == SumFunction([i \in DOMAIN s |-> w[s[i]]])

Weighs(g, w, s) ==
  /\ g \in [0 .. Len(s) -> Int] /\ g[0] = 0 /\ Weight(w, s) = g[Len(s)]
  /\ \A k \in 1 .. Len(s) : g[k] = g[k - 1] + w[s[k]]

LEMMA RunningWeight ==
  ASSUME NEW L, NEW w \in [L -> Int], NEW s \in Seq(L)
  PROVE  \E g : Weighs(g, w, s)
<1> DEFINE f == [i \in 1 .. Len(s) |-> w[s[i]]]
<1>1. Len(s) \in Nat /\ DOMAIN s = 1 .. Len(s) /\ \A i \in 1 .. Len(s) : s[i] \in L
  BY LenProperties, ElementOfSeq
<1>2. f \in [1 .. Len(s) -> Int] /\ Weight(w, s) = SumFunction(f)
  BY <1>1 DEF Weight
<1>3. \A k \in 1 .. Len(s) : f[k] = w[s[k]]
  OBVIOUS
<1> HIDE DEF f
<1>4. PICK g \in [0 .. Len(s) -> Int] :
        /\ g[0] = 0 /\ SumFunction(f) = g[Len(s)]
        /\ \A k \in 1 .. Len(s) : g[k] = g[k - 1] + f[k]
  BY <1>1, <1>2, RunningSum
<1>5. Weighs(g, w, s)
  BY <1>2, <1>3, <1>4 DEF Weighs
<1>6. QED
  BY <1>5

LEMMA WeightInt ==
  ASSUME NEW L, NEW w \in [L -> Int], NEW s \in Seq(L)
  PROVE  Weight(w, s) \in Int
<1>1. Len(s) \in 0 .. Len(s)
  BY LenProperties
<1>2. PICK g : Weighs(g, w, s)
  BY RunningWeight
<1>3. QED
  BY <1>1, <1>2 DEF Weighs

LEMMA WeightEmpty ==
  ASSUME NEW L, NEW w \in [L -> Int]
  PROVE  Weight(w, <<>>) = 0
<1>1. << >> \in Seq(L) /\ Len(<< >>) = 0
  OBVIOUS
<1>2. PICK g : Weighs(g, w, << >>)
  BY <1>1, RunningWeight
<1>3. QED
  BY <1>1, <1>2 DEF Weighs

LEMMA WeightConcat ==
  ASSUME NEW L, NEW w \in [L -> Int], NEW s \in Seq(L), NEW t \in Seq(L)
  PROVE  Weight(w, s \o t) = Weight(w, s) + Weight(w, t)
<1> PICK m : m = Len(s)
  OBVIOUS
<1> PICK n : n = Len(t)
  OBVIOUS
<1>1. /\ m \in Nat /\ n \in Nat /\ s \o t \in Seq(L) /\ Len(s \o t) = m + n
      /\ \A k \in 1 .. m + n : (s \o t)[k] = IF k <= m THEN s[k] ELSE t[k - m]
  BY LenProperties, ConcatProperties
<1>2. PICK a : Weighs(a, w, s)
  BY RunningWeight
<1>3. PICK b : Weighs(b, w, t)
  BY RunningWeight
<1>4. PICK c : Weighs(c, w, s \o t)
  BY <1>1, RunningWeight
<1>2a. /\ a \in [0 .. m -> Int] /\ a[0] = 0 /\ Weight(w, s) = a[m]
       /\ \A k \in 1 .. m : a[k] = a[k - 1] + w[s[k]]
  BY <1>2 DEF Weighs
<1>3a. /\ b \in [0 .. n -> Int] /\ b[0] = 0 /\ Weight(w, t) = b[n]
       /\ \A k \in 1 .. n : b[k] = b[k - 1] + w[t[k]]
  BY <1>3 DEF Weighs
<1>4a. /\ c \in [0 .. m + n -> Int] /\ c[0] = 0 /\ Weight(w, s \o t) = c[m + n]
       /\ \A k \in 1 .. m + n : c[k] = c[k - 1] + w[(s \o t)[k]]
  <2>1. Len(s \o t) = m + n
    BY <1>1
  <2> PICK q : q = s \o t
    OBVIOUS
  <2>2. QED
    BY <1>4, <2>1 DEF Weighs
<1> DEFINE d == [k \in 0 .. m + n |-> IF k <= m THEN a[k] ELSE a[m] + b[k - m]]
<1>5. c[0] = d[0]
  BY <1>1, <1>2a, <1>4a
<1>6. ASSUME NEW k \in 1 .. m + n, c[k - 1] = d[k - 1] PROVE c[k] = d[k]
  <2>1. k \in 0 .. m + n /\ k - 1 \in 0 .. m + n /\ m \in 0 .. m
    BY <1>1
  <2>2. CASE k <= m
    <3>1. d[k] = a[k] /\ d[k - 1] = a[k - 1] /\ k \in 1 .. m
      BY <1>1, <2>1, <2>2
    <3>2. a[k] = a[k - 1] + w[s[k]] /\ c[k] = c[k - 1] + w[s[k]]
      BY <1>1, <1>2a, <1>4a, <2>2, <3>1
    <3>3. QED
      BY <1>6, <3>1, <3>2
  <2>3. CASE ~(k <= m)
    <3> PICK j : j = k - m
      OBVIOUS
    <3>1. j \in 1 .. n /\ j - 1 \in 0 .. n /\ j \in 0 .. n /\ (k - 1) - m = j - 1
      BY <1>1, <2>3
    <3>2. d[k] = a[m] + b[j]
      BY <2>1, <2>3
    <3>3. d[k - 1] = a[m] + b[j - 1]
      <4>1. CASE k - 1 <= m
        <5>1. k - 1 = m /\ j - 1 = 0
          BY <1>1, <2>3, <4>1
        <5>2. a[m] \in Int
          BY <1>2a, <2>1
        <5>3. d[k - 1] = a[m]
          BY <1>1, <2>1, <5>1
        <5>4. QED
          BY <1>3a, <5>1, <5>2, <5>3
      <4>2. CASE ~(k - 1 <= m)
        BY <2>1, <3>1, <4>2
      <4>3. QED
        BY <4>1, <4>2
    <3>4. b[j] = b[j - 1] + w[t[j]] /\ c[k] = c[k - 1] + w[t[j]]
      BY <1>1, <1>3a, <1>4a, <2>3, <3>1
    <3>5. a[m] \in Int /\ b[j - 1] \in Int /\ w[t[j]] \in Int
      <4>1. t[j] \in L
        BY <3>1, ElementOfSeq
      <4>2. QED
        BY <1>2a, <1>3a, <2>1, <3>1, <4>1
    <3> HIDE DEF d
    <3>6. QED
      BY <1>6, <3>2, <3>3, <3>4, <3>5
  <2>4. QED
    BY <2>2, <2>3
<1>7. c[m + n] = d[m + n]
  <2>1. m + n \in Nat
    BY <1>1
  <2> HIDE DEF d
  <2>2. QED
    BY <1>5, <1>6, <2>1, RecursionUnique
<1>8. d[m + n] = a[m] + b[n]
  <2>1. CASE n = 0
    <3>1. d[m + n] = a[m] /\ a[m] \in Int
      BY <1>1, <1>2a, <2>1
    <3>2. QED
      BY <1>3a, <2>1, <3>1
  <2>2. CASE n # 0
    <3>1. m + n \in 0 .. m + n /\ ~(m + n <= m) /\ (m + n) - m = n
      BY <1>1, <2>2
    <3>2. QED
      BY <3>1
  <2>3. QED
    BY <2>1, <2>2
<1>9. QED
  BY <1>2a, <1>3a, <1>4a, <1>7, <1>8

LEMMA WeightOne ==
  ASSUME NEW L, NEW w \in [L -> Int], NEW x \in L
  PROVE  Weight(w, <<x>>) = w[x]
<1>1. << x >> \in Seq(L) /\ Len(<< x >>) = 1 /\ << x >>[1] = x
  OBVIOUS
<1>2. PICK g : Weighs(g, w, << x >>)
  BY <1>1, RunningWeight
<1>3. g[0] = 0 /\ Weight(w, << x >>) = g[1] /\ g[1] = g[1 - 1] + w[x] /\ w[x] \in Int
  BY <1>1, <1>2 DEF Weighs
<1>4. QED
  BY <1>3

LEMMA WeightAppend ==
  ASSUME NEW L, NEW w \in [L -> Int], NEW s \in Seq(L), NEW x \in L
  PROVE  Weight(w, Append(s, x)) = Weight(w, s) + w[x]
<1>1. << x >> \in Seq(L) /\ Append(s, x) = s \o << x >>
  BY AppendIsConcat
<1>2. Weight(w, s \o << x >>) = Weight(w, s) + Weight(w, << x >>)
  BY <1>1, WeightConcat
<1>3. QED
  BY <1>1, <1>2, WeightOne

-----------------------------------------------------------------------------
(* What FlattenSeq is, for lists of lists of elements of L.                *)

Joins(g, c, L) ==
  /\ g \in [0 .. Len(c) -> Seq(L)] /\ g[0] = << >> /\ FlattenSeq(c) = g[Len(c)]
  /\ \A k \in 1 .. Len(c) : g[k] = g[k - 1] \o c[k]

LEMMA FlattenJoins ==
  ASSUME NEW L, NEW c \in Seq(Seq(L))
  PROVE  \E g : Joins(g, c, L)
<1> PICK n : n = Len(c)
  OBVIOUS
<1>1. n \in Nat /\ DOMAIN c = 1 .. n /\ \A k \in 1 .. n : c[k] \in Seq(L)
  <2>1. Len(c) \in Nat /\ DOMAIN c = 1 .. Len(c)
    BY LenProperties
  <2>2. \A k \in 1 .. Len(c) : c[k] \in Seq(L)
    BY ElementOfSeq
  <2>3. QED
    BY <2>1, <2>2
<1> DEFINE s == [k \in 1 .. n |-> [v \in Seq(L) |-> v \o c[k]]]
<1>2. s \in [1 .. n -> [Seq(L) -> Seq(L)]] /\ << >> \in Seq(L)
  BY <1>1, ConcatProperties, EmptySeq
<1>3. \E g : Recurs(g, Seq(L), << >>, s, n)
  <2> HIDE DEF s
  <2>1. QED
    BY <1>1, <1>2, RecursionExists
<1>4. PICK g : Recurs(g, Seq(L), << >>, s, n)
  BY <1>3
<1>5. /\ g \in [0 .. n -> Seq(L)] /\ g[0] = << >>
      /\ \A k \in 1 .. n : g[k] = s[k][g[k - 1]]
  BY <1>4 DEF Recurs
<1>6. ASSUME NEW k \in 1 .. n PROVE g[k] = g[k - 1] \o c[k]
  <2>1. k - 1 \in 0 .. n
    BY <1>1
  <2>2. g[k - 1] \in Seq(L)
    BY <1>5, <2>1
  <2>3. g[k] = s[k][g[k - 1]]
    BY <1>5
  <2>4. QED
    BY <2>2, <2>3
<1> HIDE DEF s
<1>7. FlattenSeq(c) = g[n]
  <2>1. CASE n = 0
    BY <1>5, <2>1, EmptySeq DEF FlattenSeq
  <2>2. CASE n # 0
    <3> DEFINE f == [i \in 1 .. n |-> g[i]]
    <3>1. n \in 1 .. n /\ n \in Nat \ {0}
      BY <1>1, <2>2
    <3>2. ASSUME NEW i \in 1 .. n
          PROVE  g[i] = IF i = 1 THEN c[i] ELSE f[i - 1] \o c[i]
      <4>1. CASE i = 1
        <5>1. 1 \in 1 .. n /\ 1 - 1 = 0
          BY <1>1, <4>1
        <5>2. g[1] = g[0] \o c[1] /\ c[1] \in Seq(L)
          BY <1>1, <1>6, <5>1
        <5>3. << >> \o c[1] = c[1]
          BY <5>2, ConcatEmptySeq
        <5>4. QED
          BY <1>5, <4>1, <5>2, <5>3
      <4>2. CASE i # 1
        <5>1. i - 1 \in 1 .. n
          BY <1>1, <4>2
        <5>2. QED
          BY <1>6, <4>2, <5>1
      <4>3. QED
        BY <4>1, <4>2
    <3>3. f = [i \in 1 .. n |-> IF i = 1 THEN c[i] ELSE f[i - 1] \o c[i]]
      BY <3>2
    <3>4. f[n] = g[n]
      BY <3>1
    <3> HIDE DEF f
    <3>5. Flattens(f, c, n)
      BY <3>3, Zenon DEF Flattens
    <3>6. FlattenSeq(c) = f[n]
      BY <3>1, <3>5, FlattenIs
    <3>7. QED
      BY <3>4, <3>6
  <2>3. QED
    BY <2>1, <2>2
<1>8. Joins(g, c, L)
  BY <1>5, <1>6, <1>7 DEF Joins
<1>9. QED
  BY <1>8

LEMMA FlattenTyped ==
  ASSUME NEW L, NEW c \in Seq(Seq(L))
  PROVE  FlattenSeq(c) \in Seq(L)
<1>1. PICK g : Joins(g, c, L)
  BY FlattenJoins
<1>2. Len(c) \in 0 .. Len(c)
  BY LenProperties
<1>3. QED
  BY <1>1, <1>2 DEF Joins

LEMMA FlattenEmpty == FlattenSeq(<< >>) = << >>
BY DEF FlattenSeq

Regroups(x, y, z) == (x \o y) \o z = x \o (y \o z)

LEMMA Associative ==
  ASSUME NEW L, NEW x \in Seq(L), NEW y \in Seq(L), NEW z \in Seq(L)
  PROVE  Regroups(x, y, z)
BY DEF Regroups

LEMMA FlattenConcat ==
  ASSUME NEW L, NEW s \in Seq(Seq(L)), NEW t \in Seq(Seq(L))
  PROVE  FlattenSeq(s \o t) = FlattenSeq(s) \o FlattenSeq(t)
<1> PICK m : m = Len(s)
  OBVIOUS
<1> PICK n : n = Len(t)
  OBVIOUS
<1> PICK q : q = s \o t
  OBVIOUS
<1>1. /\ m \in Nat /\ n \in Nat /\ q \in Seq(Seq(L)) /\ Len(q) = m + n
      /\ \A k \in 1 .. m + n : q[k] = IF k <= m THEN s[k] ELSE t[k - m]
  BY LenProperties, ConcatProperties
<1>2. PICK a : Joins(a, s, L)
  BY FlattenJoins
<1>3. PICK b : Joins(b, t, L)
  BY FlattenJoins
<1>4. PICK c : Joins(c, q, L)
  BY <1>1, FlattenJoins
<1>5. /\ a \in [0 .. m -> Seq(L)] /\ a[0] = << >> /\ FlattenSeq(s) = a[m]
      /\ \A k \in 1 .. m : a[k] = a[k - 1] \o s[k]
  BY <1>2 DEF Joins
<1>6. /\ b \in [0 .. n -> Seq(L)] /\ b[0] = << >> /\ FlattenSeq(t) = b[n]
      /\ \A k \in 1 .. n : b[k] = b[k - 1] \o t[k]
  BY <1>3 DEF Joins
<1>7. /\ c \in [0 .. m + n -> Seq(L)] /\ c[0] = << >> /\ FlattenSeq(q) = c[m + n]
      /\ \A k \in 1 .. m + n : c[k] = c[k - 1] \o q[k]
  BY <1>1, <1>4 DEF Joins
<1> DEFINE d == [k \in 0 .. m + n |-> IF k <= m THEN a[k] ELSE a[m] \o b[k - m]]
<1>8. c[0] = d[0]
  BY <1>1, <1>5, <1>7
<1>9. ASSUME NEW k \in 1 .. m + n, c[k - 1] = d[k - 1] PROVE c[k] = d[k]
  <2>1. k \in 0 .. m + n /\ k - 1 \in 0 .. m + n /\ m \in 0 .. m
    BY <1>1
  <2>2. CASE k <= m
    <3>1. d[k] = a[k] /\ d[k - 1] = a[k - 1] /\ k \in 1 .. m
      BY <1>1, <2>1, <2>2
    <3>2. a[k] = a[k - 1] \o s[k] /\ c[k] = c[k - 1] \o s[k]
      BY <1>1, <1>5, <1>7, <2>2, <3>1
    <3> HIDE DEF d
    <3>3. QED
      BY <1>9, <3>1, <3>2
  <2>3. CASE ~(k <= m)
    <3> PICK j : j = k - m
      OBVIOUS
    <3>1. j \in 1 .. n /\ j - 1 \in 0 .. n /\ j \in 0 .. n /\ (k - 1) - m = j - 1
      BY <1>1, <2>3
    <3>2. d[k] = a[m] \o b[j]
      BY <2>1, <2>3
    <3>3. d[k - 1] = a[m] \o b[j - 1]
      <4>1. CASE k - 1 <= m
        <5>1. k - 1 = m /\ j - 1 = 0
          BY <1>1, <2>3, <4>1
        <5>2. a[m] \in Seq(L)
          BY <1>5, <2>1
        <5>3. d[k - 1] = a[m]
          BY <1>1, <2>1, <5>1
        <5>4. a[m] \o << >> = a[m]
          BY <5>2, ConcatEmptySeq
        <5> HIDE DEF d
        <5>5. QED
          BY <1>6, <5>1, <5>3, <5>4
      <4>2. CASE ~(k - 1 <= m)
        BY <2>1, <3>1, <4>2
      <4>3. QED
        BY <4>1, <4>2
    <3> HIDE DEF d
    <3>4. b[j] = b[j - 1] \o t[j] /\ c[k] = c[k - 1] \o t[j]
      BY <1>1, <1>6, <1>7, <2>3, <3>1
    <3>5. a[m] \in Seq(L) /\ b[j - 1] \in Seq(L) /\ t[j] \in Seq(L)
      <4>1. t[j] \in Seq(L)
        BY <3>1, ElementOfSeq
      <4>2. QED
        BY <1>5, <1>6, <2>1, <3>1, <4>1
    <3>6. Regroups(a[m], b[j - 1], t[j])
      BY <3>5, Associative
    <3>7. (a[m] \o b[j - 1]) \o t[j] = a[m] \o (b[j - 1] \o t[j])
      BY <3>6, Zenon DEF Regroups
    <3>8. QED
      BY <1>9, <3>2, <3>3, <3>4, <3>7
  <2>4. QED
    BY <2>2, <2>3
<1>10. c[m + n] = d[m + n]
  <2>1. m + n \in Nat
    BY <1>1
  <2> HIDE DEF d
  <2>2. QED
    BY <1>8, <1>9, <2>1, RecursionUnique
<1>11. d[m + n] = a[m] \o b[n]
  <2>1. CASE n = 0
    <3>1. d[m + n] = a[m] /\ a[m] \in Seq(L)
      BY <1>1, <1>5, <2>1
    <3>2. a[m] \o << >> = a[m]
      BY <3>1, ConcatEmptySeq
    <3> HIDE DEF d
    <3>3. QED
      BY <1>6, <2>1, <3>1, <3>2
  <2>2. CASE n # 0
    <3>1. m + n \in 0 .. m + n /\ ~(m + n <= m) /\ (m + n) - m = n
      BY <1>1, <2>2
    <3>2. QED
      BY <3>1
  <2>3. QED
    BY <2>1, <2>2
<1> HIDE DEF d
<1>12. QED
  BY <1>5, <1>6, <1>7, <1>10, <1>11

LEMMA FlattenOne ==
  ASSUME NEW L, NEW x \in Seq(L)
  PROVE  FlattenSeq(<< x >>) = x
<1> PICK q : q = << x >>
  OBVIOUS
<1>1. q \in Seq(Seq(L)) /\ Len(q) = 1 /\ q[1] = x
  OBVIOUS
<1>2. PICK g : Joins(g, q, L)
  BY <1>1, FlattenJoins
<1>3. g[0] = << >> /\ FlattenSeq(q) = g[1] /\ g[1] = g[0] \o q[1]
  <2>1. 1 \in 1 .. 1 /\ 1 - 1 = 0
    OBVIOUS
  <2>2. \A k \in 1 .. 1 : g[k] = g[k - 1] \o q[k]
    BY <1>1, <1>2 DEF Joins
  <2>3. QED
    BY <1>1, <1>2, <2>1, <2>2 DEF Joins
<1>4. << >> \o x = x
  BY ConcatEmptySeq
<1>5. QED
  BY <1>1, <1>3, <1>4

(* A list of lists weighs what the lists weigh.                            *)
LEMMA WeightFlatten ==
  ASSUME NEW L, NEW w \in [L -> Int], NEW c \in Seq(Seq(L))
  PROVE  Weight(w, FlattenSeq(c)) = Weight([x \in Seq(L) |-> Weight(w, x)], c)
<1> DEFINE v == [x \in Seq(L) |-> Weight(w, x)]
<1> PICK n : n = Len(c)
  OBVIOUS
<1>1. n \in Nat /\ \A k \in 1 .. n : c[k] \in Seq(L)
  <2>1. Len(c) \in Nat
    BY LenProperties
  <2>2. \A k \in 1 .. Len(c) : c[k] \in Seq(L)
    BY ElementOfSeq
  <2>3. QED
    BY <2>1, <2>2
<1>2. v \in [Seq(L) -> Int] /\ \A x \in Seq(L) : v[x] = Weight(w, x)
  BY WeightInt
<1> HIDE DEF v
<1>3. PICK g : Joins(g, c, L)
  BY FlattenJoins
<1>4. /\ g \in [0 .. n -> Seq(L)] /\ g[0] = << >> /\ FlattenSeq(c) = g[n]
      /\ \A k \in 1 .. n : g[k] = g[k - 1] \o c[k]
  BY <1>3 DEF Joins
<1>5. PICK r : Weighs(r, v, c)
  BY <1>2, RunningWeight
<1>6. /\ r[0] = 0 /\ Weight(v, c) = r[n]
      /\ \A k \in 1 .. n : r[k] = r[k - 1] + v[c[k]]
  BY <1>5 DEF Weighs
<1> DEFINE u == [k \in 0 .. n |-> Weight(w, g[k])]
<1>7. u[0] = r[0]
  BY <1>1, <1>4, <1>6, WeightEmpty
<1>8. ASSUME NEW k \in 1 .. n, u[k - 1] = r[k - 1] PROVE u[k] = r[k]
  <2>1. k \in 0 .. n /\ k - 1 \in 0 .. n
    BY <1>1
  <2>2. u[k] = Weight(w, g[k]) /\ u[k - 1] = Weight(w, g[k - 1])
    BY <2>1
  <2>3. g[k] = g[k - 1] \o c[k] /\ g[k - 1] \in Seq(L) /\ c[k] \in Seq(L)
    BY <1>1, <1>4, <2>1
  <2>4. Weight(w, g[k - 1] \o c[k]) = Weight(w, g[k - 1]) + Weight(w, c[k])
    BY <2>3, WeightConcat
  <2> HIDE DEF u
  <2>5. QED
    BY <1>2, <1>6, <1>8, <2>2, <2>3, <2>4
<1>9. u[n] = Weight(w, g[n])
  BY <1>1
<1>10. u[n] = r[n]
  <2> HIDE DEF u
  <2>1. QED
    BY <1>1, <1>7, <1>8, RecursionUnique
<1>11. Weight(w, FlattenSeq(c)) = Weight(v, c)
  <2> HIDE DEF u
  <2>1. QED
    BY <1>4, <1>6, <1>9, <1>10
<1>12. QED
  BY <1>11 DEF v

-----------------------------------------------------------------------------
(* Lists mapped, and filtered.                                             *)

Map(f, s) == [k \in DOMAIN s |-> f[s[k]]]

Maps(m, f, s, B) ==
  /\ m \in Seq(B) /\ Len(m) = Len(s)
  /\ \A k \in 1 .. Len(s) : m[k] = f[s[k]]

LEMMA MapTyped ==
  ASSUME NEW A, NEW B, NEW f \in [A -> B], NEW s \in Seq(A)
  PROVE  Maps(Map(f, s), f, s, B)
<1>1. Len(s) \in Nat /\ DOMAIN s = 1 .. Len(s) /\ \A k \in 1 .. Len(s) : s[k] \in A
  BY LenProperties, ElementOfSeq
<1>2. Map(f, s) \in [1 .. Len(s) -> B]
  BY <1>1 DEF Map
<1>3. Map(f, s) \in Seq(B) /\ Len(Map(f, s)) = Len(s)
  BY <1>1, <1>2
<1>4. QED
  BY <1>1, <1>3 DEF Map, Maps

(* Lists are equal when their elements are.                                *)
LEMMA SameList ==
  ASSUME NEW A, NEW s \in Seq(A), NEW t \in Seq(A), Len(s) = Len(t),
         \A k \in 1 .. Len(s) : s[k] = t[k]
  PROVE  s = t
<1>1. s \in [1 .. Len(s) -> A] /\ t \in [1 .. Len(s) -> A]
  BY LenProperties
<1>2. QED
  BY <1>1

LEMMA MapConcat ==
  ASSUME NEW A, NEW B, NEW f \in [A -> B], NEW s \in Seq(A), NEW t \in Seq(A)
  PROVE  Map(f, s \o t) = Map(f, s) \o Map(f, t)
<1> PICK q : q = s \o t
  OBVIOUS
<1> PICK m : m = Len(s)
  OBVIOUS
<1> PICK n : n = Len(t)
  OBVIOUS
<1>1. /\ m \in Nat /\ n \in Nat /\ q \in Seq(A) /\ Len(q) = m + n
      /\ \A k \in 1 .. m + n : q[k] = IF k <= m THEN s[k] ELSE t[k - m]
  BY LenProperties, ConcatProperties
<1> PICK a : a = Map(f, s)
  OBVIOUS
<1> PICK b : b = Map(f, t)
  OBVIOUS
<1> PICK c : c = Map(f, q)
  OBVIOUS
<1>2. Maps(a, f, s, B) /\ Maps(b, f, t, B) /\ Maps(c, f, q, B)
  BY <1>1, MapTyped
<1>3. /\ a \in Seq(B) /\ Len(a) = m /\ \A k \in 1 .. m : a[k] = f[s[k]]
      /\ b \in Seq(B) /\ Len(b) = n /\ \A k \in 1 .. n : b[k] = f[t[k]]
      /\ c \in Seq(B) /\ Len(c) = m + n /\ \A k \in 1 .. m + n : c[k] = f[q[k]]
  BY <1>1, <1>2 DEF Maps
<1> PICK d : d = a \o b
  OBVIOUS
<1>4. /\ d \in Seq(B) /\ Len(d) = Len(a) + Len(b)
      /\ \A k \in 1 .. Len(a) + Len(b) : d[k] = IF k <= Len(a) THEN a[k] ELSE b[k - Len(a)]
  <2>1. a \in Seq(B) /\ b \in Seq(B)
    BY <1>3
  <2>2. QED
    BY <2>1, ConcatProperties
<1>5. ASSUME NEW k \in 1 .. m + n PROVE c[k] = d[k]
  <2>1. c[k] = f[q[k]] /\ d[k] = IF k <= m THEN a[k] ELSE b[k - m]
    BY <1>3, <1>4
  <2>2. CASE k <= m
    <3>1. k \in 1 .. m /\ q[k] = s[k]
      BY <1>1, <2>2
    <3>2. a[k] = f[s[k]]
      BY <1>3, <3>1
    <3>3. QED
      BY <2>1, <2>2, <3>1, <3>2
  <2>3. CASE ~(k <= m)
    <3>1. k - m \in 1 .. n /\ q[k] = t[k - m]
      BY <1>1, <2>3
    <3>2. b[k - m] = f[t[k - m]]
      BY <1>3, <3>1
    <3>3. QED
      BY <2>1, <2>3, <3>1, <3>2
  <2>4. QED
    BY <2>2, <2>3
<1>6. c = d
  <2>1. /\ c \in Seq(B) /\ d \in Seq(B) /\ Len(c) = Len(d)
        /\ \A k \in 1 .. Len(c) : c[k] = d[k]
    BY <1>3, <1>4, <1>5
  <2>2. QED
    BY <2>1, SameList
<1>7. QED
  BY <1>6, Zenon

(* v weighs an element of A as w weighs its image under f.                 *)
Agree(v, w, f, A) == \A x \in A : v[x] = w[f[x]]

LEMMA WeightMap ==
  ASSUME NEW A, NEW s \in Seq(A), NEW f, NEW w, NEW v, Agree(v, w, f, A)
  PROVE  Weight(w, Map(f, s)) = Weight(v, s)
<1>1. DOMAIN s = 1 .. Len(s) /\ \A k \in 1 .. Len(s) : s[k] \in A
  BY LenProperties, ElementOfSeq
<1>2. [i \in DOMAIN Map(f, s) |-> w[Map(f, s)[i]]] = [i \in DOMAIN s |-> v[s[i]]]
  BY <1>1 DEF Map, Agree
<1>3. QED
  BY <1>2 DEF Weight

Keep(T, L) == [x \in L |-> IF x \in T THEN << x >> ELSE << >>]

LEMMA KeepTyped ==
  ASSUME NEW L, NEW T
  PROVE  Keep(T, L) \in [L -> Seq(L)]
<1>1. ASSUME NEW x \in L PROVE (IF x \in T THEN << x >> ELSE << >>) \in Seq(L)
  OBVIOUS
<1>2. QED
  BY <1>1 DEF Keep

LEMMA KeptIs ==
  ASSUME NEW L, NEW T, NEW s \in Seq(L)
  PROVE  Kept(s, T) = FlattenSeq(Map(Keep(T, L), s))
<1>1. \A k \in DOMAIN s : s[k] \in L
  BY LenProperties, ElementOfSeq
<1>2. [k \in DOMAIN s |-> IF s[k] \in T THEN << s[k] >> ELSE << >>] = Map(Keep(T, L), s)
  BY <1>1 DEF Map, Keep
<1>3. QED
  BY <1>2 DEF Kept

LEMMA KeptTyped ==
  ASSUME NEW L, NEW T, NEW s \in Seq(L)
  PROVE  Kept(s, T) \in Seq(L)
<1>1. Map(Keep(T, L), s) \in Seq(Seq(L))
  BY KeepTyped, MapTyped DEF Maps
<1>2. QED
  BY <1>1, KeptIs, FlattenTyped

LEMMA KeptConcat ==
  ASSUME NEW L, NEW T, NEW s \in Seq(L), NEW t \in Seq(L)
  PROVE  Kept(s \o t, T) = Kept(s, T) \o Kept(t, T)
<1> PICK K : K = Keep(T, L)
  OBVIOUS
<1>1. K \in [L -> Seq(L)] /\ s \o t \in Seq(L)
  BY KeepTyped, ConcatProperties
<1>2. Map(K, s) \in Seq(Seq(L)) /\ Map(K, t) \in Seq(Seq(L))
  BY <1>1, MapTyped DEF Maps
<1>3. Map(K, s \o t) = Map(K, s) \o Map(K, t)
  BY <1>1, MapConcat, ZenonT(60)
<1>4. FlattenSeq(Map(K, s) \o Map(K, t)) = FlattenSeq(Map(K, s)) \o FlattenSeq(Map(K, t))
  BY <1>2, FlattenConcat
<1>5. Kept(s \o t, T) = FlattenSeq(Map(K, s \o t))
  BY <1>1, KeptIs
<1>6. Kept(s, T) = FlattenSeq(Map(K, s)) /\ Kept(t, T) = FlattenSeq(Map(K, t))
  BY KeptIs
<1>7. QED
  BY <1>3, <1>4, <1>5, <1>6

LEMMA KeptEmpty == ASSUME NEW T PROVE Kept(<< >>, T) = << >>
<1>1. [k \in DOMAIN << >> |-> IF << >>[k] \in T THEN << << >>[k] >> ELSE << >>] = << >>
  OBVIOUS
<1>2. QED
  BY <1>1, FlattenEmpty DEF Kept

LEMMA KeptOne ==
  ASSUME NEW L, NEW T, NEW x \in L
  PROVE  Kept(<< x >>, T) = IF x \in T THEN << x >> ELSE << >>
<1> PICK y : y = IF x \in T THEN << x >> ELSE << >>
  OBVIOUS
<1>1. y \in Seq(L)
  OBVIOUS
<1>2. [k \in DOMAIN << x >> |-> IF << x >>[k] \in T THEN << << x >>[k] >> ELSE << >>] = << y >>
  OBVIOUS
<1>3. FlattenSeq(<< y >>) = y
  BY <1>1, FlattenOne
<1>4. QED
  BY <1>2, <1>3 DEF Kept

LEMMA KeptAppend ==
  ASSUME NEW L, NEW T, NEW s \in Seq(L), NEW x \in L
  PROVE  Kept(Append(s, x), T)
           = IF x \in T THEN Append(Kept(s, T), x) ELSE Kept(s, T)
<1>1. Append(s, x) = s \o << x >> /\ << x >> \in Seq(L)
  BY AppendIsConcat
<1>2. Kept(s \o << x >>, T) = Kept(s, T) \o Kept(<< x >>, T)
  BY <1>1, KeptConcat
<1> PICK a : a = Kept(s, T)
  OBVIOUS
<1>3. a \in Seq(L)
  BY KeptTyped
<1>4. CASE x \in T
  <2>1. Append(a, x) = a \o << x >>
    BY <1>3, AppendIsConcat
  <2>2. Kept(<< x >>, T) = << x >>
    BY <1>4, KeptOne
  <2>3. QED
    BY <1>1, <1>2, <1>4, <2>1, <2>2
<1>5. CASE x \notin T
  <2>1. a \o << >> = a
    BY <1>3, ConcatEmptySeq
  <2>2. Kept(<< x >>, T) = << >>
    BY <1>5, KeptOne
  <2>3. QED
    BY <1>1, <1>2, <1>5, <2>1, <2>2
<1>6. QED
  BY <1>4, <1>5

LEMMA KeptSame ==
  ASSUME NEW s, NEW T, NEW U, \A k \in DOMAIN s : s[k] \in T <=> s[k] \in U
  PROVE  Kept(s, T) = Kept(s, U)
<1>1. [k \in DOMAIN s |-> IF s[k] \in T THEN << s[k] >> ELSE << >>]
        = [k \in DOMAIN s |-> IF s[k] \in U THEN << s[k] >> ELSE << >>]
  OBVIOUS
<1>2. QED
  BY <1>1 DEF Kept

(* Filtering a list step by step.                                          *)
Keeps(r, s, T, L) ==
  /\ r \in [0 .. Len(s) -> Seq(L)] /\ r[0] = << >> /\ Kept(s, T) = r[Len(s)]
  /\ \A k \in 1 .. Len(s) : r[k] = IF s[k] \in T THEN Append(r[k - 1], s[k]) ELSE r[k - 1]

LEMMA KeptSteps ==
  ASSUME NEW L, NEW T, NEW s \in Seq(L)
  PROVE  \E r : Keeps(r, s, T, L)
<1> PICK n : n = Len(s)
  OBVIOUS
<1> PICK K : K = Keep(T, L)
  OBVIOUS
<1>1. n \in Nat /\ \A k \in 1 .. n : s[k] \in L
  BY LenProperties, ElementOfSeq
<1>2. K \in [L -> Seq(L)] /\ \A x \in L : K[x] = IF x \in T THEN << x >> ELSE << >>
  BY KeepTyped DEF Keep
<1> PICK c : c = Map(K, s)
  OBVIOUS
<1>3. c \in Seq(Seq(L)) /\ Len(c) = n /\ \A k \in 1 .. n : c[k] = K[s[k]]
  <2>1. Maps(c, K, s, Seq(L))
    BY <1>2, MapTyped
  <2>2. QED
    BY <2>1 DEF Maps
<1>4. PICK g : Joins(g, c, L)
  BY <1>3, FlattenJoins
<1>5. /\ g \in [0 .. n -> Seq(L)] /\ g[0] = << >> /\ FlattenSeq(c) = g[n]
      /\ \A k \in 1 .. n : g[k] = g[k - 1] \o c[k]
  BY <1>3, <1>4 DEF Joins
<1>6. ASSUME NEW k \in 1 .. n
      PROVE  g[k] = IF s[k] \in T THEN Append(g[k - 1], s[k]) ELSE g[k - 1]
  <2> PICK a : a = g[k - 1]
    OBVIOUS
  <2> PICK x : x = s[k]
    OBVIOUS
  <2>1. k - 1 \in 0 .. n
    BY <1>1
  <2>2. a \in Seq(L) /\ x \in L
    BY <1>1, <1>5, <2>1
  <2>3. g[k] = a \o K[x]
    BY <1>3, <1>5
  <2>4. Append(a, x) = a \o << x >> /\ a \o << >> = a
    BY <2>2, AppendIsConcat, ConcatEmptySeq
  <2>5. QED
    BY <1>2, <2>2, <2>3, <2>4
<1>7. Kept(s, T) = g[n]
  BY <1>5, KeptIs
<1>8. Keeps(g, s, T, L)
  BY <1>5, <1>6, <1>7 DEF Keeps
<1>9. QED
  BY <1>8

LEMMA KeptNone ==
  ASSUME NEW L, NEW T, NEW s \in Seq(L), \A k \in 1 .. Len(s) : s[k] \notin T
  PROVE  Kept(s, T) = << >>
<1>1. PICK r : Keeps(r, s, T, L)
  BY KeptSteps
<1>2. /\ r[0] = << >> /\ Kept(s, T) = r[Len(s)]
      /\ \A k \in 1 .. Len(s) : r[k] = r[k - 1]
  BY <1>1 DEF Keeps
<1> DEFINE v == [k \in 0 .. Len(s) |-> << >>]
<1>3. Len(s) \in Nat
  BY LenProperties
<1>4. v[0] = << >> /\ v[Len(s)] = << >> /\ \A k \in 1 .. Len(s) : v[k] = v[k - 1]
  <2>1. \A k \in 1 .. Len(s) : k \in 0 .. Len(s) /\ k - 1 \in 0 .. Len(s)
    BY <1>3
  <2>2. 0 \in 0 .. Len(s) /\ Len(s) \in 0 .. Len(s)
    BY <1>3
  <2>3. QED
    BY <2>1, <2>2
<1>5. r[Len(s)] = v[Len(s)]
  <2> HIDE DEF v
  <2>1. r[0] = v[0] /\ \A k \in 1 .. Len(s) : r[k - 1] = v[k - 1] => r[k] = v[k]
    BY <1>2, <1>4
  <2>2. QED
    BY <1>3, <2>1, RecursionUnique
<1>6. QED
  BY <1>2, <1>4, <1>5

LEMMA KeptAll ==
  ASSUME NEW L, NEW T, NEW s \in Seq(L), \A k \in 1 .. Len(s) : s[k] \in T
  PROVE  Kept(s, T) = s
<1> PICK n : n = Len(s)
  OBVIOUS
<1>1. PICK r : Keeps(r, s, T, L)
  BY KeptSteps
<1>2. /\ r \in [0 .. n -> Seq(L)] /\ r[0] = << >> /\ Kept(s, T) = r[n]
      /\ \A k \in 1 .. n : r[k] = Append(r[k - 1], s[k])
  BY <1>1 DEF Keeps
<1>3. n \in Nat /\ \A k \in 1 .. n : s[k] \in L
  BY LenProperties, ElementOfSeq
<1> DEFINE D == {k \in 0 .. n : Len(r[k]) = k /\ \A i \in 1 .. k : r[k][i] = s[i]}
<1>4. 0 \in D
  BY <1>2, <1>3, EmptySeq
<1>5. ASSUME NEW k \in 0 .. n, k \in D, k # n PROVE k + 1 \in D
  <2>1. k + 1 \in 1 .. n /\ (k + 1) - 1 = k /\ k \in Nat /\ k + 1 \in 0 .. n
    BY <1>3, <1>5
  <2>2. r[k + 1] = Append(r[k], s[k + 1]) /\ r[k] \in Seq(L) /\ s[k + 1] \in L
    BY <1>2, <1>3, <2>1
  <2>3. /\ Len(r[k + 1]) = k + 1 /\ r[k + 1][k + 1] = s[k + 1]
        /\ \A i \in 1 .. k : r[k + 1][i] = r[k][i]
    BY <1>5, <2>2, AppendProperties
  <2>4. ASSUME NEW i \in 1 .. k + 1 PROVE r[k + 1][i] = s[i]
    <3>1. CASE i = k + 1
      BY <2>3, <3>1
    <3>2. CASE i # k + 1
      <4>1. i \in 1 .. k
        BY <2>1, <3>2
      <4>2. QED
        BY <1>5, <2>3, <4>1
    <3>3. QED
      BY <3>1, <3>2
  <2>5. QED
    BY <2>1, <2>3, <2>4
<1>6. n \in D
  <2> HIDE DEF D
  <2>1. \A k \in 0 .. n : k \in D
    BY <1>3, <1>4, <1>5, Induction
  <2>2. QED
    BY <1>3, <2>1
<1>7. r[n] \in Seq(L)
  BY <1>2, <1>3
<1>8. QED
  BY <1>2, <1>6, <1>7, SameList

-----------------------------------------------------------------------------
(* FoldLeft: the greatest position of a list is taken out first.           *)

LEMMA MaxExists ==
  ASSUME NEW n \in Nat, NEW T \in SUBSET (1 .. n), T # {}
  PROVE  /\ Max(T) \in T
         /\ \A k \in 1 .. n : Max(1 .. k) = k
<1> DEFINE D == {n - k : k \in T}
<1>1. D \in SUBSET Nat /\ D # {}
  <2>1. \A k \in T : k \in 1 .. n /\ n - k \in Nat
    OBVIOUS
  <2>2. PICK k : k \in T
    OBVIOUS
  <2>3. n - k \in D
    BY <2>2
  <2>4. QED
    BY <2>1, <2>3
<1>2. PICK d \in D : \A e \in D : d <= e
  <2> HIDE DEF D
  <2>1. QED
    BY <1>1, LeastExists
<1>3. PICK x \in T : d = n - x
  BY <1>2
<1>4. ASSUME NEW y \in T PROVE x >= y
  <2>1. n - y \in D
    OBVIOUS
  <2>2. n - x <= n - y
    BY <1>2, <1>3, <2>1
  <2>3. x \in 1 .. n /\ y \in 1 .. n
    OBVIOUS
  <2>4. QED
    BY <2>2, <2>3
<1>5. Max(T) \in T
  BY <1>4 DEF Max
<1>6. ASSUME NEW k \in 1 .. n PROVE Max(1 .. k) = k
  <2>1. k \in 1 .. k /\ \A y \in 1 .. k : k >= y
    OBVIOUS
  <2>2. \A z \in 1 .. k : (\A y \in 1 .. k : z >= y) => z = k
    <3>1. ASSUME NEW z \in 1 .. k, \A y \in 1 .. k : z >= y PROVE z = k
      BY <2>1, <3>1
    <3>2. QED
      BY <3>1
  <2>3. QED
    BY <2>1, <2>2 DEF Max
<1>7. QED
  BY <1>5, <1>6

-----------------------------------------------------------------------------
(* Payment.from_orders, order by order.                                    *)

PaidOrders ==
  [offers : Seq(Offers), delivery : Deliveries \union {None},
   created : Int \union {None}, ordered : Int,
   payment : PaymentIds, paid : PaidDays, amount : Int]
Groups == [id : PaymentIds, orders : Seq(PaidOrders)]

Adds(h, s) ==
  h = [T \in SUBSET DOMAIN s |->
         IF T = {} THEN << >>
         ELSE AddOrder(h[T \ {Max(T)}], s[Max(T)])]

LEMMA AddTyped ==
  ASSUME NEW g \in Seq(Groups), NEW o \in PaidOrders
  PROVE  AddOrder(g, o) \in Seq(Groups)
<1>1. DOMAIN g = 1 .. Len(g) /\ Len(g) \in Nat /\ \A k \in DOMAIN g : g[k] \in Groups
  BY LenProperties, ElementOfSeq
<1>2. [id |-> o.payment, orders |-> << o >>] \in Groups
  BY DEF Groups, PaidOrders
<1>3. ASSUME NEW k \in DOMAIN g
      PROVE  [g[k] EXCEPT !.orders = Append(@, o)] \in Groups
  <2>1. g[k] \in Groups
    BY <1>1
  <2>2. g[k].orders \in Seq(PaidOrders)
    BY <2>1 DEF Groups
  <2>3. Append(g[k].orders, o) \in Seq(PaidOrders)
    BY <2>2, AppendProperties
  <2>4. QED
    BY <2>1, <2>3 DEF Groups
<1>4. CASE \E k \in DOMAIN g : g[k].id = o.payment
  <2> DEFINE f == [k \in DOMAIN g |->
                     IF g[k].id = o.payment
                     THEN [g[k] EXCEPT !.orders = Append(@, o)] ELSE g[k]]
  <2>1. f \in [1 .. Len(g) -> Groups]
    <3>1. \A k \in 1 .. Len(g) :
            (IF g[k].id = o.payment
             THEN [g[k] EXCEPT !.orders = Append(@, o)] ELSE g[k]) \in Groups
      BY <1>1, <1>3
    <3>2. QED
      BY <1>1, <3>1
  <2>2. f \in Seq(Groups)
    <3> HIDE DEF f
    <3>1. QED
      BY <1>1, <2>1
  <2>3. QED
    BY <1>4, <2>2 DEF AddOrder
<1>5. CASE ~(\E k \in DOMAIN g : g[k].id = o.payment)
  <2>1. Append(g, [id |-> o.payment, orders |-> << o >>]) \in Seq(Groups)
    BY <1>2, AppendProperties
  <2>2. QED
    BY <1>5, <2>1 DEF AddOrder
<1>6. QED
  BY <1>4, <1>5

LEMMA AddsExist ==
  ASSUME NEW s \in Seq(PaidOrders)
  PROVE  \E h : Adds(h, s)
<1> PICK n : n = Len(s)
  OBVIOUS
<1>1. n \in Nat /\ DOMAIN s = 1 .. n /\ \A k \in 1 .. n : s[k] \in PaidOrders
  BY LenProperties, ElementOfSeq
<1> DEFINE c == [T \in SUBSET (1 .. n) |-> Max(T)]
           a == [k \in 1 .. n |-> [v \in Seq(Groups) |-> AddOrder(v, s[k])]]
<1>2. \A T \in SUBSET (1 .. n) : T # {} => c[T] \in T
  BY <1>1, MaxExists
<1>3. a \in [1 .. n -> [Seq(Groups) -> Seq(Groups)]] /\ << >> \in Seq(Groups)
  BY <1>1, AddTyped, EmptySeq
<1>4. IsFiniteSet(1 .. n)
  BY <1>1, FS_Interval
<1>5. \E h : Folds(h, 1 .. n, Seq(Groups), << >>, c, a)
  <2> HIDE DEF c, a
  <2>1. QED
    BY <1>2, <1>3, <1>4, FoldExists
<1>6. PICK h : Folds(h, 1 .. n, Seq(Groups), << >>, c, a)
  BY <1>5
<1>7. /\ h \in [SUBSET (1 .. n) -> Seq(Groups)] /\ h[{}] = << >>
      /\ \A T \in SUBSET (1 .. n) : T # {} => h[T] = a[c[T]][h[T \ {c[T]}]]
  BY <1>6 DEF Folds
<1>8. ASSUME NEW T \in SUBSET (1 .. n), T # {}
      PROVE  h[T] = AddOrder(h[T \ {Max(T)}], s[Max(T)])
  <2> PICK x : x = Max(T)
    OBVIOUS
  <2>1. x \in 1 .. n /\ c[T] = x
    BY <1>2, <1>8
  <2>2. h[T] = a[x][h[T \ {x}]]
    BY <1>7, <1>8, <2>1
  <2>3. h[T \ {x}] \in Seq(Groups)
    BY <1>7
  <2>4. a[x][h[T \ {x}]] = AddOrder(h[T \ {x}], s[x])
    BY <2>1, <2>3
  <2>5. QED
    BY <2>2, <2>4
<1>9. h = [T \in SUBSET (1 .. n) |->
             IF T = {} THEN << >> ELSE AddOrder(h[T \ {Max(T)}], s[Max(T)])]
  <2>1. h = [T \in SUBSET (1 .. n) |-> h[T]]
    BY <1>7
  <2>2. \A T \in SUBSET (1 .. n) :
          h[T] = IF T = {} THEN << >> ELSE AddOrder(h[T \ {Max(T)}], s[Max(T)])
    BY <1>7, <1>8
  <2>3. QED
    BY <2>1, <2>2
<1>10. Adds(h, s)
  BY <1>1, <1>9 DEF Adds
<1>11. QED
  BY <1>10

AddsUp(r, s) ==
  /\ r \in [0 .. Len(s) -> Seq(Groups)] /\ r[0] = << >> /\ FromOrders(s) = r[Len(s)]
  /\ \A k \in 1 .. Len(s) : r[k] = AddOrder(r[k - 1], s[k])

LEMMA FromOrdersSteps ==
  ASSUME NEW s \in Seq(PaidOrders)
  PROVE  \E r : AddsUp(r, s)
<1> PICK n : n = Len(s)
  OBVIOUS
<1>1. n \in Nat /\ DOMAIN s = 1 .. n /\ \A k \in 1 .. n : s[k] \in PaidOrders
  BY LenProperties, ElementOfSeq
<1> PICK h : h = CHOOSE f : Adds(f, s)
  OBVIOUS
<1>2. Adds(h, s)
  BY AddsExist
<1>3. FromOrders(s) = h[DOMAIN s]
  BY DEF FromOrders, FoldLeft, MapThenFoldSet, Adds
<1>4. \A T \in SUBSET (1 .. n) :
        h[T] = IF T = {} THEN << >> ELSE AddOrder(h[T \ {Max(T)}], s[Max(T)])
  BY <1>1, <1>2 DEF Adds
<1> DEFINE r == [k \in 0 .. n |-> h[1 .. k]]
<1>5. r[0] = << >>
  <2>1. 1 .. 0 = {}
    OBVIOUS
  <2>2. {} \in SUBSET (1 .. n)
    OBVIOUS
  <2>3. h[{}] = << >>
    BY <1>4, <2>2
  <2>4. QED
    BY <1>1, <2>1, <2>3
<1>6. ASSUME NEW k \in 1 .. n PROVE r[k] = AddOrder(r[k - 1], s[k])
  <2>1. k \in 0 .. n /\ k - 1 \in 0 .. n
    BY <1>1
  <2>2. /\ 1 .. k \in SUBSET (1 .. n) /\ 1 .. k # {}
        /\ (1 .. k) \ {k} = 1 .. (k - 1)
    <3> HIDE DEF r
    <3>1. 1 .. k \in SUBSET (1 .. n)
      BY <1>1
    <3>2. 1 \in 1 .. k
      BY <1>1
    <3>3. (1 .. k) \ {k} = 1 .. (k - 1)
      BY <1>1
    <3>4. QED
      BY <3>1, <3>2, <3>3
  <2>3. Max(1 .. k) = k
    BY <1>1, <2>2, MaxExists
  <2>4. h[1 .. k] = AddOrder(h[1 .. (k - 1)], s[k])
    BY <1>4, <2>2, <2>3
  <2>5. QED
    BY <2>1, <2>4
<1>7. r \in [0 .. n -> Seq(Groups)]
  <2> DEFINE D == {k \in 0 .. n : r[k] \in Seq(Groups)}
  <2>1. 0 \in D
    <3>1. << >> \in Seq(Groups) /\ 0 \in 0 .. n
      BY <1>1, EmptySeq
    <3> HIDE DEF r
    <3>2. QED
      BY <1>5, <3>1
  <2>2. ASSUME NEW k \in 0 .. n, k \in D, k # n PROVE k + 1 \in D
    <3>1. k + 1 \in 1 .. n /\ k + 1 \in 0 .. n /\ (k + 1) - 1 = k
      BY <1>1, <2>2
    <3> HIDE DEF r
    <3>2. r[k + 1] = AddOrder(r[k], s[k + 1]) /\ r[k] \in Seq(Groups)
      BY <1>6, <2>2, <3>1
    <3>3. r[k + 1] \in Seq(Groups)
      BY <1>1, <3>1, <3>2, AddTyped
    <3>4. QED
      BY <3>1, <3>3
  <2>3. \A k \in 0 .. n : k \in D
    <3> HIDE DEF D
    <3>1. QED
      BY <1>1, <2>1, <2>2, Induction
  <2>4. \A k \in 0 .. n : h[1 .. k] \in Seq(Groups)
    BY <2>3
  <2>5. QED
    BY <2>4
<1>8. FromOrders(s) = r[n]
  BY <1>1, <1>3
<1>9. AddsUp(r, s)
  <2> HIDE DEF r
  <2>1. QED
    BY <1>5, <1>6, <1>7, <1>8 DEF AddsUp
<1>10. QED
  BY <1>9

LEMMA AddedTo ==
  ASSUME NEW g \in Seq(Groups), NEW o \in PaidOrders, \E k \in 1 .. Len(g) : g[k].id = o.payment
  PROVE  LET a == AddOrder(g, o)
         IN /\ Len(a) = Len(g)
            /\ \A k \in 1 .. Len(g) :
                 /\ a[k].id = g[k].id
                 /\ a[k].orders = IF g[k].id = o.payment THEN Append(g[k].orders, o)
                                  ELSE g[k].orders
<1>1. DOMAIN g = 1 .. Len(g) /\ Len(g) \in Nat /\ \A k \in 1 .. Len(g) : g[k] \in Groups
  BY LenProperties, ElementOfSeq
<1> PICK a : a = AddOrder(g, o)
  OBVIOUS
<1>2. a = [k \in 1 .. Len(g) |-> IF g[k].id = o.payment
                                 THEN [g[k] EXCEPT !.orders = Append(@, o)] ELSE g[k]]
  BY <1>1 DEF AddOrder
<1>3. a \in Seq(Groups)
  BY AddTyped
<1>4. Len(a) = Len(g)
  <2>1. DOMAIN a = 1 .. Len(a) /\ Len(a) \in Nat
    BY <1>3, LenProperties
  <2>2. DOMAIN a = 1 .. Len(g)
    BY <1>2
  <2>3. \A i, j \in Nat : 1 .. i = 1 .. j => i = j
    OBVIOUS
  <2>4. QED
    BY <1>1, <2>1, <2>2, <2>3
<1>5. ASSUME NEW k \in 1 .. Len(g)
      PROVE  /\ a[k].id = g[k].id
             /\ a[k].orders = IF g[k].id = o.payment THEN Append(g[k].orders, o)
                              ELSE g[k].orders
  <2>1. g[k] \in Groups
    BY <1>1
  <2>2. a[k] = IF g[k].id = o.payment
               THEN [g[k] EXCEPT !.orders = Append(@, o)] ELSE g[k]
    BY <1>2
  <2>3. QED
    BY <2>1, <2>2 DEF Groups
<1>6. QED
  BY <1>4, <1>5

LEMMA AddedNew ==
  ASSUME NEW g \in Seq(Groups), NEW o \in PaidOrders,
         ~ \E k \in 1 .. Len(g) : g[k].id = o.payment
  PROVE  LET a == AddOrder(g, o)
         IN /\ Len(a) = Len(g) + 1
            /\ \A k \in 1 .. Len(g) : a[k] = g[k]
            /\ a[Len(g) + 1].id = o.payment /\ a[Len(g) + 1].orders = << o >>
<1>1. DOMAIN g = 1 .. Len(g)
  BY LenProperties
<1> PICK x : x = [id |-> o.payment, orders |-> << o >>]
  OBVIOUS
<1>2. x \in Groups /\ x.id = o.payment /\ x.orders = << o >>
  BY DEF Groups, PaidOrders
<1>3. AddOrder(g, o) = Append(g, x)
  BY <1>1 DEF AddOrder
<1>4. /\ Len(Append(g, x)) = Len(g) + 1 /\ Append(g, x)[Len(g) + 1] = x
      /\ \A k \in 1 .. Len(g) : Append(g, x)[k] = g[k]
  BY <1>2, AppendProperties
<1>5. QED
  BY <1>2, <1>3, <1>4

(* The first place of a payment in a list of orders.                       *)
First(s, id, m) == s[m].payment = id /\ \A l \in 1 .. m - 1 : s[l].payment # id

With(id) == {o \in PaidOrders : o.payment = id}

LEMMA PaidIs ==
  ASSUME NEW s \in Seq(PaidOrders), NEW id
  PROVE  Paid(s, id) = Kept(s, With(id))
<1>1. \A k \in DOMAIN s : s[k] \in PaidOrders
  BY LenProperties, ElementOfSeq
<1>2. \A k \in DOMAIN s :
        s[k] \in {o \in ToSet(s) : o.payment = id} <=> s[k] \in With(id)
  BY <1>1 DEF With, ToSet
<1>3. QED
  BY <1>2, KeptSame DEF Paid

(* A group holds the orders of its payment, the first of them first.       *)
GroupIs(id, orders, s) ==
  /\ orders = Kept(s, With(id)) /\ Len(orders) # 0
  /\ \E m \in 1 .. Len(s) : First(s, id, m) /\ orders[1] = s[m]

InOrder(id, jd, s) ==
  \E m, n \in 1 .. Len(s) : m < n /\ First(s, id, m) /\ First(s, jd, n)

Grouped(g, s) ==
  /\ g \in Seq(Groups)
  /\ \A n \in 1 .. Len(s) : \E k \in 1 .. Len(g) : g[k].id = s[n].payment
  /\ \A k \in 1 .. Len(g) : GroupIs(g[k].id, g[k].orders, s)
  /\ \A k, l \in 1 .. Len(g) : k < l => InOrder(g[k].id, g[l].id, s)

LEMMA StillFirst ==
  ASSUME NEW s \in Seq(PaidOrders), NEW o \in PaidOrders, NEW id, NEW m \in 1 .. Len(s),
         First(s, id, m)
  PROVE  /\ m \in 1 .. Len(Append(s, o)) /\ Append(s, o)[m] = s[m]
         /\ First(Append(s, o), id, m)
<1> PICK q : q = Append(s, o)
  OBVIOUS
<1>1. /\ Len(s) \in Nat /\ Len(q) = Len(s) + 1
      /\ \A i \in 1 .. Len(s) : q[i] = s[i]
  BY LenProperties, AppendProperties
<1>2. \A l \in 1 .. m - 1 : l \in 1 .. Len(s)
  BY <1>1
<1>3. m \in 1 .. Len(q) /\ q[m] = s[m]
  BY <1>1
<1>4. First(q, id, m)
  BY <1>1, <1>2, <1>3 DEF First
<1>5. QED
  BY <1>3, <1>4

LEMMA GroupStep ==
  ASSUME NEW s \in Seq(PaidOrders), NEW o \in PaidOrders, NEW id, NEW orders \in Seq(PaidOrders),
         GroupIs(id, orders, s)
  PROVE  GroupIs(id, IF id = o.payment THEN Append(orders, o) ELSE orders, Append(s, o))
<1> PICK q : q = Append(s, o)
  OBVIOUS
<1> PICK new : new = IF id = o.payment THEN Append(orders, o) ELSE orders
  OBVIOUS
<1>1. o \in With(id) <=> id = o.payment
  BY DEF With
<1>2. new = Kept(q, With(id))
  <2>1. orders = Kept(s, With(id))
    BY DEF GroupIs
  <2>2. Kept(q, With(id))
          = IF o \in With(id) THEN Append(Kept(s, With(id)), o) ELSE Kept(s, With(id))
    BY KeptAppend
  <2>3. QED
    BY <1>1, <2>1, <2>2
<1>3. PICK m \in 1 .. Len(s) : First(s, id, m) /\ orders[1] = s[m]
  BY DEF GroupIs
<1>4. Len(orders) # 0 /\ Len(orders) \in Nat
  BY LenProperties DEF GroupIs
<1>5. Len(new) # 0 /\ new[1] = orders[1]
  <2>1. /\ Len(Append(orders, o)) = Len(orders) + 1
        /\ \A i \in 1 .. Len(orders) : Append(orders, o)[i] = orders[i]
    BY AppendProperties
  <2>2. QED
    BY <1>4, <2>1
<1>6. m \in 1 .. Len(q) /\ q[m] = s[m] /\ First(q, id, m)
  BY <1>3, StillFirst
<1>7. GroupIs(id, new, q)
  BY <1>2, <1>3, <1>5, <1>6 DEF GroupIs
<1>8. QED
  BY <1>7

LEMMA OrderStep ==
  ASSUME NEW s \in Seq(PaidOrders), NEW o \in PaidOrders, NEW id, NEW jd, InOrder(id, jd, s)
  PROVE  InOrder(id, jd, Append(s, o))
<1>1. PICK m \in 1 .. Len(s), n \in 1 .. Len(s) : m < n /\ First(s, id, m) /\ First(s, jd, n)
  BY DEF InOrder
<1>2. m \in 1 .. Len(Append(s, o)) /\ First(Append(s, o), id, m)
  BY <1>1, StillFirst
<1>3. n \in 1 .. Len(Append(s, o)) /\ First(Append(s, o), jd, n)
  BY <1>1, StillFirst
<1>4. QED
  BY <1>1, <1>2, <1>3 DEF InOrder

LEMMA NewGroup ==
  ASSUME NEW s \in Seq(PaidOrders), NEW o \in PaidOrders,
         \A n \in 1 .. Len(s) : s[n].payment # o.payment
  PROVE  /\ GroupIs(o.payment, << o >>, Append(s, o))
         /\ \A id : \A m \in 1 .. Len(s) :
              First(s, id, m) => InOrder(id, o.payment, Append(s, o))
<1> PICK q : q = Append(s, o)
  OBVIOUS
<1> PICK n : n = Len(s)
  OBVIOUS
<1> PICK id : id = o.payment
  OBVIOUS
<1>1. /\ n \in Nat /\ Len(q) = n + 1 /\ q[n + 1] = o
      /\ \A i \in 1 .. n : q[i] = s[i] /\ s[i] \in PaidOrders
  BY LenProperties, AppendProperties, ElementOfSeq
<1>2. First(q, id, n + 1) /\ n + 1 \in 1 .. Len(q)
  BY <1>1 DEF First
<1>3. Kept(q, With(id)) = << o >>
  <2>1. \A i \in 1 .. Len(s) : s[i] \notin With(id)
    BY DEF With
  <2>2. Kept(s, With(id)) = << >>
    BY <2>1, KeptNone
  <2>3. o \in With(id)
    BY DEF With
  <2>4. Kept(q, With(id)) = Append(<< >>, o)
    <3>1. Kept(Append(s, o), With(id)) = Append(Kept(s, With(id)), o)
      BY <2>3, KeptAppend, SMTT(30)
    <3>2. QED
      BY <2>2, <3>1
  <2>5. QED
    BY <2>4
<1>4. Len(<< o >>) # 0 /\ << o >>[1] = q[n + 1]
  BY <1>1
<1>5. GroupIs(id, << o >>, q)
  BY <1>2, <1>3, <1>4 DEF GroupIs
<1>6. ASSUME NEW jd, NEW m \in 1 .. Len(s), First(s, jd, m) PROVE InOrder(jd, id, q)
  <2>1. m \in 1 .. Len(q) /\ First(q, jd, m)
    BY <1>6, StillFirst
  <2>2. m < n + 1
    BY <1>1
  <2>3. QED
    BY <1>2, <2>1, <2>2 DEF InOrder
<1>7. QED
  BY <1>5, <1>6

LEMMA GroupedStep ==
  ASSUME NEW g, NEW s \in Seq(PaidOrders), NEW o \in PaidOrders, Grouped(g, s)
  PROVE  Grouped(AddOrder(g, o), Append(s, o))
<1> PICK q : q = Append(s, o)
  OBVIOUS
<1> PICK a : a = AddOrder(g, o)
  OBVIOUS
<1>1. /\ g \in Seq(Groups)
      /\ \A n \in 1 .. Len(s) : \E k \in 1 .. Len(g) : g[k].id = s[n].payment
      /\ \A k \in 1 .. Len(g) : GroupIs(g[k].id, g[k].orders, s)
      /\ \A k, l \in 1 .. Len(g) : k < l => InOrder(g[k].id, g[l].id, s)
  BY DEF Grouped
<1>2. a \in Seq(Groups)
  BY <1>1, AddTyped
<1>3. /\ Len(s) \in Nat /\ Len(q) = Len(s) + 1 /\ q[Len(s) + 1] = o
      /\ \A i \in 1 .. Len(s) : q[i] = s[i]
  BY LenProperties, AppendProperties
<1>4. Len(g) \in Nat /\ \A k \in 1 .. Len(g) : g[k].orders \in Seq(PaidOrders)
  <2>1. Len(g) \in Nat
    BY <1>1, LenProperties
  <2>2. \A k \in 1 .. Len(g) : g[k] \in Groups
    BY <1>1, ElementOfSeq
  <2>3. QED
    BY <2>1, <2>2 DEF Groups
<1>5. \A k \in 1 .. Len(g) :
        GroupIs(g[k].id, IF g[k].id = o.payment THEN Append(g[k].orders, o)
                         ELSE g[k].orders, q)
  BY <1>1, <1>4, GroupStep
<1>6. \A k, l \in 1 .. Len(g) : k < l => InOrder(g[k].id, g[l].id, q)
  BY <1>1, OrderStep
<1>7. CASE \E k \in 1 .. Len(g) : g[k].id = o.payment
  <2>1. /\ Len(a) = Len(g)
        /\ \A k \in 1 .. Len(g) :
             /\ a[k].id = g[k].id
             /\ a[k].orders = IF g[k].id = o.payment THEN Append(g[k].orders, o)
                              ELSE g[k].orders
    BY <1>1, <1>7, AddedTo
  <2>2. \A k \in 1 .. Len(a) : GroupIs(a[k].id, a[k].orders, q)
    BY <1>5, <2>1
  <2>3. \A k, l \in 1 .. Len(a) : k < l => InOrder(a[k].id, a[l].id, q)
    BY <1>6, <2>1
  <2>4. ASSUME NEW n \in 1 .. Len(q)
        PROVE  \E k \in 1 .. Len(a) : a[k].id = q[n].payment
    <3>1. CASE n = Len(s) + 1
      BY <1>3, <1>7, <2>1, <3>1
    <3>2. CASE n # Len(s) + 1
      <4>1. n \in 1 .. Len(s)
        BY <1>3, <3>2
      <4>2. QED
        BY <1>1, <1>3, <2>1, <4>1
    <3>3. QED
      BY <3>1, <3>2
  <2>5. QED
    BY <1>2, <2>2, <2>3, <2>4 DEF Grouped
<1>8. CASE ~ \E k \in 1 .. Len(g) : g[k].id = o.payment
  <2>1. /\ Len(a) = Len(g) + 1
        /\ \A k \in 1 .. Len(g) : a[k] = g[k]
        /\ a[Len(g) + 1].id = o.payment /\ a[Len(g) + 1].orders = << o >>
    BY <1>1, <1>8, AddedNew
  <2>2. \A n \in 1 .. Len(s) : s[n].payment # o.payment
    BY <1>1, <1>8
  <2>3. /\ GroupIs(o.payment, << o >>, q)
        /\ \A id : \A m \in 1 .. Len(s) : First(s, id, m) => InOrder(id, o.payment, q)
    BY <2>2, NewGroup
  <2>4. ASSUME NEW k \in 1 .. Len(a) PROVE GroupIs(a[k].id, a[k].orders, q)
    <3>1. CASE k = Len(g) + 1
      BY <2>1, <2>3, <3>1
    <3>2. CASE k # Len(g) + 1
      <4>1. k \in 1 .. Len(g)
        BY <1>4, <2>1, <3>2
      <4>2. QED
        BY <1>5, <1>8, <2>1, <4>1
    <3>3. QED
      BY <3>1, <3>2
  <2>5. ASSUME NEW k \in 1 .. Len(a), NEW l \in 1 .. Len(a), k < l
        PROVE  InOrder(a[k].id, a[l].id, q)
    <3>1. k \in 1 .. Len(g) /\ a[k] = g[k]
      BY <1>4, <2>1, <2>5
    <3>2. CASE l = Len(g) + 1
      <4>1. GroupIs(g[k].id, g[k].orders, s)
        BY <1>1, <3>1
      <4>2. PICK m \in 1 .. Len(s) : First(s, g[k].id, m)
        BY <4>1 DEF GroupIs
      <4>3. QED
        BY <2>1, <2>3, <3>1, <3>2, <4>2
    <3>3. CASE l # Len(g) + 1
      <4>1. l \in 1 .. Len(g)
        BY <1>4, <2>1, <3>3
      <4>2. QED
        BY <1>6, <2>1, <2>5, <3>1, <4>1
    <3>4. QED
      BY <3>2, <3>3
  <2>6. ASSUME NEW n \in 1 .. Len(q)
        PROVE  \E k \in 1 .. Len(a) : a[k].id = q[n].payment
    <3>1. CASE n = Len(s) + 1
      <4>1. Len(g) + 1 \in 1 .. Len(a)
        BY <1>4, <2>1
      <4>2. QED
        BY <1>3, <2>1, <3>1, <4>1
    <3>2. CASE n # Len(s) + 1
      <4>1. n \in 1 .. Len(s) /\ \A k \in 1 .. Len(g) : k \in 1 .. Len(a)
        BY <1>3, <1>4, <2>1, <3>2
      <4>2. PICK k \in 1 .. Len(g) : g[k].id = s[n].payment
        BY <1>1, <4>1
      <4>3. QED
        BY <1>3, <2>1, <4>1, <4>2
    <3>3. QED
      BY <3>1, <3>2
  <2>7. QED
    BY <1>2, <2>4, <2>5, <2>6 DEF Grouped
<1>9. QED
  BY <1>7, <1>8

(* The beginnings of a list.                                               *)
LEMMA Beginnings ==
  ASSUME NEW L, NEW s \in Seq(L)
  PROVE  /\ SubSeq(s, 1, 0) = << >> /\ SubSeq(s, 1, Len(s)) = s
         /\ \A k \in 1 .. Len(s) :
              /\ SubSeq(s, 1, k - 1) \in Seq(L)
              /\ SubSeq(s, 1, k) = Append(SubSeq(s, 1, k - 1), s[k])
<1>1. SubSeq(s, 1, 0) = << >> /\ SubSeq(s, 1, Len(s)) = s
  BY SubSeqFull
<1>2. ASSUME NEW k \in 1 .. Len(s)
      PROVE  /\ SubSeq(s, 1, k - 1) \in Seq(L)
             /\ SubSeq(s, 1, k) = Append(SubSeq(s, 1, k - 1), s[k])
  <2> PICK n : n = Len(s)
    OBVIOUS
  <2> PICK a : a = SubSeq(s, 1, k - 1)
    OBVIOUS
  <2> PICK b : b = SubSeq(s, 1, k)
    OBVIOUS
  <2>1. n \in Nat /\ \A i \in 1 .. n : s[i] \in L
    BY LenProperties, ElementOfSeq
  <2>2. a \in Seq(L) /\ Len(a) = k - 1 /\ \A i \in 1 .. k - 1 : a[i] = s[i]
    BY <2>1
  <2>3. b \in Seq(L) /\ Len(b) = k /\ \A i \in 1 .. k : b[i] = s[i]
    BY <2>1
  <2> PICK c : c = Append(a, s[k])
    OBVIOUS
  <2>4. /\ c \in Seq(L) /\ Len(c) = Len(a) + 1 /\ c[Len(a) + 1] = s[k]
        /\ \A i \in 1 .. Len(a) : c[i] = a[i]
    BY <2>1, <2>2, AppendProperties
  <2>5. ASSUME NEW i \in 1 .. k PROVE b[i] = c[i]
    <3>1. CASE i = k
      BY <2>2, <2>3, <2>4, <3>1
    <3>2. CASE i # k
      <4>1. i \in 1 .. k - 1
        BY <3>2
      <4>2. QED
        BY <2>2, <2>3, <2>4, <4>1
    <3>3. QED
      BY <3>1, <3>2
  <2>6. b = c
    BY <2>2, <2>3, <2>4, <2>5, SameList
  <2>7. QED
    BY <2>2, <2>6
<1>3. QED
  BY <1>1, <1>2

LEMMA FromOrdersGroups ==
  ASSUME NEW s \in Seq(PaidOrders)
  PROVE  Grouped(FromOrders(s), s)
<1> PICK n : n = Len(s)
  OBVIOUS
<1>1. n \in Nat /\ \A k \in 1 .. n : s[k] \in PaidOrders
  BY LenProperties, ElementOfSeq
<1>2. PICK r : AddsUp(r, s)
  BY FromOrdersSteps
<1>3. /\ r[0] = << >> /\ FromOrders(s) = r[n]
      /\ \A k \in 1 .. n : r[k] = AddOrder(r[k - 1], s[k])
  BY <1>2 DEF AddsUp
<1> DEFINE D == {k \in 0 .. n : Grouped(r[k], SubSeq(s, 1, k))}
<1>4. 0 \in D
  <2>1. << >> \in Seq(Groups) /\ Len(<< >>) = 0
    BY EmptySeq
  <2>2. Grouped(<< >>, << >>)
    BY <2>1 DEF Grouped
  <2>3. SubSeq(s, 1, 0) = << >>
    BY Beginnings
  <2>4. Grouped(r[0], SubSeq(s, 1, 0))
    BY <1>3, <2>2, <2>3, Zenon
  <2>5. 0 \in 0 .. n
    BY <1>1
  <2>6. QED
    BY <2>4, <2>5
<1>5. ASSUME NEW k \in 0 .. n, k \in D, k # n PROVE k + 1 \in D
  <2>1. k + 1 \in 1 .. n /\ k + 1 \in 0 .. n /\ (k + 1) - 1 = k
    BY <1>1, <1>5
  <2>2. r[k + 1] = AddOrder(r[k], s[k + 1]) /\ s[k + 1] \in PaidOrders
    BY <1>1, <1>3, <2>1
  <2>3. /\ SubSeq(s, 1, k) \in Seq(PaidOrders)
        /\ SubSeq(s, 1, k + 1) = Append(SubSeq(s, 1, k), s[k + 1])
    <3>1. /\ SubSeq(s, 1, (k + 1) - 1) \in Seq(PaidOrders)
          /\ SubSeq(s, 1, k + 1) = Append(SubSeq(s, 1, (k + 1) - 1), s[k + 1])
      BY <2>1, Beginnings
    <3>2. QED
      BY <2>1, <3>1
  <2>4. Grouped(r[k], SubSeq(s, 1, k))
    BY <1>5
  <2>5. Grouped(AddOrder(r[k], s[k + 1]), Append(SubSeq(s, 1, k), s[k + 1]))
    BY <2>2, <2>3, <2>4, GroupedStep
  <2>6. QED
    BY <2>1, <2>2, <2>3, <2>5
<1>6. n \in D
  <2> HIDE DEF D
  <2>1. \A k \in 0 .. n : k \in D
    BY <1>1, <1>4, <1>5, Induction
  <2>2. QED
    BY <1>1, <2>1
<1>7. SubSeq(s, 1, n) = s
  BY Beginnings
<1>8. QED
  BY <1>3, <1>6, <1>7

-----------------------------------------------------------------------------
(* What the lines of a payment tell.                                       *)

OfferLine == [x \in Offers |-> <<"offer", x>>]
OfferSet == {"offer"} \X Offers
LineSet == OfferSet \union ({"delivery"} \X [cost : Nat])
Costs == [x \in LineSet |-> Cost(x)]
Prices == [x \in Offers |-> x.price * x.quantity]

LEMMA CostsTyped ==
  /\ Costs \in [LineSet -> Int] /\ Prices \in [Offers -> Int]
  /\ OfferLine \in [Offers -> LineSet]
  /\ \A x \in Offers : OfferLine[x] \in OfferSet /\ Costs[OfferLine[x]] = Prices[x]
<1>1. ASSUME NEW x \in Offers
      PROVE  /\ <<"offer", x>> \in OfferSet /\ <<"offer", x>> \in LineSet
             /\ Cost(<<"offer", x>>) = x.price * x.quantity
             /\ x.price * x.quantity \in Int
  <2>1. x.price \in Int /\ x.quantity \in Int
    BY DEF Offers, Money
  <2>2. x.price * x.quantity \in Int
    BY <2>1
  <2>3. QED
    BY <2>2 DEF OfferSet, LineSet, Cost
<1>2. ASSUME NEW d \in [cost : Nat]
      PROVE  Cost(<<"delivery", d>>) \in Int
  BY DEF Cost
<1>3. ASSUME NEW x \in LineSet PROVE Cost(x) \in Int
  <2>1. CASE x \in OfferSet
    <3>1. PICK y \in Offers : x = <<"offer", y>>
      BY <2>1 DEF OfferSet
    <3>2. QED
      BY <1>1, <3>1
  <2>2. CASE x \in {"delivery"} \X [cost : Nat]
    <3>1. PICK d \in [cost : Nat] : x = <<"delivery", d>>
      BY <2>2
    <3>2. QED
      BY <1>2, <3>1
  <2>3. QED
    BY <2>1, <2>2 DEF LineSet
<1>4. Costs \in [LineSet -> Int]
  BY <1>3 DEF Costs
<1>5. Prices \in [Offers -> Int] /\ OfferLine \in [Offers -> LineSet]
  BY <1>1 DEF Prices, OfferLine
<1>6. ASSUME NEW x \in Offers
      PROVE  OfferLine[x] \in OfferSet /\ Costs[OfferLine[x]] = Prices[x]
  <2>1. OfferLine[x] = <<"offer", x>> /\ Prices[x] = x.price * x.quantity
    BY DEF OfferLine, Prices
  <2>2. Costs[<<"offer", x>>] = Cost(<<"offer", x>>)
    BY <1>1 DEF Costs
  <2>3. QED
    BY <1>1, <2>1, <2>2
<1>7. QED
  BY <1>4, <1>5, <1>6

(* What an order has to have to be counted.                                *)
Countable(o) ==
  /\ o.offers \in Seq(Offers)
  /\ o.delivery \in [cost : Nat \union {None}] \union {None}

LEMMA OrdersCountable ==
  /\ \A o \in PaidOrders : Countable(o)
  /\ \A o \in Orders : Countable(o)
BY DEF PaidOrders, Orders, Countable, Deliveries, Money

LEMMA OrderTotals ==
  ASSUME NEW o, Countable(o)
  PROVE  /\ ItemsTotal(o) = Weight(Prices, o.offers) /\ ItemsTotal(o) \in Int
         /\ DeliveryTotal(o) \in Int /\ OrderTotal(o) \in Int
         /\ DeliveryTotal(o) # 0 =>
              /\ o.delivery \in [cost : Nat] /\ o.delivery.cost = DeliveryTotal(o)
<1>1. o.offers \in Seq(Offers)
  BY DEF Countable
<1>2. \A i \in DOMAIN o.offers : o.offers[i] \in Offers
  BY <1>1, LenProperties, ElementOfSeq
<1>3. ItemsTotal(o) = Weight(Prices, o.offers)
  <2>1. [i \in DOMAIN o.offers |-> o.offers[i].price * o.offers[i].quantity]
          = [i \in DOMAIN o.offers |-> Prices[o.offers[i]]]
    BY <1>2 DEF Prices
  <2>2. QED
    BY <2>1 DEF ItemsTotal, Weight
<1>4. Weight(Prices, o.offers) \in Int
  BY <1>1, CostsTyped, WeightInt
<1>5. /\ DeliveryTotal(o) \in Int
      /\ DeliveryTotal(o) # 0 =>
           /\ o.delivery \in [cost : Nat] /\ o.delivery.cost = DeliveryTotal(o)
  BY DEF Countable, DeliveryTotal
<1>6. OrderTotal(o) \in Int
  BY <1>3, <1>4, <1>5 DEF OrderTotal
<1>7. QED
  BY <1>3, <1>4, <1>5, <1>6

LEMMA OrderLines ==
  ASSUME NEW o, Countable(o)
  PROVE  /\ DetailsOf(o) \in Seq(LineSet)
         /\ Weight(Costs, DetailsOf(o)) = OrderTotal(o)
         /\ Kept(DetailsOf(o), OfferSet) = OfferLines(o.offers)
         /\ OfferLines(o.offers) \in Seq(LineSet)
<1> PICK a : a = Map(OfferLine, o.offers)
  OBVIOUS
<1> PICK b : b = IF DeliveryTotal(o) = 0 THEN << >> ELSE << <<"delivery", o.delivery>> >>
  OBVIOUS
<1>1. o.offers \in Seq(Offers)
  BY DEF Countable
<1>2. Maps(a, OfferLine, o.offers, LineSet)
  BY <1>1, CostsTyped, MapTyped
<1>3. a \in Seq(LineSet) /\ \A k \in 1 .. Len(a) : a[k] \in OfferSet
  <2>1. /\ a \in Seq(LineSet) /\ Len(a) = Len(o.offers)
        /\ \A k \in 1 .. Len(o.offers) : a[k] = OfferLine[o.offers[k]]
    BY <1>2 DEF Maps
  <2>2. \A k \in 1 .. Len(o.offers) : o.offers[k] \in Offers
    BY <1>1, ElementOfSeq
  <2>3. QED
    BY <2>1, <2>2, CostsTyped
<1>4. \A i \in DOMAIN o.offers : o.offers[i] \in Offers
  BY <1>1, LenProperties, ElementOfSeq
<1>5. [i \in DOMAIN o.offers |-> <<"offer", o.offers[i]>>] = a
  BY <1>4 DEF Map, OfferLine
<1>6. DetailsOf(o) = a \o b
  BY <1>5 DEF DetailsOf
<1>7. OfferLines(o.offers) = a
  BY <1>5 DEF OfferLines
<1>8. Weight(Costs, a) = Weight(Prices, o.offers)
  <2>1. Agree(Prices, Costs, OfferLine, Offers)
    BY CostsTyped DEF Agree
  <2>2. QED
    BY <1>1, <2>1, WeightMap
<1>9. /\ b \in Seq(LineSet) /\ Weight(Costs, b) = DeliveryTotal(o)
      /\ Kept(b, OfferSet) = << >>
  <2>1. CASE DeliveryTotal(o) = 0
    <3>1. b = << >> /\ << >> \in Seq(LineSet)
      BY <2>1
    <3>2. Weight(Costs, << >>) = 0
      BY CostsTyped, WeightEmpty
    <3>3. QED
      BY <2>1, <3>1, <3>2, KeptEmpty
  <2>2. CASE DeliveryTotal(o) # 0
    <3> PICK x : x = <<"delivery", o.delivery>>
      OBVIOUS
    <3>1. o.delivery \in [cost : Nat] /\ o.delivery.cost = DeliveryTotal(o)
      BY <2>2, OrderTotals
    <3>2. x \in LineSet /\ x \notin OfferSet
      BY <3>1 DEF LineSet, OfferSet
    <3>3. Cost(x) = DeliveryTotal(o)
      BY <3>1 DEF Cost
    <3>4. Costs[x] = DeliveryTotal(o)
      BY <3>2, <3>3 DEF Costs
    <3>5. b = << x >> /\ << x >> \in Seq(LineSet)
      BY <2>2, <3>2
    <3>6. Weight(Costs, << x >>) = Costs[x]
      BY <3>2, CostsTyped, WeightOne
    <3>7. Kept(<< x >>, OfferSet) = << >>
      BY <3>2, KeptOne
    <3>8. QED
      BY <3>4, <3>5, <3>6, <3>7
  <2>3. QED
    BY <2>1, <2>2
<1>10. a \o b \in Seq(LineSet)
  BY <1>3, <1>9, ConcatProperties
<1>11. Weight(Costs, a \o b) = Weight(Costs, a) + Weight(Costs, b)
  BY <1>3, <1>9, CostsTyped, WeightConcat
<1>12. Weight(Costs, a \o b) = OrderTotal(o)
  BY <1>8, <1>9, <1>11, OrderTotals DEF OrderTotal
<1>13. Kept(a \o b, OfferSet) = a
  <2>1. Kept(a \o b, OfferSet) = Kept(a, OfferSet) \o Kept(b, OfferSet)
    BY <1>3, <1>9, KeptConcat
  <2>2. Kept(a, OfferSet) = a
    BY <1>3, KeptAll
  <2>3. a \o << >> = a
    BY <1>3, ConcatEmptySeq
  <2>4. QED
    BY <1>9, <2>1, <2>2, <2>3
<1>14. QED
  BY <1>3, <1>6, <1>7, <1>10, <1>12, <1>13

(* Filtering a list of lists is filtering the lists.                       *)
LEMMA KeptFlatten ==
  ASSUME NEW L, NEW T, NEW c \in Seq(Seq(L))
  PROVE  Kept(FlattenSeq(c), T)
           = FlattenSeq(Map([x \in Seq(L) |-> Kept(x, T)], c))
<1> DEFINE f == [x \in Seq(L) |-> Kept(x, T)]
<1> PICK n : n = Len(c)
  OBVIOUS
<1> PICK d : d = Map(f, c)
  OBVIOUS
<1>1. n \in Nat /\ \A k \in 1 .. n : c[k] \in Seq(L)
  <2>1. Len(c) \in Nat
    BY LenProperties
  <2>2. \A k \in 1 .. Len(c) : c[k] \in Seq(L)
    BY ElementOfSeq
  <2>3. QED
    BY <2>1, <2>2
<1>2. f \in [Seq(L) -> Seq(L)] /\ \A x \in Seq(L) : f[x] = Kept(x, T)
  BY KeptTyped
<1> HIDE DEF f
<1>3. Maps(d, f, c, Seq(L))
  BY <1>2, MapTyped
<1>4. d \in Seq(Seq(L)) /\ Len(d) = n /\ \A k \in 1 .. n : d[k] = f[c[k]]
  BY <1>3 DEF Maps
<1>5. PICK g : Joins(g, c, L)
  BY FlattenJoins
<1>6. /\ g \in [0 .. n -> Seq(L)] /\ g[0] = << >> /\ FlattenSeq(c) = g[n]
      /\ \A k \in 1 .. n : g[k] = g[k - 1] \o c[k]
  BY <1>5 DEF Joins
<1>7. PICK h : Joins(h, d, L)
  BY <1>4, FlattenJoins
<1>8. /\ h[0] = << >> /\ FlattenSeq(d) = h[n]
      /\ \A k \in 1 .. n : h[k] = h[k - 1] \o d[k]
  BY <1>4, <1>7 DEF Joins
<1> DEFINE u == [k \in 0 .. n |-> Kept(g[k], T)]
<1>9. \A k \in 0 .. n : u[k] = Kept(g[k], T)
  OBVIOUS
<1> HIDE DEF u
<1>10. u[0] = h[0]
  BY <1>1, <1>6, <1>8, <1>9, KeptEmpty
<1>11. ASSUME NEW k \in 1 .. n, u[k - 1] = h[k - 1] PROVE u[k] = h[k]
  <2>1. k \in 0 .. n /\ k - 1 \in 0 .. n
    BY <1>1
  <2>2. u[k] = Kept(g[k], T) /\ u[k - 1] = Kept(g[k - 1], T)
    BY <1>9, <2>1
  <2>3. g[k] = g[k - 1] \o c[k] /\ g[k - 1] \in Seq(L) /\ c[k] \in Seq(L)
    BY <1>1, <1>6, <2>1
  <2>4. Kept(g[k - 1] \o c[k], T) = Kept(g[k - 1], T) \o Kept(c[k], T)
    BY <2>3, KeptConcat
  <2>5. d[k] = Kept(c[k], T) /\ h[k] = h[k - 1] \o d[k]
    BY <1>2, <1>4, <1>8, <2>3
  <2>6. QED
    BY <1>11, <2>2, <2>3, <2>4, <2>5
<1>12. u[n] = h[n] /\ u[n] = Kept(g[n], T)
  <2>1. u[n] = h[n]
    BY <1>1, <1>10, <1>11, RecursionUnique
  <2>2. n \in 0 .. n
    BY <1>1
  <2>3. QED
    BY <1>9, <2>1, <2>2
<1>13. Kept(FlattenSeq(c), T) = FlattenSeq(Map(f, c))
  BY <1>6, <1>8, <1>12
<1>14. QED
  BY <1>13 DEF f

Totals == [o \in PaidOrders |-> OrderTotal(o)]

LEMMA KnownTotals ==
  ASSUME NEW p \in Seq(PaidOrders)
  PROVE  Totals \in [PaidOrders -> Int] /\ KnownTotal(p) = Weight(Totals, p)
<1>1. Totals \in [PaidOrders -> Int]
  BY OrdersCountable, OrderTotals DEF Totals
<1>2. \A k \in DOMAIN p : p[k] \in PaidOrders
  BY LenProperties, ElementOfSeq
<1>3. [k \in DOMAIN p |-> OrderTotal(p[k])] = [k \in DOMAIN p |-> Totals[p[k]]]
  BY <1>2 DEF Totals
<1>4. QED
  BY <1>1, <1>3 DEF KnownTotal, Weight

(* The lines of a payment's orders.                                        *)
LEMMA LinesTyped ==
  ASSUME NEW p \in Seq(PaidOrders)
  PROVE  ListDetails(p) \in Seq(LineSet)
<1> PICK D : D = [o \in PaidOrders |-> DetailsOf(o)]
  OBVIOUS
<1>1. D \in [PaidOrders -> Seq(LineSet)] /\ \A o \in PaidOrders : D[o] = DetailsOf(o)
  BY OrdersCountable, OrderLines
<1>2. \A k \in DOMAIN p : p[k] \in PaidOrders
  BY LenProperties, ElementOfSeq
<1>3. [k \in DOMAIN p |-> DetailsOf(p[k])] = Map(D, p)
  BY <1>1, <1>2 DEF Map
<1>4. Map(D, p) \in Seq(Seq(LineSet))
  BY <1>1, MapTyped DEF Maps
<1>5. QED
  BY <1>3, <1>4, FlattenTyped DEF ListDetails

LEMMA LinesTell ==
  ASSUME NEW p \in Seq(PaidOrders)
  PROVE  LET lines == ListDetails(p)
         IN /\ SumFunction([i \in DOMAIN lines |-> Cost(lines[i])]) = KnownTotal(p)
            /\ Kept(lines, {"offer"} \X Offers)
                 = FlattenSeq([n \in DOMAIN p |-> OfferLines(p[n].offers)])
<1> PICK D : D = [o \in PaidOrders |-> DetailsOf(o)]
  OBVIOUS
<1> PICK c : c = Map(D, p)
  OBVIOUS
<1> PICK lines : lines = ListDetails(p)
  OBVIOUS
<1>1. D \in [PaidOrders -> Seq(LineSet)] /\ \A o \in PaidOrders : D[o] = DetailsOf(o)
  BY OrdersCountable, OrderLines
<1>2. \A k \in DOMAIN p : p[k] \in PaidOrders
  BY LenProperties, ElementOfSeq
<1>3. Maps(c, D, p, Seq(LineSet))
  BY <1>1, MapTyped
<1>4. c \in Seq(Seq(LineSet))
  BY <1>3 DEF Maps
<1>5. lines = FlattenSeq(c)
  <2>1. [k \in DOMAIN p |-> DetailsOf(p[k])] = c
    BY <1>1, <1>2 DEF Map
  <2>2. QED
    BY <2>1 DEF ListDetails
<1>6. lines \in Seq(LineSet)
  BY LinesTyped
<1>7. SumFunction([i \in DOMAIN lines |-> Cost(lines[i])]) = Weight(Costs, lines)
  <2>1. \A i \in DOMAIN lines : lines[i] \in LineSet
    BY <1>6, LenProperties, ElementOfSeq
  <2>2. [i \in DOMAIN lines |-> Cost(lines[i])] = [i \in DOMAIN lines |-> Costs[lines[i]]]
    BY <2>1 DEF Costs
  <2>3. QED
    BY <2>2 DEF Weight
<1>8. Weight(Costs, lines) = KnownTotal(p)
  <2> PICK v : v = [x \in Seq(LineSet) |-> Weight(Costs, x)]
    OBVIOUS
  <2>1. Weight(Costs, FlattenSeq(c)) = Weight(v, c)
    BY <1>4, CostsTyped, WeightFlatten
  <2>2. \A o \in PaidOrders : Totals[o] = v[D[o]]
    <3>1. \A x \in Seq(LineSet) : v[x] = Weight(Costs, x)
      OBVIOUS
    <3>2. ASSUME NEW o \in PaidOrders PROVE Totals[o] = v[D[o]]
      <4>1. D[o] = DetailsOf(o) /\ D[o] \in Seq(LineSet)
        BY <1>1
      <4>2. Weight(Costs, DetailsOf(o)) = OrderTotal(o)
        BY OrdersCountable, OrderLines
      <4>3. Totals[o] = OrderTotal(o)
        BY DEF Totals
      <4>4. QED
        BY <3>1, <4>1, <4>2, <4>3
    <3>3. QED
      BY <3>2
  <2>3. Weight(v, Map(D, p)) = Weight(Totals, p)
    <3>1. Agree(Totals, v, D, PaidOrders)
      BY <2>2 DEF Agree
    <3>2. QED
      BY <3>1, WeightMap
  <2>4. QED
    BY <1>5, <2>1, <2>3, KnownTotals
<1>9. Kept(lines, OfferSet)
        = FlattenSeq([n \in DOMAIN p |-> OfferLines(p[n].offers)])
  <2> PICK f : f = [x \in Seq(LineSet) |-> Kept(x, OfferSet)]
    OBVIOUS
  <2>1. Kept(FlattenSeq(c), OfferSet) = FlattenSeq(Map(f, c))
    BY <1>4, KeptFlatten
  <2>2. \A x \in Seq(LineSet) : f[x] = Kept(x, OfferSet)
    OBVIOUS
  <2>3. ASSUME NEW k \in DOMAIN p PROVE f[c[k]] = OfferLines(p[k].offers)
    <3>1. p[k] \in PaidOrders /\ Countable(p[k])
      BY <1>2, OrdersCountable
    <3>2. c[k] = DetailsOf(p[k])
      BY <1>1, <3>1 DEF Map
    <3>3. /\ DetailsOf(p[k]) \in Seq(LineSet)
          /\ Kept(DetailsOf(p[k]), OfferSet) = OfferLines(p[k].offers)
      BY <3>1, OrderLines
    <3>4. QED
      BY <2>2, <3>2, <3>3
  <2>4. DOMAIN c = DOMAIN p
    BY DEF Map
  <2>5. Map(f, c) = [n \in DOMAIN p |-> OfferLines(p[n].offers)]
    BY <2>3, <2>4 DEF Map
  <2>6. QED
    BY <1>5, <2>1, <2>5
<1>10. QED
  BY <1>7, <1>8, <1>9 DEF OfferSet

-----------------------------------------------------------------------------
(* Stretches of a list.                                                    *)

Stretch(p, s) == \E a, b \in Seq(PaidOrders) : s = (a \o p) \o b

LEMMA NoStretch ==
  ASSUME NEW s \in Seq(PaidOrders)
  PROVE  Stretch(<< >>, s)
<1>1. << >> \in Seq(PaidOrders) /\ s \o << >> = s
  BY EmptySeq, ConcatEmptySeq
<1>2. s = (s \o << >>) \o << >>
  BY <1>1, Zenon
<1>3. QED
  BY <1>1, <1>2, Zenon DEF Stretch

LEMMA LongerStretch ==
  ASSUME NEW p \in Seq(PaidOrders), NEW s, Stretch(p, s), NEW q \in Seq(PaidOrders)
  PROVE  Stretch(p, q \o s)
<1>1. PICK a, b \in Seq(PaidOrders) : s = (a \o p) \o b
  BY DEF Stretch
<1>2. a \o p \in Seq(PaidOrders) /\ q \o a \in Seq(PaidOrders)
  BY ConcatProperties
<1>3. Regroups(q, a \o p, b) /\ Regroups(q, a, p)
  BY <1>2, Associative
<1>4. (q \o (a \o p)) \o b = q \o ((a \o p) \o b) /\ (q \o a) \o p = q \o (a \o p)
  BY <1>3, Zenon DEF Regroups
<1>5. q \o s = ((q \o a) \o p) \o b
  BY <1>1, <1>4, Zenon
<1>6. QED
  BY <1>2, <1>5, Zenon DEF Stretch

(* The orders of some groups are a stretch of the orders of all groups.    *)
LEMMA GroupsStretch ==
  ASSUME NEW c \in Seq(Seq(PaidOrders)), NEW m \in Nat, NEW n \in Nat, n <= Len(c)
  PROVE  /\ SubSeq(c, m + 1, n) \in Seq(Seq(PaidOrders))
         /\ Stretch(FlattenSeq(SubSeq(c, m + 1, n)), FlattenSeq(c))
<1> PICK l : l = Len(c)
  OBVIOUS
<1>1. l \in Nat /\ \A k \in 1 .. l : c[k] \in Seq(PaidOrders)
  <2>1. Len(c) \in Nat
    BY LenProperties
  <2>2. \A k \in 1 .. Len(c) : c[k] \in Seq(PaidOrders)
    BY ElementOfSeq
  <2>3. QED
    BY <2>1, <2>2
<1> PICK d : d = SubSeq(c, m + 1, n)
  OBVIOUS
<1>2. CASE n < m + 1
  <2>1. d = << >>
    BY <1>2, SubSeqEmpty
  <2>2. << >> \in Seq(Seq(PaidOrders)) /\ FlattenSeq(<< >>) = << >>
    BY FlattenEmpty, EmptySeq
  <2>3. Stretch(<< >>, FlattenSeq(c))
    BY FlattenTyped, NoStretch
  <2>4. QED
    BY <2>1, <2>2, <2>3, Zenon
<1>3. CASE ~(n < m + 1)
  <2> PICK a : a = SubSeq(c, 1, m)
    OBVIOUS
  <2> PICK b : b = SubSeq(c, n + 1, l)
    OBVIOUS
  <2>1. /\ m \in 0 .. l /\ n \in m .. l /\ m + 1 \in Int /\ n + 1 \in Int
        /\ 1 .. m \subseteq 1 .. l /\ m + 1 .. n \subseteq 1 .. l /\ n + 1 .. l \subseteq 1 .. l
    BY <1>1, <1>3
  <2>2. /\ a \in Seq(Seq(PaidOrders)) /\ d \in Seq(Seq(PaidOrders))
        /\ b \in Seq(Seq(PaidOrders))
    BY <1>1, <2>1, SubSeqProperties
  <2>3. SubSeq(c, 1, m) \o SubSeq(c, m + 1, n) = SubSeq(c, 1, n)
    <3>1. 1 \in 1 .. Len(c) + 1 /\ m \in 1 - 1 .. Len(c) /\ n \in m .. Len(c)
      BY <1>1, <2>1
    <3>2. QED
      BY <3>1, ConcatAdjacentSubSeq
  <2>4. SubSeq(c, 1, n) \o SubSeq(c, n + 1, l) = SubSeq(c, 1, l)
    <3>1. 1 \in 1 .. Len(c) + 1 /\ n \in 1 - 1 .. Len(c) /\ l \in n .. Len(c)
      BY <1>1, <2>1
    <3>2. QED
      BY <3>1, ConcatAdjacentSubSeq
  <2>5. SubSeq(c, 1, l) = c
    BY SubSeqFull
  <2>6. c = (a \o d) \o b
    BY <2>3, <2>4, <2>5, Zenon
  <2>7. a \o d \in Seq(Seq(PaidOrders))
    BY <2>2, ConcatProperties
  <2>8. FlattenSeq((a \o d) \o b) = FlattenSeq(a \o d) \o FlattenSeq(b)
    BY <2>2, <2>7, FlattenConcat
  <2>9. FlattenSeq(a \o d) = FlattenSeq(a) \o FlattenSeq(d)
    BY <2>2, FlattenConcat
  <2>10. FlattenSeq(c) = (FlattenSeq(a) \o FlattenSeq(d)) \o FlattenSeq(b)
    BY <2>6, <2>8, <2>9, Zenon
  <2>11. FlattenSeq(a) \in Seq(PaidOrders) /\ FlattenSeq(b) \in Seq(PaidOrders)
    BY <2>2, FlattenTyped
  <2>12. Stretch(FlattenSeq(d), FlattenSeq(c))
    BY <2>10, <2>11, Zenon DEF Stretch
  <2>13. QED
    BY <2>2, <2>12, Zenon
<1>4. QED
  BY <1>2, <1>3

(* What cuts a stretch off.                                                *)
Cuts(a, p, b, s, L) ==
  /\ s \in Seq(L) /\ Len(a) \in 0 .. Len(s)
  /\ SubSeq(s, 1, Len(a)) = a
  /\ SubSeq(s, Len(a) + Len(p) + 1, Len(s)) = b
  /\ \A k \in 1 .. Len(p) : Len(a) + k \in 1 .. Len(s) /\ s[Len(a) + k] = p[k]

LEMMA CutOff ==
  ASSUME NEW L, NEW a \in Seq(L), NEW p \in Seq(L), NEW b \in Seq(L), NEW s,
         s = (a \o p) \o b
  PROVE  Cuts(a, p, b, s, L)
<1> PICK m : m = Len(a)
  OBVIOUS
<1> PICK n : n = Len(p)
  OBVIOUS
<1> PICK l : l = Len(b)
  OBVIOUS
<1> PICK q : q = a \o p
  OBVIOUS
<1>1. /\ m \in Nat /\ n \in Nat /\ l \in Nat /\ q \in Seq(L) /\ Len(q) = m + n
      /\ \A k \in 1 .. m + n : q[k] = IF k <= m THEN a[k] ELSE p[k - m]
  BY LenProperties, ConcatProperties
<1>2. /\ s \in Seq(L) /\ Len(s) = Len(q) + Len(b)
      /\ \A k \in 1 .. Len(q) + Len(b) : s[k] = IF k <= Len(q) THEN q[k] ELSE b[k - Len(q)]
  BY <1>1, ConcatProperties
<1>3. /\ Len(s) = m + n + l
      /\ \A k \in 1 .. m + n + l : s[k] = IF k <= m + n THEN q[k] ELSE b[k - (m + n)]
  BY <1>1, <1>2
<1>4. \A k \in 1 .. m : s[k] = a[k]
  BY <1>1, <1>3
<1>5. \A k \in 1 .. n : m + k \in 1 .. m + n + l /\ s[m + k] = p[k]
  <2>1. ASSUME NEW k \in 1 .. n PROVE m + k \in 1 .. m + n + l /\ s[m + k] = p[k]
    <3>1. /\ m + k \in 1 .. m + n /\ m + k \in 1 .. m + n + l
          /\ ~(m + k <= m) /\ (m + k) - m = k
      BY <1>1
    <3>2. QED
      BY <1>1, <1>3, <3>1
  <2>2. QED
    BY <2>1
<1>6. \A k \in 1 .. l : m + n + k \in 1 .. m + n + l /\ s[m + n + k] = b[k]
  <2>1. ASSUME NEW k \in 1 .. l PROVE m + n + k \in 1 .. m + n + l /\ s[m + n + k] = b[k]
    <3>1. /\ m + n + k \in 1 .. m + n + l
          /\ ~(m + n + k <= m + n) /\ (m + n + k) - (m + n) = k
      BY <1>1
    <3>2. QED
      BY <1>3, <3>1
  <2>2. QED
    BY <2>1
<1>7. \A k \in 1 .. m + n + l : s[k] \in L
  BY <1>2, <1>3, ElementOfSeq
<1>8. SubSeq(s, 1, m) = a
  <2> PICK x : x = SubSeq(s, 1, m)
    OBVIOUS
  <2>1. /\ x \in Seq(L) /\ Len(x) = m /\ \A k \in 1 .. m : x[k] = s[k]
    BY <1>1, <1>7
  <2>2. x = a
    BY <1>4, <2>1, SameList
  <2>3. QED
    BY <2>2
<1>9. SubSeq(s, m + n + 1, m + n + l) = b
  <2> PICK x : x = SubSeq(s, m + n + 1, m + n + l)
    OBVIOUS
  <2>1. /\ x \in Seq(L) /\ Len(x) = l /\ \A k \in 1 .. l : x[k] = s[m + n + k]
    <3>1. m + n + 1 \in Int /\ m + n + l \in Int
      BY <1>1
    <3>2. \A i \in m + n + 1 .. m + n + l : s[i] \in L
      BY <1>1, <1>7
    <3>3. /\ x \in Seq(L)
          /\ Len(x) = IF m + n + 1 <= m + n + l THEN (m + n + l) - (m + n + 1) + 1 ELSE 0
          /\ \A i \in 1 .. (m + n + l) - (m + n + 1) + 1 : x[i] = s[m + n + 1 + i - 1]
      BY <3>1, <3>2, SubSeqProperties
    <3>4. (m + n + l) - (m + n + 1) + 1 = l /\ \A i \in 1 .. l : m + n + 1 + i - 1 = m + n + i
      BY <1>1
    <3>5. QED
      BY <1>1, <3>3, <3>4
  <2>2. x = b
    BY <1>6, <2>1, SameList
  <2>3. QED
    BY <2>2
<1>10. m \in 0 .. m + n + l
  BY <1>1
<1>11. QED
  BY <1>2, <1>3, <1>5, <1>8, <1>9, <1>10 DEF Cuts

-----------------------------------------------------------------------------
(* A purchase.                                                             *)

(* Each order of a list shows an amount that is what its payment's orders  *)
(* cost, less a discount.                                                  *)
Priced(s) ==
  \A k \in 1 .. Len(s) :
    KnownTotal(Paid(s, s[k].payment)) - s[k].amount \in Discounts

(* What the orders of a purchase become.                                   *)
Carried(id, paid, amount) ==
  [o \in Orders |->
     [offers |-> o.offers, delivery |-> o.delivery, created |-> o.created,
      ordered |-> o.ordered, payment |-> id, paid |-> paid, amount |-> amount]]
OpenTotals == [o \in Orders |-> OrderTotal(o)]
Amount(groups, discount) == KnownTotal(FlattenSeq(groups)) - discount

Showing(id, amount) == {o \in PaidOrders : o.payment = id /\ o.amount = amount}

LEMMA CarriedTyped ==
  ASSUME NEW id \in PaymentIds, NEW paid \in PaidDays, NEW amount \in Int
  PROVE  /\ Carried(id, paid, amount) \in [Orders -> Showing(id, amount)]
         /\ Agree(OpenTotals, Totals, Carried(id, paid, amount), Orders)
<1>1. ASSUME NEW o \in Orders
      PROVE  /\ Carried(id, paid, amount)[o] \in Showing(id, amount)
             /\ OpenTotals[o] = Totals[Carried(id, paid, amount)[o]]
  <2> PICK c : c = Carried(id, paid, amount)[o]
    OBVIOUS
  <2>1. c = [offers |-> o.offers, delivery |-> o.delivery, created |-> o.created,
             ordered |-> o.ordered, payment |-> id, paid |-> paid, amount |-> amount]
    BY DEF Carried
  <2>2. c \in PaidOrders
    BY <2>1 DEF PaidOrders, Orders
  <2>3. c.payment = id /\ c.amount = amount /\ c.offers = o.offers /\ c.delivery = o.delivery
    BY <2>1
  <2>4. OrderTotal(c) = OrderTotal(o)
    BY <2>3 DEF OrderTotal, ItemsTotal, DeliveryTotal
  <2>5. OpenTotals[o] = OrderTotal(o) /\ Totals[c] = OrderTotal(c)
    BY <2>2 DEF OpenTotals, Totals
  <2>6. QED
    BY <2>2, <2>3, <2>4, <2>5 DEF Showing
<1>2. \A x \in DOMAIN Carried(id, paid, amount) : x \in Orders
  BY DEF Carried
<1>3. Carried(id, paid, amount) \in [Orders -> Showing(id, amount)]
  <2> PICK f : f = Carried(id, paid, amount)
    OBVIOUS
  <2>1. f = [o \in Orders |-> f[o]]
    BY DEF Carried
  <2>2. \A o \in Orders : f[o] \in Showing(id, amount)
    BY <1>1
  <2>3. QED
    BY <2>1, <2>2
<1>4. QED
  BY <1>1, <1>3 DEF Agree

LEMMA OpenTotal ==
  ASSUME NEW p \in Seq(Orders)
  PROVE  OpenTotals \in [Orders -> Int] /\ KnownTotal(p) = Weight(OpenTotals, p)
<1>1. OpenTotals \in [Orders -> Int]
  BY OrdersCountable, OrderTotals DEF OpenTotals
<1>2. \A k \in DOMAIN p : p[k] \in Orders
  BY LenProperties, ElementOfSeq
<1>3. [k \in DOMAIN p |-> OrderTotal(p[k])] = [k \in DOMAIN p |-> OpenTotals[p[k]]]
  BY <1>2 DEF OpenTotals
<1>4. QED
  BY <1>1, <1>3 DEF KnownTotal, Weight

LEMMA TotalInt == \A p \in Seq(PaidOrders) : KnownTotal(p) \in Int
BY KnownTotals, WeightInt

(* What is bought carries its payment's id, and amount.                    *)
LEMMA BoughtIs ==
  ASSUME NEW id \in PaymentIds, NEW paid \in PaidDays, NEW groups \in Seq(Seq(Orders)),
         NEW discount \in Int
  PROVE  LET b == Bought(groups, id, paid, discount)
         IN /\ b \in Seq(Seq(PaidOrders))
            /\ b \in Seq(Seq(Showing(id, Amount(groups, discount))))
            /\ Amount(groups, discount) \in Int
            /\ KnownTotal(FlattenSeq(b)) - Amount(groups, discount) = discount
<1> PICK amount : amount = Amount(groups, discount)
  OBVIOUS
<1> PICK S : S = Showing(id, amount)
  OBVIOUS
<1> PICK C : C = Carried(id, paid, amount)
  OBVIOUS
<1> PICK G : G = [x \in Seq(Orders) |-> Map(C, x)]
  OBVIOUS
<1> PICK b : b = Bought(groups, id, paid, discount)
  OBVIOUS
<1>1. /\ FlattenSeq(groups) \in Seq(Orders)
      /\ KnownTotal(FlattenSeq(groups)) = Weight(OpenTotals, FlattenSeq(groups))
      /\ KnownTotal(FlattenSeq(groups)) \in Int
  <2>1. FlattenSeq(groups) \in Seq(Orders)
    BY FlattenTyped
  <2>2. QED
    BY <2>1, OpenTotal, WeightInt
<1>2. amount \in Int /\ amount = KnownTotal(FlattenSeq(groups)) - discount
  BY <1>1 DEF Amount
<1>3. C \in [Orders -> S] /\ Agree(OpenTotals, Totals, C, Orders)
  BY <1>2, CarriedTyped
<1>4. S \subseteq PaidOrders
  BY DEF Showing
<1>5. \A g \in DOMAIN groups : groups[g] \in Seq(Orders)
  BY LenProperties, ElementOfSeq
<1>6. \A o \in Orders :
        C[o] = [offers |-> o.offers, delivery |-> o.delivery, created |-> o.created,
                ordered |-> o.ordered, payment |-> id, paid |-> paid, amount |-> amount]
  BY DEF Carried
<1>7. b = Map(G, groups)
  <2> DEFINE Row(g) ==
        [k \in DOMAIN groups[g] |->
           [offers |-> groups[g][k].offers, delivery |-> groups[g][k].delivery,
            created |-> groups[g][k].created, ordered |-> groups[g][k].ordered,
            payment |-> id, paid |-> paid, amount |-> amount]]
  <2>1. b = [g \in DOMAIN groups |-> Row(g)]
    BY <1>2 DEF Bought
  <2>2. ASSUME NEW g \in DOMAIN groups PROVE Row(g) = G[groups[g]]
    <3>1. \A k \in DOMAIN groups[g] : groups[g][k] \in Orders
      BY <1>5, LenProperties, ElementOfSeq
    <3>2. Row(g) = [k \in DOMAIN groups[g] |-> C[groups[g][k]]]
      BY <1>6, <3>1
    <3>3. QED
      BY <1>5, <3>2 DEF Map
  <2> HIDE DEF Row
  <2>3. [g \in DOMAIN groups |-> Row(g)] = [g \in DOMAIN groups |-> G[groups[g]]]
    BY <2>2
  <2>4. QED
    BY <2>1, <2>3 DEF Map
<1>8. G \in [Seq(Orders) -> Seq(S)] /\ \A x \in Seq(Orders) : G[x] = Map(C, x)
  <2>1. \A x \in Seq(Orders) : Map(C, x) \in Seq(S)
    BY <1>3, MapTyped DEF Maps
  <2>2. QED
    BY <2>1
<1>9. b \in Seq(Seq(S))
  <2>1. Maps(Map(G, groups), G, groups, Seq(S))
    BY <1>8, MapTyped
  <2>2. QED
    BY <1>7, <2>1 DEF Maps
<1>10. b \in Seq(Seq(PaidOrders))
  <2>1. \A x \in Seq(S) : x \in Seq(PaidOrders)
    BY <1>4
  <2>2. \A x \in Seq(Seq(S)) : x \in Seq(Seq(PaidOrders))
    BY <2>1
  <2>3. QED
    BY <1>9, <2>2
<1>11. Weight(Totals, FlattenSeq(b)) = Weight(OpenTotals, FlattenSeq(groups))
  <2> PICK u : u = [x \in Seq(Orders) |-> Weight(OpenTotals, x)]
    OBVIOUS
  <2> PICK v : v = [x \in Seq(PaidOrders) |-> Weight(Totals, x)]
    OBVIOUS
  <2>1. Weight(OpenTotals, FlattenSeq(groups)) = Weight(u, groups)
    BY OpenTotal, WeightFlatten, EmptySeq
  <2>2. Weight(Totals, FlattenSeq(b)) = Weight(v, b)
    BY <1>10, KnownTotals, WeightFlatten, EmptySeq
  <2>3. Agree(u, v, G, Seq(Orders))
    <3>1. ASSUME NEW x \in Seq(Orders) PROVE u[x] = v[G[x]]
      <4>1. G[x] = Map(C, x) /\ Map(C, x) \in Seq(PaidOrders)
        <5>1. G[x] \in Seq(S) /\ G[x] = Map(C, x)
          BY <1>8
        <5>2. QED
          BY <1>4, <5>1
      <4>2. Weight(Totals, Map(C, x)) = Weight(OpenTotals, x)
        BY <1>3, WeightMap
      <4>3. u[x] = Weight(OpenTotals, x)
        OBVIOUS
      <4>4. v[Map(C, x)] = Weight(Totals, Map(C, x))
        BY <4>1
      <4>5. QED
        BY <4>1, <4>2, <4>3, <4>4
    <3>2. QED
      BY <3>1 DEF Agree
  <2>4. Weight(v, Map(G, groups)) = Weight(u, groups)
    BY <2>3, WeightMap
  <2>5. QED
    BY <1>7, <2>1, <2>2, <2>4
<1>12. KnownTotal(FlattenSeq(b)) = Weight(Totals, FlattenSeq(b))
  BY <1>10, FlattenTyped, KnownTotals
<1>13. KnownTotal(FlattenSeq(b)) - amount = discount
  BY <1>1, <1>2, <1>11, <1>12
<1>14. QED
  BY <1>2, <1>9, <1>10, <1>13

(* The orders of a purchase, put before the others, leave all priced.      *)
LEMMA BuyingPrices ==
  ASSUME NEW s \in Seq(PaidOrders), Priced(s), NEW id, NEW amount \in Int,
         NEW q \in Seq(Showing(id, amount)), KnownTotal(q) - amount \in Discounts,
         \A k \in 1 .. Len(s) : s[k].payment # id
  PROVE  Priced(q \o s)
<1> PICK c : c = q \o s
  OBVIOUS
<1> PICK m : m = Len(q)
  OBVIOUS
<1> PICK n : n = Len(s)
  OBVIOUS
<1>1. q \in Seq(PaidOrders) /\ \A k \in 1 .. m : q[k] \in Showing(id, amount)
  <2>1. \A x \in Seq(Showing(id, amount)) : x \in Seq(PaidOrders)
    BY DEF Showing
  <2>2. QED
    BY <2>1, ElementOfSeq
<1>2. /\ m \in Nat /\ n \in Nat /\ c \in Seq(PaidOrders) /\ Len(c) = m + n
      /\ \A k \in 1 .. m + n : c[k] = IF k <= m THEN q[k] ELSE s[k - m]
  BY <1>1, LenProperties, ConcatProperties
<1>3. \A k \in 1 .. m : q[k].payment = id /\ q[k].amount = amount /\ q[k] \in PaidOrders
  BY <1>1 DEF Showing
<1>4. \A k \in 1 .. n : s[k] \in PaidOrders
  BY ElementOfSeq
<1>5. \A j : Paid(c, j) = Kept(q, With(j)) \o Kept(s, With(j))
  <2>1. ASSUME NEW j PROVE Paid(c, j) = Kept(q, With(j)) \o Kept(s, With(j))
    <3>1. Kept(q \o s, With(j)) = Kept(q, With(j)) \o Kept(s, With(j))
      BY <1>1, KeptConcat
    <3>2. Paid(c, j) = Kept(c, With(j))
      BY <1>2, PaidIs
    <3>3. QED
      BY <3>1, <3>2
  <2>2. QED
    BY <2>1
<1>6. ASSUME NEW k \in 1 .. m + n
      PROVE  KnownTotal(Paid(c, c[k].payment)) - c[k].amount \in Discounts
  <2>1. CASE k <= m
    <3>1. k \in 1 .. m /\ c[k].payment = id /\ c[k].amount = amount
      BY <1>2, <1>3, <2>1
    <3>2. Kept(q, With(id)) = q
      <4>1. \A i \in 1 .. Len(q) : q[i] \in With(id)
        BY <1>3 DEF With
      <4>2. QED
        BY <1>1, <4>1, KeptAll
    <3>3. Kept(s, With(id)) = << >>
      <4>1. \A i \in 1 .. Len(s) : s[i] \notin With(id)
        BY DEF With
      <4>2. QED
        BY <4>1, KeptNone
    <3>4. q \o << >> = q
      BY <1>1, ConcatEmptySeq
    <3>5. Paid(c, id) = q
      BY <1>5, <3>2, <3>3, <3>4
    <3>6. QED
      BY <3>1, <3>5
  <2>2. CASE ~(k <= m)
    <3> PICK i : i = k - m
      OBVIOUS
    <3> PICK j : j = s[i].payment
      OBVIOUS
    <3>1. i \in 1 .. n /\ c[k] = s[i]
      BY <1>2, <2>2
    <3>2. j # id
      BY <3>1
    <3>3. Kept(q, With(j)) = << >>
      <4>1. \A l \in 1 .. Len(q) : q[l] \notin With(j)
        BY <1>3, <3>2 DEF With
      <4>2. QED
        BY <1>1, <4>1, KeptNone
    <3>4. Kept(s, With(j)) \in Seq(PaidOrders)
      BY KeptTyped
    <3>5. << >> \o Kept(s, With(j)) = Kept(s, With(j))
      BY <3>4, ConcatEmptySeq
    <3>6. Paid(c, j) = Paid(s, j)
      BY <1>5, <3>3, <3>5, PaidIs
    <3>7. KnownTotal(Paid(s, j)) - s[i].amount \in Discounts
      BY <3>1 DEF Priced
    <3>8. QED
      BY <3>1, <3>6, <3>7
  <2>3. QED
    BY <2>1, <2>2
<1>7. Priced(c)
  BY <1>2, <1>6 DEF Priced
<1>8. QED
  BY <1>7, Zenon

-----------------------------------------------------------------------------
(* The answer.                                                             *)

Told(s) ==
  [k \in DOMAIN FromOrders(s) |-> OrderPayment(FromOrders(s)[k])]

PaymentSet ==
  [id : PaymentIds, amount : Int, date : Int, details : Seq(LineSet), balanced : BOOLEAN]

(* What is told of a payment comes from the orders of its group.           *)
Tells(p, s) ==
  LET orders == Paid(s, p.id)
  IN /\ p \in PaymentSet
     /\ p.details = ListDetails(orders)
     /\ p.balanced = Balanced(p.amount - KnownTotal(orders))
     /\ \E m \in 1 .. Len(s) : First(s, p.id, m) /\ p.amount = s[m].amount

LEMMA GroupTells ==
  ASSUME NEW s \in Seq(PaidOrders), NEW g \in Groups,
         GroupIs(g.id, g.orders, s)
  PROVE  OrderPayment(g).id = g.id /\ Tells(OrderPayment(g), s)
<1> PICK p : p = OrderPayment(g)
  OBVIOUS
<1> PICK o : o = g.orders[1]
  OBVIOUS
<1>1. /\ p.id = g.id /\ p.amount = o.amount /\ p.date = PaymentDate(o)
      /\ p.details = ListDetails(g.orders)
      /\ p.balanced = Balanced(o.amount - KnownTotal(g.orders))
      /\ p = [id |-> p.id, amount |-> p.amount, date |-> p.date, details |-> p.details,
              balanced |-> p.balanced]
  BY Zenon DEF OrderPayment
<1>2. g.id \in PaymentIds /\ g.orders \in Seq(PaidOrders)
  BY DEF Groups
<1>3. PICK m \in 1 .. Len(s) : First(s, g.id, m) /\ o = s[m]
  BY DEF GroupIs
<1>4. o \in PaidOrders
  BY <1>3, ElementOfSeq
<1>5. g.orders = Paid(s, g.id)
  BY PaidIs DEF GroupIs
<1>6. o.amount \in Int /\ PaymentDate(o) \in Int
  BY <1>4, PaymentsAssumption DEF PaidOrders, PaymentDate
<1>7. ListDetails(g.orders) \in Seq(LineSet)
  BY <1>2, LinesTyped
<1>8. Balanced(o.amount - KnownTotal(g.orders)) \in BOOLEAN
  BY DEF Balanced
<1>9. p \in PaymentSet
  <2>1. /\ p.id \in PaymentIds /\ p.amount \in Int /\ p.date \in Int
        /\ p.details \in Seq(LineSet) /\ p.balanced \in BOOLEAN
    BY <1>1, <1>2, <1>6, <1>7, <1>8, Zenon
  <2>2. QED
    BY <1>1, <2>1, Zenon DEF PaymentSet
<1>10. Tells(p, s)
  BY <1>1, <1>3, <1>5, <1>9, Zenon DEF Tells
<1>11. QED
  BY <1>1, <1>10, Zenon

LEMMA ToldTyped ==
  ASSUME NEW s \in Seq(PaidOrders)
  PROVE  /\ Told(s) \in Seq(PaymentSet)
         /\ Len(Told(s)) = Len(FromOrders(s))
         /\ \A k \in 1 .. Len(Told(s)) :
              /\ Told(s)[k].id = FromOrders(s)[k].id
              /\ Tells(Told(s)[k], s)
<1> PICK g : g = FromOrders(s)
  OBVIOUS
<1> PICK t : t = Told(s)
  OBVIOUS
<1>1. g \in Seq(Groups) /\ \A k \in 1 .. Len(g) : GroupIs(g[k].id, g[k].orders, s)
  BY FromOrdersGroups DEF Grouped
<1>2. Len(g) \in Nat /\ DOMAIN g = 1 .. Len(g)
  BY <1>1, LenProperties
<1>3. t = [k \in 1 .. Len(g) |-> OrderPayment(g[k])]
  BY <1>2 DEF Told
<1>4. ASSUME NEW k \in 1 .. Len(g)
      PROVE  t[k].id = g[k].id /\ Tells(t[k], s) /\ t[k] \in PaymentSet
  <2>1. g[k] \in Groups
    BY <1>1, ElementOfSeq
  <2>2. OrderPayment(g[k]).id = g[k].id /\ Tells(OrderPayment(g[k]), s)
    BY <1>1, <2>1, GroupTells
  <2>3. t[k] = OrderPayment(g[k])
    BY <1>3
  <2>4. t[k] \in PaymentSet
    BY <2>2, <2>3, Zenon DEF Tells
  <2>5. QED
    BY <2>2, <2>3, <2>4, Zenon
<1>5. t \in Seq(PaymentSet) /\ Len(t) = Len(g)
  <2>1. t \in [1 .. Len(g) -> PaymentSet]
    BY <1>3, <1>4
  <2>2. QED
    BY <1>2, <2>1
<1>6. QED
  BY <1>4, <1>5

LEMMA ToldNothing == Told(<< >>) = << >>
<1>1. << >> \in Seq(PaidOrders) /\ Len(<< >>) = 0
  BY EmptySeq
<1>2. PICK r : AddsUp(r, << >>)
  BY <1>1, FromOrdersSteps
<1>3. FromOrders(<< >>) = << >>
  BY <1>1, <1>2 DEF AddsUp
<1>4. QED
  BY <1>3 DEF Told

-----------------------------------------------------------------------------
(* The inductive invariant: the answer is made of a stretch of the buyer's *)
(* orders, which all show what their payment's orders cost, less a coupon. *)

FetchSet ==
  [st : {"idle", "user", "orders"}, limit : Limits \union {None},
   offset : Offsets \union {None}, status : Int \union {None},
   orders : Seq(PaidOrders), payments : Seq(PaymentSet)]

PaymentsTypeOK ==
  /\ shop \in Seq(Seq(PaidOrders))
  /\ fetch \in FetchSet
  /\ fetch.st # "idle" => fetch.limit \in Limits /\ fetch.offset \in Offsets

PaymentsInv ==
  /\ PaymentsTypeOK
  /\ fetch.payments = Told(fetch.orders)
  /\ Stretch(fetch.orders, FlattenSeq(shop))
  /\ Priced(FlattenSeq(shop))

LEMMA StatusTyped ==
  \A error \in VaultErrors \union {"ExternalServiceFailed"} : Status(error) \in Int
BY DEF VaultErrors, Status

LEMMA FetchTyped ==
  ASSUME NEW st \in {"idle", "user", "orders"},
         NEW limit \in Limits \union {None}, NEW offset \in Offsets \union {None},
         NEW status \in Int \union {None},
         NEW orders \in Seq(PaidOrders), NEW payments \in Seq(PaymentSet)
  PROVE  Fetch(st, limit, offset, status, orders, payments) \in FetchSet
BY DEF Fetch, FetchSet

LEMMA AnswerTyped ==
  ASSUME NEW orders \in Seq(PaidOrders), NEW payments \in Seq(PaymentSet)
  PROVE  Fetch("idle", None, None, 200, orders, payments) \in FetchSet
BY DEF Fetch, FetchSet

(* A step that starts a request, or ends it with nothing.                  *)
LEMMA NothingTold ==
  ASSUME PaymentsInv, shop' = shop, NEW st \in {"idle", "user", "orders"},
         NEW limit \in Limits \union {None}, NEW offset \in Offsets \union {None},
         NEW status \in Int \union {None},
         st # "idle" => limit \in Limits /\ offset \in Offsets,
         fetch' = Fetch(st, limit, offset, status, << >>, << >>)
  PROVE  PaymentsInv'
<1>1. /\ fetch' = [st |-> st, limit |-> limit, offset |-> offset, status |-> status,
                   orders |-> << >>, payments |-> << >>]
      /\ << >> \in Seq(PaidOrders) /\ << >> \in Seq(PaymentSet)
  BY EmptySeq DEF Fetch
<1>2. PaymentsTypeOK'
  <2>1. shop' \in Seq(Seq(PaidOrders))
    BY DEF PaymentsInv, PaymentsTypeOK, FetchSet
  <2>2. Fetch(st, limit, offset, status, << >>, << >>) \in FetchSet
    BY <1>1, FetchTyped, Zenon
  <2>3. fetch'.st # "idle" => fetch'.limit \in Limits /\ fetch'.offset \in Offsets
    BY <1>1
  <2>4. fetch' \in FetchSet
    BY <2>2, Zenon
  <2>5. QED
    BY <2>1, <2>3, <2>4 DEF PaymentsTypeOK
<1>3. fetch'.payments = Told(fetch'.orders)
  BY <1>1, ToldNothing
<1>4. Stretch(fetch'.orders, FlattenSeq(shop'))
  <2>1. FlattenSeq(shop) \in Seq(PaidOrders)
    BY FlattenTyped DEF PaymentsInv, PaymentsTypeOK, FetchSet
  <2>2. Stretch(<< >>, FlattenSeq(shop))
    BY <2>1, NoStretch
  <2>3. QED
    BY <1>1, <2>2
<1>5. Priced(FlattenSeq(shop'))
  BY DEF PaymentsInv
<1>6. QED
  BY <1>2, <1>3, <1>4, <1>5 DEF PaymentsInv

LEMMA BuyStep ==
  ASSUME PaymentsInv, NEW id \in PaymentIds, NEW groups \in Purchases,
         NEW paid \in PaidDays, NEW discount \in Discounts, Buy(id, groups, paid, discount)
  PROVE  PaymentsInv'
<1> PICK b : b = Bought(groups, id, paid, discount)
  OBVIOUS
<1> PICK amount : amount = Amount(groups, discount)
  OBVIOUS
<1> PICK s : s = FlattenSeq(shop)
  OBVIOUS
<1> PICK q : q = FlattenSeq(b)
  OBVIOUS
<1>1. shop \in Seq(Seq(PaidOrders)) /\ s \in Seq(PaidOrders) /\ fetch.orders \in Seq(PaidOrders)
  BY FlattenTyped DEF PaymentsInv, PaymentsTypeOK, FetchSet
<1>2. shop' = b \o shop /\ fetch' = fetch
  BY DEF Buy
<1>3. groups \in Seq(Seq(Orders)) /\ discount \in Int
  BY PaymentsAssumption
<1>4. /\ b \in Seq(Seq(PaidOrders)) /\ b \in Seq(Seq(Showing(id, amount))) /\ amount \in Int
      /\ KnownTotal(q) - amount = discount
  BY <1>3, BoughtIs
<1>5. q \in Seq(PaidOrders) /\ q \in Seq(Showing(id, amount))
  BY <1>4, FlattenTyped
<1>6. shop' \in Seq(Seq(PaidOrders)) /\ FlattenSeq(shop') = q \o s
  BY <1>1, <1>2, <1>4, ConcatProperties, FlattenConcat
<1>7. \A k \in 1 .. Len(s) : s[k].payment # id
  <2> PICK Others : Others = {o \in PaidOrders : o.payment # id}
    OBVIOUS
  <2>1. \A g \in 1 .. Len(shop) : shop[g] \in Seq(Others)
    <3>1. ASSUME NEW g \in 1 .. Len(shop) PROVE shop[g] \in Seq(Others)
      <4> PICK x : x = shop[g]
        OBVIOUS
      <4>1. x \in Seq(PaidOrders) /\ g \in DOMAIN shop
        BY <1>1, LenProperties, ElementOfSeq
      <4>2. \A k \in DOMAIN x : x[k].payment # id
        BY <4>1 DEF Buy
      <4>3. Len(x) \in Nat /\ DOMAIN x = 1 .. Len(x) /\ \A k \in 1 .. Len(x) : x[k] \in PaidOrders
        BY <4>1, LenProperties, ElementOfSeq
      <4>4. \A k \in 1 .. Len(x) : x[k] \in Others
        BY <4>2, <4>3
      <4>5. x \in [1 .. Len(x) -> Others]
        BY <4>1, <4>3, <4>4, LenProperties
      <4>6. QED
        BY <4>3, <4>5
    <3>2. QED
      BY <3>1
  <2>2. shop \in Seq(Seq(Others))
    <3>1. shop \in [1 .. Len(shop) -> Seq(Others)] /\ Len(shop) \in Nat
      BY <1>1, <2>1, LenProperties
    <3>2. QED
      BY <3>1
  <2>3. s \in Seq(Others)
    BY <2>2, FlattenTyped
  <2>4. \A k \in 1 .. Len(s) : s[k] \in Others
    BY <2>3, ElementOfSeq
  <2>5. QED
    BY <2>4
<1>8. Priced(q \o s)
  <2>1. Priced(s)
    BY DEF PaymentsInv
  <2>2. KnownTotal(q) - amount \in Discounts
    BY <1>4
  <2>3. QED
    BY <1>1, <1>4, <1>5, <1>7, <2>1, <2>2, BuyingPrices
<1>9. Stretch(fetch.orders, q \o s)
  <2>1. Stretch(fetch.orders, s)
    BY DEF PaymentsInv
  <2>2. QED
    BY <1>1, <1>5, <2>1, LongerStretch
<1>10. PaymentsTypeOK'
  BY <1>2, <1>6 DEF PaymentsInv, PaymentsTypeOK, FetchSet
<1>11. fetch'.payments = Told(fetch'.orders)
  BY <1>2 DEF PaymentsInv
<1>12. Stretch(fetch'.orders, FlattenSeq(shop')) /\ Priced(FlattenSeq(shop'))
  BY <1>2, <1>6, <1>8, <1>9
<1>13. QED
  BY <1>10, <1>11, <1>12 DEF PaymentsInv

LEMMA OrdersToldStep ==
  ASSUME PaymentsInv, OrdersTold
  PROVE  PaymentsInv'
<1> PICK limit : limit = fetch.limit
  OBVIOUS
<1> PICK offset : offset = fetch.offset
  OBVIOUS
<1> PICK last : last = IF offset + limit < Len(shop) THEN offset + limit ELSE Len(shop)
  OBVIOUS
<1> PICK page : page = PageOf(limit, offset)
  OBVIOUS
<1> PICK orders : orders = FlattenSeq(page)
  OBVIOUS
<1>1. shop \in Seq(Seq(PaidOrders)) /\ limit \in Nat /\ offset \in Nat
  BY PaymentsAssumption DEF PaymentsInv, PaymentsTypeOK, FetchSet, OrdersTold
<1>2. last \in Nat /\ last <= Len(shop)
  BY <1>1, LenProperties
<1>3. page = SubSeq(shop, offset + 1, last)
  BY DEF PageOf
<1>4. page \in Seq(Seq(PaidOrders)) /\ Stretch(orders, FlattenSeq(shop))
  BY <1>1, <1>2, <1>3, GroupsStretch
<1>5. orders \in Seq(PaidOrders) /\ Told(orders) \in Seq(PaymentSet)
  BY <1>4, FlattenTyped, ToldTyped
<1>6. shop' = shop /\ fetch' = Fetch("idle", None, None, 200, orders, Told(orders))
  <2>1. FlattenSeq(page) = orders
    OBVIOUS
  <2>2. QED
    BY <2>1 DEF OrdersTold, Told
<1>7. fetch' = [st |-> "idle", limit |-> None, offset |-> None, status |-> 200,
                orders |-> orders, payments |-> Told(orders)]
  BY <1>6 DEF Fetch
<1>8. PaymentsTypeOK'
  <2>1. Fetch("idle", None, None, 200, orders, Told(orders)) \in FetchSet
    BY <1>5, AnswerTyped, ZenonT(30)
  <2>2. fetch' \in FetchSet
    BY <1>6, <2>1, Zenon
  <2>3. fetch'.st = "idle"
    BY <1>7
  <2>4. QED
    BY <1>1, <1>6, <2>2, <2>3 DEF PaymentsTypeOK
<1>9. fetch'.payments = Told(fetch'.orders)
  BY <1>7
<1>10. Stretch(fetch'.orders, FlattenSeq(shop')) /\ Priced(FlattenSeq(shop'))
  BY <1>4, <1>6, <1>7 DEF PaymentsInv
<1>11. QED
  BY <1>8, <1>9, <1>10 DEF PaymentsInv

LEMMA PaymentsStart ==
  ASSUME PaymentsInit
  PROVE  PaymentsInv
<1>1. /\ shop = << >>
      /\ fetch = [st |-> "idle", limit |-> None, offset |-> None, status |-> None,
                  orders |-> << >>, payments |-> << >>]
  BY DEF PaymentsInit, Idle, Fetch
<1>2. << >> \in Seq(PaidOrders) /\ << >> \in Seq(Seq(PaidOrders)) /\ << >> \in Seq(PaymentSet)
  BY EmptySeq
<1>3. PaymentsTypeOK
  BY <1>1, <1>2 DEF PaymentsTypeOK, FetchSet
<1>4. FlattenSeq(shop) = << >>
  BY <1>1, FlattenEmpty
<1>5. Stretch(<< >>, << >>)
  BY <1>2, NoStretch
<1>6. Priced(<< >>)
  BY DEF Priced
<1>7. Told(<< >>) = << >>
  BY ToldNothing
<1>8. fetch.payments = Told(fetch.orders) /\ fetch.orders = << >>
  BY <1>1, <1>7
<1>9. QED
  BY <1>3, <1>4, <1>5, <1>6, <1>8 DEF PaymentsInv

LEMMA PaymentsStep ==
  ASSUME PaymentsInv, [PaymentsNext]_paymentsVars
  PROVE  PaymentsInv'
<1>1. CASE \E id \in PaymentIds, groups \in Purchases, paid \in PaidDays, discount \in Discounts :
             Buy(id, groups, paid, discount)
  BY <1>1, BuyStep
<1>2. CASE \E error \in VaultErrors : VaultRefuses(error)
  <2>1. PICK error \in VaultErrors : VaultRefuses(error)
    BY <1>2
  <2>2. /\ shop' = shop /\ Status(error) \in Int
        /\ fetch' = Fetch("idle", None, None, Status(error), << >>, << >>)
    BY <2>1, StatusTyped DEF VaultRefuses, Answered
  <2>3. QED
    BY <2>2, NothingTold
<1>3. CASE \E limit \in Limits, offset \in Offsets : Ask(limit, offset)
  <2>1. PICK limit \in Limits, offset \in Offsets : Ask(limit, offset)
    BY <1>3
  <2>2. shop' = shop /\ fetch' = Fetch("user", limit, offset, None, << >>, << >>)
    BY <2>1 DEF Ask
  <2>3. QED
    BY <2>2, NothingTold
<1>4. CASE UserTold
  <2>1. fetch.st = "user" /\ fetch' = [fetch EXCEPT !.st = "orders"] /\ shop' = shop
    BY <1>4 DEF UserTold
  <2>2. PaymentsTypeOK'
    BY <2>1 DEF PaymentsInv, PaymentsTypeOK, FetchSet
  <2>3. fetch'.orders = fetch.orders /\ fetch'.payments = fetch.payments
    BY <2>1 DEF PaymentsInv, PaymentsTypeOK, FetchSet
  <2>4. fetch'.payments = Told(fetch'.orders)
    BY <2>3 DEF PaymentsInv
  <2>5. Stretch(fetch'.orders, FlattenSeq(shop')) /\ Priced(FlattenSeq(shop'))
    BY <2>1, <2>3 DEF PaymentsInv
  <2>6. QED
    BY <2>2, <2>4, <2>5 DEF PaymentsInv
<1>5. CASE OrdersTold
  BY <1>5, OrdersToldStep
<1>6. CASE AllegroFails
  <2>1. /\ shop' = shop /\ Status("ExternalServiceFailed") \in Int
        /\ fetch' = Fetch("idle", None, None, Status("ExternalServiceFailed"),
                              << >>, << >>)
    BY <1>6, StatusTyped DEF AllegroFails, Answered
  <2>2. QED
    BY <2>1, NothingTold
<1>7. CASE UNCHANGED paymentsVars
  <2>1. shop' = shop /\ fetch' = fetch
    BY <1>7 DEF paymentsVars
  <2>2. QED
    BY <2>1 DEF PaymentsInv, PaymentsTypeOK, FetchSet
<1>8. QED
  BY <1>1, <1>2, <1>3, <1>4, <1>5, <1>6, <1>7 DEF PaymentsNext

LEMMA PaymentsInvariant ==
  PaymentsSpec => []PaymentsInv
<1>1. PaymentsInit => PaymentsInv
  BY PaymentsStart
<1>2. PaymentsInv /\ [PaymentsNext]_paymentsVars => PaymentsInv'
  BY PaymentsStep
<1>3. QED
  BY <1>1, <1>2, PTL DEF PaymentsSpec

(* Requests, answers and the buyer's orders keep their types: what is told *)
(* of a page are well-formed payments, whatever Allegro's orders look like.*)
THEOREM PaymentsTypeCorrect ==
  PaymentsSpec => []PaymentsTypeOK
<1>1. PaymentsInv => PaymentsTypeOK
  BY DEF PaymentsInv
<1>2. QED
  BY <1>1, PaymentsInvariant, PTL

-----------------------------------------------------------------------------
(* The properties of an answer.                                            *)

(* The lines of payment p, and a page of payments t, account for orders s. *)
LinesAccount(s, p) ==
  LET lines == p.details
      paid == Paid(s, p.id)
  IN /\ SumFunction([i \in DOMAIN lines |-> Cost(lines[i])]) = KnownTotal(paid)
     /\ Kept(lines, {"offer"} \X Offers)
          = FlattenSeq([n \in DOMAIN paid |-> OfferLines(paid[n].offers)])

ListsAll(s, t) == {t[k].id : k \in DOMAIN t} = {s[k].payment : k \in DOMAIN s}
ListsInOrder(s, t) ==
  \A k, l \in DOMAIN t : k < l =>
    \E m, n \in DOMAIN s : m < n /\ First(s, t[k].id, m) /\ First(s, t[l].id, n)
Accounts(s, t) ==
  ListsAll(s, t) /\ ListsInOrder(s, t) /\ \A k \in DOMAIN t : LinesAccount(s, t[k])

LEMMA ToldAccounts ==
  ASSUME NEW s \in Seq(PaidOrders)
  PROVE  Accounts(s, Told(s))
<1> PICK t : t = Told(s)
  OBVIOUS
<1> PICK g : g = FromOrders(s)
  OBVIOUS
<1>1. s \in Seq(PaidOrders) /\ t = Told(s)
  OBVIOUS
<1>2. /\ t \in Seq(PaymentSet) /\ Len(t) = Len(g)
      /\ \A k \in 1 .. Len(t) : t[k].id = g[k].id /\ Tells(t[k], s)
  BY <1>1, ToldTyped
<1>3. /\ \A n \in 1 .. Len(s) : \E k \in 1 .. Len(t) : t[k].id = s[n].payment
      /\ \A k, l \in 1 .. Len(t) : k < l => InOrder(t[k].id, t[l].id, s)
  <2>1. Grouped(g, s)
    BY <1>1, FromOrdersGroups
  <2>2. /\ \A n \in 1 .. Len(s) : \E k \in 1 .. Len(g) : g[k].id = s[n].payment
        /\ \A k, l \in 1 .. Len(g) : k < l => InOrder(g[k].id, g[l].id, s)
    BY <2>1, Zenon DEF Grouped
  <2>3. QED
    BY <1>2, <2>2
<1>4. DOMAIN s = 1 .. Len(s) /\ DOMAIN t = 1 .. Len(t)
  BY <1>1, <1>2, LenProperties
<1>5. ListsAll(s, t)
  <2>1. ASSUME NEW k \in 1 .. Len(t) PROVE \E n \in 1 .. Len(s) : t[k].id = s[n].payment
    <3>1. Tells(t[k], s)
      BY <1>2
    <3>2. PICK m \in 1 .. Len(s) : First(s, t[k].id, m)
      BY <3>1, Zenon DEF Tells
    <3>3. s[m].payment = t[k].id
      BY <3>2 DEF First
    <3>4. QED
      BY <3>3
  <2>2. \A n \in 1 .. Len(s) : \E k \in 1 .. Len(t) : t[k].id = s[n].payment
    BY <1>3
  <2>3. \A k \in DOMAIN t : \E n \in DOMAIN s : t[k].id = s[n].payment
    BY <1>4, <2>1
  <2>4. \A n \in DOMAIN s : \E k \in DOMAIN t : t[k].id = s[n].payment
    BY <1>4, <2>2
  <2>5. QED
    BY <2>3, <2>4 DEF ListsAll
<1>6. ASSUME NEW k \in DOMAIN t, NEW l \in DOMAIN t, k < l
      PROVE  \E m, n \in DOMAIN s :
               m < n /\ First(s, t[k].id, m) /\ First(s, t[l].id, n)
  BY <1>3, <1>4, <1>6 DEF InOrder
<1>7. ASSUME NEW k \in DOMAIN t PROVE LinesAccount(s, t[k])
  <2> PICK paid : paid = Paid(s, t[k].id)
    OBVIOUS
  <2>1. paid \in Seq(PaidOrders)
    BY <1>1, PaidIs, KeptTyped
  <2>2. t[k].details = ListDetails(paid)
    <3>1. Tells(t[k], s)
      BY <1>2, <1>4
    <3>2. QED
      BY <3>1, Zenon DEF Tells
  <2>3. QED
    BY <2>1, <2>2, LinesTell DEF LinesAccount
<1>8. QED
  BY <1>5, <1>6, <1>7, Zenon DEF Accounts, ListsInOrder

LEMMA AccountsFor ==
  ASSUME PaymentsInv
  PROVE  PageAccountsForOrders
<1>1. fetch.orders \in Seq(PaidOrders) /\ fetch.payments = Told(fetch.orders)
  BY DEF PaymentsInv, PaymentsTypeOK, FetchSet
<1>2. Accounts(fetch.orders, fetch.payments)
  BY <1>1, ToldAccounts
<1>3. QED
  BY <1>2, Zenon DEF Accounts, ListsAll, ListsInOrder, LinesAccount, First,
                     PageAccountsForOrders

(* A page of payments accounts for its orders, whatever the orders, their  *)
(* number and the payments they belong to: each payment once, in the order *)
(* of its first order, every item and cost to the last cent.               *)
THEOREM PageAccountsForOrdersHolds ==
  PaymentsSpec => []PageAccountsForOrders
<1>1. PaymentsInv => PageAccountsForOrders
  BY AccountsFor
<1>2. QED
  BY <1>1, PaymentsInvariant, PTL

(* What the orders of a payment cost, on and off the page.                 *)
LEMMA PartsTotal ==
  ASSUME NEW a \in Seq(PaidOrders), NEW s \in Seq(PaidOrders), NEW b \in Seq(PaidOrders), NEW id
  PROVE  /\ KnownTotal(Paid(a, id)) \in Int
         /\ KnownTotal(Paid(s, id)) \in Int
         /\ KnownTotal(Paid(b, id)) \in Int
         /\ KnownTotal(Paid((a \o s) \o b, id))
              = KnownTotal(Paid(a, id)) + KnownTotal(Paid(s, id))
                  + KnownTotal(Paid(b, id))
<1> PICK T : T = With(id)
  OBVIOUS
<1> PICK ka : ka = Kept(a, T)
  OBVIOUS
<1> PICK ks : ks = Kept(s, T)
  OBVIOUS
<1> PICK kb : kb = Kept(b, T)
  OBVIOUS
<1>1. a \o s \in Seq(PaidOrders) /\ (a \o s) \o b \in Seq(PaidOrders)
  BY ConcatProperties
<1>2. ka \in Seq(PaidOrders) /\ ks \in Seq(PaidOrders) /\ kb \in Seq(PaidOrders)
  BY KeptTyped
<1>3. Paid(a, id) = ka /\ Paid(s, id) = ks /\ Paid(b, id) = kb
  BY PaidIs
<1>4. Paid((a \o s) \o b, id) = (ka \o ks) \o kb
  <2>1. Paid((a \o s) \o b, id) = Kept((a \o s) \o b, T)
    BY <1>1, PaidIs
  <2>2. Kept((a \o s) \o b, T) = Kept(a \o s, T) \o kb
    BY <1>1, KeptConcat
  <2>3. Kept(a \o s, T) = ka \o ks
    BY KeptConcat
  <2>4. QED
    BY <2>1, <2>2, <2>3, Zenon
<1>5. ka \o ks \in Seq(PaidOrders) /\ (ka \o ks) \o kb \in Seq(PaidOrders)
  BY <1>2, ConcatProperties
<1>6. Totals \in [PaidOrders -> Int]
  BY <1>2, KnownTotals
<1>7. /\ Weight(Totals, (ka \o ks) \o kb) = Weight(Totals, ka \o ks) + Weight(Totals, kb)
      /\ Weight(Totals, ka \o ks) = Weight(Totals, ka) + Weight(Totals, ks)
  <2>1. Weight(Totals, ka \o ks) = Weight(Totals, ka) + Weight(Totals, ks)
    BY <1>2, <1>6, WeightConcat
  <2> PICK kk : kk = ka \o ks
    OBVIOUS
  <2>2. kk \in Seq(PaidOrders)
    BY <1>5
  <2>3. Weight(Totals, kk \o kb) = Weight(Totals, kk) + Weight(Totals, kb)
    BY <1>2, <1>6, <2>2, WeightConcat, ZenonT(60)
  <2>4. QED
    BY <2>1, <2>3
<1>8. /\ KnownTotal(ka) = Weight(Totals, ka) /\ KnownTotal(ks) = Weight(Totals, ks)
      /\ KnownTotal(kb) = Weight(Totals, kb)
      /\ KnownTotal((ka \o ks) \o kb) = Weight(Totals, (ka \o ks) \o kb)
  BY <1>2, <1>5, KnownTotals
<1>9. Weight(Totals, ka) \in Int /\ Weight(Totals, ks) \in Int /\ Weight(Totals, kb) \in Int
  BY <1>2, <1>6, WeightInt
<1>10. QED
  BY <1>3, <1>4, <1>7, <1>8, <1>9

LEMMA MissingIs ==
  ASSUME NEW x \in Int, NEW y \in Int, NEW z \in Int, NEW u \in Int,
         NEW w, w = x + y + z
  PROVE  Balanced(u - y) <=> (x + z) - (w - u) \in -1 .. 1
<1>1. (x + z) - (w - u) = u - y
  OBVIOUS
<1>2. Balanced(u - y) <=> u - y \in -1 .. 1
  BY DEF Balanced, Tolerance
<1>3. QED
  BY <1>1, <1>2

LEMMA BalancedTold ==
  ASSUME NEW a \in Seq(PaidOrders), NEW s \in Seq(PaidOrders), NEW b \in Seq(PaidOrders),
         NEW p, Tells(p, s)
  PROVE  LET missing == KnownTotal(Paid(a, p.id)) + KnownTotal(Paid(b, p.id))
             coupon == KnownTotal(Paid((a \o s) \o b, p.id)) - p.amount
         IN p.balanced <=> missing - coupon \in -1 .. 1
<1>1. p.balanced = Balanced(p.amount - KnownTotal(Paid(s, p.id)))
      /\ p \in PaymentSet
  BY Zenon DEF Tells
<1>2. p.amount \in Int
  BY <1>1 DEF PaymentSet
<1> DEFINE x == KnownTotal(Paid(a, p.id))
           y == KnownTotal(Paid(s, p.id))
           z == KnownTotal(Paid(b, p.id))
           w == KnownTotal(Paid((a \o s) \o b, p.id))
<1>3. x \in Int /\ y \in Int /\ z \in Int /\ w = x + y + z
  BY PartsTotal
<1>4. p.balanced = Balanced(p.amount - y)
  BY <1>1, Zenon
<1>5. p.balanced <=> (x + z) - (w - p.amount) \in -1 .. 1
  <2> HIDE DEF x, y, z, w
  <2>1. Balanced(p.amount - y) <=> (x + z) - (w - p.amount) \in -1 .. 1
    BY <1>2, <1>3, MissingIs
  <2>2. QED
    BY <1>4, <2>1, Zenon
<1>6. QED
  BY <1>5, Zenon

LEMMA BalancedTells ==
  ASSUME PaymentsInv
  PROVE  BalancedIsWhole
<1> PICK s : s = fetch.orders
  OBVIOUS
<1> PICK t : t = fetch.payments
  OBVIOUS
<1> PICK c : c = AllOrders
  OBVIOUS
<1>1. s \in Seq(PaidOrders) /\ t = Told(s) /\ Stretch(s, c) /\ Priced(c)
  BY DEF PaymentsInv, PaymentsTypeOK, FetchSet, AllOrders
<1>2. /\ t \in Seq(PaymentSet) /\ \A k \in 1 .. Len(t) : Tells(t[k], s)
  BY <1>1, ToldTyped
<1>3. DOMAIN t = 1 .. Len(t)
  BY <1>2, LenProperties
<1>4. PICK a, b \in Seq(PaidOrders) : c = (a \o s) \o b
  BY <1>1 DEF Stretch
<1> PICK n : n = Len(a)
  OBVIOUS
<1>5. /\ c \in Seq(PaidOrders) /\ n \in 0 .. Len(c)
      /\ SubSeq(c, 1, n) = a /\ SubSeq(c, n + Len(s) + 1, Len(c)) = b
      /\ \A k \in 1 .. Len(s) : n + k \in 1 .. Len(c) /\ c[n + k] = s[k]
  <2>1. Cuts(a, s, b, c, PaidOrders)
    BY <1>1, <1>4, CutOff
  <2>2. QED
    BY <2>1 DEF Cuts
<1>6. ASSUME NEW k \in DOMAIN t
      PROVE  LET p == t[k]
                 missing == KnownTotal(Paid(a, p.id)) + KnownTotal(Paid(b, p.id))
                 coupon == KnownTotal(Paid(c, p.id)) - p.amount
             IN /\ coupon \in Discounts
                /\ p.balanced <=> missing - coupon \in -1 .. 1
  <2> PICK p : p = t[k]
    OBVIOUS
  <2> PICK w : w = KnownTotal(Paid(c, p.id))
    OBVIOUS
  <2>1. Tells(p, s)
    BY <1>2, <1>3
  <2>2. PICK m \in 1 .. Len(s) : First(s, p.id, m) /\ p.amount = s[m].amount
    BY <2>1, Zenon DEF Tells
  <2>3. s[m].payment = p.id
    BY <2>2 DEF First
  <2>4. w - p.amount \in Discounts
    <3>1. n + m \in 1 .. Len(c) /\ c[n + m] = s[m]
      BY <1>5
    <3>2. KnownTotal(Paid(c, c[n + m].payment)) - c[n + m].amount \in Discounts
      BY <1>1, <3>1 DEF Priced
    <3>3. QED
      BY <2>2, <2>3, <3>1, <3>2
  <2>5. LET missing == KnownTotal(Paid(a, p.id)) + KnownTotal(Paid(b, p.id))
        IN p.balanced <=> missing - (w - p.amount) \in -1 .. 1
    BY <1>1, <1>4, <2>1, BalancedTold, Zenon
  <2>6. QED
    BY <2>4, <2>5, Zenon
<1>7. QED
  <2>1. c = (SubSeq(c, 1, n) \o s) \o SubSeq(c, n + Len(s) + 1, Len(c))
    BY <1>4, <1>5, Zenon
  <2>2. QED
    BY <1>5, <1>6, <2>1 DEF BalancedIsWhole

(* What is_balanced tells, for every page, every purchase made while pages *)
(* are read and every worth of coupons: the page is a stretch of the       *)
(* buyer's orders, and a payment is balanced exactly when what its orders  *)
(* off the page cost is, to a cent, what a coupon took off it.             *)
THEOREM BalancedIsWholeHolds ==
  PaymentsSpec => []BalancedIsWhole
<1>1. PaymentsInv => BalancedIsWhole
  BY BalancedTells
<1>2. QED
  BY <1>1, PaymentsInvariant, PTL

-----------------------------------------------------------------------------
(* sorted: R, a total order of S, as a set of pairs.                       *)

StrictOrder(R, S) ==
  /\ \A x \in S : <<x, x>> \notin R
  /\ \A x, y, z \in S : <<x, y>> \in R /\ <<y, z>> \in R => <<x, z>> \in R
  /\ \A x, y \in S : x # y => <<x, y>> \in R \/ <<y, x>> \in R
Ahead(R, S, x) == {y \in S : <<y, x>> \in R}

LEMMA AheadLess ==
  ASSUME NEW S, IsFiniteSet(S), NEW R, StrictOrder(R, S), NEW x \in S, NEW y \in S
  PROVE  /\ Cardinality(Ahead(R, S, x)) \in 0 .. Cardinality(S) - 1
         /\ <<x, y>> \in R <=> Cardinality(Ahead(R, S, x)) < Cardinality(Ahead(R, S, y))
<1>1. ASSUME NEW z \in S
      PROVE  /\ IsFiniteSet(Ahead(R, S, z)) /\ Cardinality(Ahead(R, S, z)) \in Nat
             /\ z \notin Ahead(R, S, z) /\ Ahead(R, S, z) \in SUBSET S
  <2>1. Ahead(R, S, z) \in SUBSET S /\ z \notin Ahead(R, S, z)
    BY DEF Ahead, StrictOrder
  <2>2. QED
    BY <2>1, FS_Subset, FS_CardinalityType
<1>2. ASSUME NEW z \in S, NEW T, IsFiniteSet(T), Ahead(R, S, z) \union {z} \in SUBSET T
      PROVE  Cardinality(Ahead(R, S, z)) + 1 <= Cardinality(T)
  <2> PICK A : A = Ahead(R, S, z)
    OBVIOUS
  <2>1. Cardinality(A \union {z}) = Cardinality(A) + 1
    BY <1>1, FS_AddElement
  <2>2. Cardinality(A \union {z}) <= Cardinality(T)
    BY <1>2, FS_Subset
  <2>3. QED
    BY <2>1, <2>2
<1>3. ASSUME NEW u \in S, NEW v \in S, <<u, v>> \in R
      PROVE  Cardinality(Ahead(R, S, u)) < Cardinality(Ahead(R, S, v))
  <2>1. Ahead(R, S, u) \union {u} \in SUBSET Ahead(R, S, v)
    BY <1>3 DEF Ahead, StrictOrder
  <2>2. Cardinality(Ahead(R, S, u)) + 1 <= Cardinality(Ahead(R, S, v))
    BY <1>1, <1>2, <2>1
  <2>3. QED
    BY <1>1, <2>2
<1>4. Cardinality(Ahead(R, S, x)) \in 0 .. Cardinality(S) - 1
  <2>1. Ahead(R, S, x) \union {x} \in SUBSET S
    BY <1>1
  <2>2. Cardinality(Ahead(R, S, x)) + 1 <= Cardinality(S)
    BY <1>2, <2>1
  <2>3. Cardinality(Ahead(R, S, x)) \in Nat /\ Cardinality(S) \in Nat
    BY <1>1, FS_CardinalityType
  <2>4. QED
    BY <2>2, <2>3
<1>5. ASSUME Cardinality(Ahead(R, S, x)) < Cardinality(Ahead(R, S, y)) PROVE <<x, y>> \in R
  <2>1. x # y
    BY <1>1, <1>5
  <2>2. <<y, x>> \notin R
    <3>1. CASE <<y, x>> \in R
      <4>1. Cardinality(Ahead(R, S, y)) < Cardinality(Ahead(R, S, x))
        BY <1>3, <3>1
      <4>2. QED
        BY <1>1, <1>5, <4>1
    <3>2. QED
      BY <3>1
  <2>3. QED
    BY <2>1, <2>2 DEF StrictOrder
<1>6. QED
  BY <1>3, <1>4, <1>5

LEMMA EveryPlace ==
  ASSUME NEW S, IsFiniteSet(S), NEW R, StrictOrder(R, S), NEW k \in 1 .. Cardinality(S)
  PROVE  \E x \in S : Cardinality(Ahead(R, S, x)) = k - 1
<1> PICK n : n = Cardinality(S)
  OBVIOUS
<1> DEFINE f == [x \in S |-> Cardinality(Ahead(R, S, x))]
<1>1. n \in Nat
  BY FS_CardinalityType
<1>2. f \in [S -> 0 .. n - 1]
  BY AheadLess
<1>3. ASSUME NEW x \in S, NEW y \in S, f[x] = f[y] PROVE x = y
  <2>1. f[x] \in Int
    BY <1>1, <1>2
  <2>2. ~(f[x] < f[y]) /\ ~(f[y] < f[x])
    BY <1>3, <2>1
  <2>3. <<x, y>> \notin R /\ <<y, x>> \notin R
    BY <2>2, AheadLess
  <2>4. QED
    BY <2>3 DEF StrictOrder
<1>4. IsFiniteSet(0 .. n - 1) /\ Cardinality(0 .. n - 1) = n
  <2>1. 0 \in Int /\ n - 1 \in Int
    BY <1>1
  <2>2. /\ IsFiniteSet(0 .. n - 1)
        /\ Cardinality(0 .. n - 1) = IF 0 > n - 1 THEN 0 ELSE (n - 1) - 0 + 1
    BY <2>1, FS_Interval
  <2>3. QED
    BY <1>1, <2>2
<1>5. f \in Surjection(S, 0 .. n - 1)
  <2>1. f \in Injection(S, 0 .. n - 1)
    <3> HIDE DEF f
    <3>1. QED
      BY <1>2, <1>3 DEF Injection, IsInjective
  <2> HIDE DEF f
  <2>2. QED
    BY <1>4, <2>1, FS_Injection
<1>6. k - 1 \in 0 .. n - 1
  BY <1>1
<1>7. \E x \in S : f[x] = k - 1
  <2> HIDE DEF f
  <2>1. QED
    BY <1>5, <1>6 DEF Surjection
<1>8. QED
  BY <1>7

(* The list of the first of S.                                             *)
Tops(t, S, R, limit) ==
  /\ t \in Seq(S)
  /\ Len(t) = IF Cardinality(S) < limit THEN Cardinality(S) ELSE limit
  /\ \A k, l \in 1 .. Len(t) : k < l => <<t[k], t[l]>> \in R
  /\ \A x \in S : Cardinality(Ahead(R, S, x)) < limit <=> \E k \in 1 .. Len(t) : t[k] = x

(* r is a list of S by places, of which UpTo takes the first.              *)
LEMMA UpToTops ==
  ASSUME NEW S, IsFiniteSet(S), NEW R, StrictOrder(R, S), NEW limit \in Nat,
         NEW r \in [1 .. Cardinality(S) -> S],
         \A k \in 1 .. Cardinality(S) : Cardinality(Ahead(R, S, r[k])) = k - 1
  PROVE  Tops(UpTo(r, limit), S, R, limit)
<1> PICK n : n = Cardinality(S)
  OBVIOUS
<1> PICK m : m = IF n < limit THEN n ELSE limit
  OBVIOUS
<1> PICK t : t = UpTo(r, limit)
  OBVIOUS
<1>1. n \in Nat /\ m \in 0 .. n /\ (m = limit \/ m = n) /\ m <= limit
  BY FS_CardinalityType
<1>2. r \in Seq(S) /\ Len(r) = n
  BY <1>1
<1>3. t = SubSeq(r, 1, m)
  BY <1>2 DEF UpTo
<1>4. t \in Seq(S) /\ Len(t) = m /\ \A k \in 1 .. m : t[k] = r[k]
  <2>1. \A i \in 1 .. m : r[i] \in S
    BY <1>1
  <2>2. /\ SubSeq(r, 1, m) \in Seq(S)
        /\ Len(SubSeq(r, 1, m)) = IF 1 <= m THEN m - 1 + 1 ELSE 0
        /\ \A i \in 1 .. m - 1 + 1 : SubSeq(r, 1, m)[i] = r[1 + i - 1]
    BY <1>1, <2>1, SubSeqProperties
  <2>3. m - 1 + 1 = m /\ \A i \in 1 .. m : 1 + i - 1 = i
    BY <1>1
  <2>4. QED
    BY <1>1, <1>3, <2>2, <2>3
<1>5. \A k \in 1 .. m : /\ k \in 1 .. n /\ t[k] \in S
                        /\ Cardinality(Ahead(R, S, t[k])) = k - 1
  BY <1>1, <1>4
<1>6. ASSUME NEW k \in 1 .. m, NEW l \in 1 .. m, k < l PROVE <<t[k], t[l]>> \in R
  <2>1. t[k] \in S /\ t[l] \in S /\ k - 1 < l - 1
    BY <1>5, <1>6
  <2>2. Cardinality(Ahead(R, S, t[k])) < Cardinality(Ahead(R, S, t[l]))
    BY <1>5, <2>1
  <2>3. QED
    BY <2>1, <2>2, AheadLess
<1>7. ASSUME NEW x \in S, Cardinality(Ahead(R, S, x)) < limit
      PROVE  \E k \in 1 .. m : t[k] = x
  <2> PICK a : a = Cardinality(Ahead(R, S, x))
    OBVIOUS
  <2>1. a \in 0 .. n - 1
    BY AheadLess
  <2>2. a + 1 \in 1 .. m /\ (a + 1) - 1 = a
    BY <1>1, <1>7, <2>1
  <2>3. t[a + 1] \in S /\ Cardinality(Ahead(R, S, t[a + 1])) = a
    BY <1>5, <2>2
  <2>4. /\ ~(Cardinality(Ahead(R, S, x)) < Cardinality(Ahead(R, S, t[a + 1])))
        /\ ~(Cardinality(Ahead(R, S, t[a + 1])) < Cardinality(Ahead(R, S, x)))
    BY <2>1, <2>3
  <2>5. <<x, t[a + 1]>> \notin R /\ <<t[a + 1], x>> \notin R
    BY <2>3, <2>4, AheadLess
  <2>6. t[a + 1] = x
    BY <2>3, <2>5 DEF StrictOrder
  <2>7. QED
    BY <2>2, <2>6
<1>8. ASSUME NEW k \in 1 .. m PROVE Cardinality(Ahead(R, S, t[k])) < limit
  BY <1>1, <1>5
<1>9. QED
  BY <1>4, <1>6, <1>7, <1>8 DEF Tops

MatchPairs(S) == {p \in S \X S : MatchBefore(p[1], p[2])}
SuggestionPairs(S) == {p \in S \X S : SuggestionBefore(p[1], p[2])}

LEMMA SortedMatches ==
  ASSUME NEW S, IsFiniteSet(S), StrictOrder(MatchPairs(S), S), NEW limit \in Nat
  PROVE  Tops(UpTo(Sorted(S, MatchBefore), limit), S, MatchPairs(S), limit)
<1> PICK n : n = Cardinality(S)
  OBVIOUS
<1> PICK r : r = Sorted(S, MatchBefore)
  OBVIOUS
<1>1. ASSUME NEW x \in S PROVE Ahead(MatchPairs(S), S, x) = {y \in S : MatchBefore(y, x)}
  BY DEF Ahead, MatchPairs
<1>2. r = [k \in 1 .. n |->
             CHOOSE x \in S : Cardinality({y \in S : MatchBefore(y, x)}) = k - 1]
  BY DEF Sorted
<1>3. ASSUME NEW k \in 1 .. n
      PROVE  r[k] \in S /\ Cardinality(Ahead(MatchPairs(S), S, r[k])) = k - 1
  <2>1. \E x \in S : Cardinality({y \in S : MatchBefore(y, x)}) = k - 1
    <3>1. PICK x \in S : Cardinality(Ahead(MatchPairs(S), S, x)) = k - 1
      BY EveryPlace
    <3>2. QED
      BY <1>1, <3>1
  <2> PICK x : x = CHOOSE z \in S : Cardinality({y \in S : MatchBefore(y, z)}) = k - 1
    OBVIOUS
  <2>2. x \in S /\ Cardinality({y \in S : MatchBefore(y, x)}) = k - 1
    BY <2>1
  <2>3. r[k] = x
    BY <1>2
  <2>4. QED
    BY <1>1, <2>2, <2>3
<1>4. r \in [1 .. n -> S]
  BY <1>2, <1>3
<1>5. QED
  BY <1>3, <1>4, UpToTops

LEMMA SortedSuggestions ==
  ASSUME NEW S, IsFiniteSet(S), StrictOrder(SuggestionPairs(S), S), NEW limit \in Nat
  PROVE  Tops(UpTo(Sorted(S, SuggestionBefore), limit), S, SuggestionPairs(S), limit)
<1> PICK n : n = Cardinality(S)
  OBVIOUS
<1> PICK r : r = Sorted(S, SuggestionBefore)
  OBVIOUS
<1>1. ASSUME NEW x \in S
      PROVE  Ahead(SuggestionPairs(S), S, x) = {y \in S : SuggestionBefore(y, x)}
  BY DEF Ahead, SuggestionPairs
<1>2. r = [k \in 1 .. n |->
             CHOOSE x \in S : Cardinality({y \in S : SuggestionBefore(y, x)}) = k - 1]
  BY DEF Sorted
<1>3. ASSUME NEW k \in 1 .. n
      PROVE  r[k] \in S /\ Cardinality(Ahead(SuggestionPairs(S), S, r[k])) = k - 1
  <2>1. \E x \in S : Cardinality({y \in S : SuggestionBefore(y, x)}) = k - 1
    <3>1. PICK x \in S : Cardinality(Ahead(SuggestionPairs(S), S, x)) = k - 1
      BY EveryPlace
    <3>2. QED
      BY <1>1, <3>1
  <2> PICK x : x = CHOOSE z \in S : Cardinality({y \in S : SuggestionBefore(y, z)}) = k - 1
    OBVIOUS
  <2>2. x \in S /\ Cardinality({y \in S : SuggestionBefore(y, x)}) = k - 1
    BY <2>1
  <2>3. r[k] = x
    BY <1>2
  <2>4. QED
    BY <1>1, <2>2, <2>3
<1>4. r \in [1 .. n -> S]
  BY <1>2, <1>3
<1>5. QED
  BY <1>3, <1>4, UpToTops

(* What matches and suggestions are sorted by.                             *)
Sortable(S) == \A x \in S : x.score \in Int /\ x.category \in Categories

LEMMA NamesAreNumbers ==
  \A c \in Categories : c \in Int /\ NameRank[c] \in Int
BY SuggestionsAssumption

LEMMA MatchesOrdered ==
  ASSUME NEW S, Sortable(S), \A x \in S : x.id \in Int,
         \A x, y \in S : x.id = y.id => x = y
  PROVE  StrictOrder(MatchPairs(S), S)
<1>1. \A x, y \in S : <<x, y>> \in MatchPairs(S) <=> MatchBefore(x, y)
  BY DEF MatchPairs
<1>2. \A x \in S : /\ x.score \in Int /\ x.id \in Int
                   /\ NameRank[x.category] \in Int
  BY NamesAreNumbers DEF Sortable
<1>3. \A x \in S : ~MatchBefore(x, x)
  BY <1>2 DEF MatchBefore
<1>4. \A x, y, z \in S : MatchBefore(x, y) /\ MatchBefore(y, z) => MatchBefore(x, z)
  BY <1>2 DEF MatchBefore
<1>5. \A x, y \in S : x # y => MatchBefore(x, y) \/ MatchBefore(y, x)
  BY <1>2 DEF MatchBefore
<1>6. QED
  BY <1>1, <1>3, <1>4, <1>5 DEF StrictOrder

LEMMA SuggestionsOrdered ==
  ASSUME NEW S, Sortable(S), \A x, y \in S : x.category = y.category => x = y
  PROVE  StrictOrder(SuggestionPairs(S), S)
<1>1. \A x, y \in S : <<x, y>> \in SuggestionPairs(S) <=> SuggestionBefore(x, y)
  BY DEF SuggestionPairs
<1>2. \A x \in S : /\ x.score \in Int /\ x.category \in Int
                   /\ NameRank[x.category] \in Int
  BY NamesAreNumbers DEF Sortable
<1>3. \A x \in S : ~SuggestionBefore(x, x)
  BY <1>2 DEF SuggestionBefore
<1>4. \A x, y, z \in S :
        SuggestionBefore(x, y) /\ SuggestionBefore(y, z) => SuggestionBefore(x, z)
  BY <1>2 DEF SuggestionBefore
<1>5. \A x, y \in S : x # y => SuggestionBefore(x, y) \/ SuggestionBefore(y, x)
  BY <1>2 DEF SuggestionBefore
<1>6. QED
  BY <1>1, <1>3, <1>4, <1>5 DEF StrictOrder

(* Products, as sums.                                                      *)

Products(h, S, f) ==
  h = [T \in SUBSET S |-> IF T = {} THEN 1
                          ELSE f[CHOOSE x \in T : TRUE] * h[T \ {CHOOSE x \in T : TRUE}]]

LEMMA ProductsAt ==
  ASSUME NEW S, NEW f, NEW h, Products(h, S, f), NEW T \in SUBSET S
  PROVE  IF T = {} THEN h[T] = 1 ELSE \E x \in T : h[T] = f[x] * h[T \ {x}]
<1>1. h[T] = IF T = {} THEN 1
             ELSE f[CHOOSE x \in T : TRUE] * h[T \ {CHOOSE x \in T : TRUE}]
  BY DEF Products
<1> PICK x : x = CHOOSE y \in T : TRUE
  OBVIOUS
<1>2. T # {} => x \in T
  OBVIOUS
<1>3. h[T] = IF T = {} THEN 1 ELSE f[x] * h[T \ {x}]
  BY <1>1
<1>4. QED
  BY <1>2, <1>3

LEMMA ProductsExist ==
  ASSUME NEW S, IsFiniteSet(S), NEW f, \A x \in S : f[x] \in Int
  PROVE  \E h : Products(h, S, f)
<1> DEFINE c == [T \in SUBSET S |-> CHOOSE x \in T : TRUE]
           s == [x \in S |-> [v \in Int |-> f[x] * v]]
<1>1. \A T \in SUBSET S : T # {} => c[T] \in T
  OBVIOUS
<1>2. s \in [S -> [Int -> Int]] /\ 1 \in Int
  OBVIOUS
<1>3. \E h : Folds(h, S, Int, 1, c, s)
  <2> HIDE DEF c, s
  <2>1. QED
    BY <1>1, <1>2, FoldExists
<1>4. PICK h : Folds(h, S, Int, 1, c, s)
  BY <1>3
<1>5. /\ h \in [SUBSET S -> Int] /\ h[{}] = 1
      /\ \A T \in SUBSET S : T # {} => h[T] = s[c[T]][h[T \ {c[T]}]]
  BY <1>4 DEF Folds
<1>6. ASSUME NEW T \in SUBSET S, T # {}
      PROVE  h[T] = f[CHOOSE x \in T : TRUE] * h[T \ {CHOOSE x \in T : TRUE}]
  <2> PICK x : x = CHOOSE y \in T : TRUE
    OBVIOUS
  <2>1. x \in T /\ c[T] = x
    BY <1>6
  <2>2. h[T] = s[x][h[T \ {x}]]
    BY <1>5, <1>6, <2>1
  <2>3. h[T \ {x}] \in Int /\ x \in S
    BY <1>5, <2>1
  <2>4. h[T] = f[x] * h[T \ {x}]
    BY <2>2, <2>3
  <2>5. QED
    BY <2>4
<1>7. Products(h, S, f)
  <2>1. h = [T \in SUBSET S |-> h[T]]
    BY <1>5
  <2>2. \A T \in SUBSET S :
          h[T] = IF T = {} THEN 1
                 ELSE f[CHOOSE x \in T : TRUE] * h[T \ {CHOOSE x \in T : TRUE}]
    BY <1>5, <1>6
  <2>3. QED
    BY <2>1, <2>2 DEF Products
<1>8. QED
  BY <1>7

LEMMA ProductsInt ==
  ASSUME NEW S, IsFiniteSet(S), NEW f, \A x \in S : f[x] \in Int, NEW h, Products(h, S, f)
  PROVE  \A T \in SUBSET S : h[T] \in Int
<1> DEFINE D == {T \in SUBSET S : h[T] \notin Int}
<1>1. CASE D # {}
  <2>1. PICK T \in D : \A x \in T : T \ {x} \notin D
    <3>1. D \in SUBSET SUBSET S
      OBVIOUS
    <3> HIDE DEF D
    <3>2. QED
      BY <1>1, <3>1, SmallestSet
  <2>2. T \in SUBSET S /\ h[T] \notin Int
    OBVIOUS
  <2>3. IF T = {} THEN h[T] = 1 ELSE \E x \in T : h[T] = f[x] * h[T \ {x}]
    BY <2>2, ProductsAt
  <2>4. PICK x \in T : h[T] = f[x] * h[T \ {x}]
    BY <2>2, <2>3
  <2>5. f[x] \in Int /\ h[T \ {x}] \in Int
    BY <2>1, <2>2
  <2>6. QED
    BY <2>2, <2>4, <2>5
<1>2. QED
  BY <1>1

(* Any element may be taken out first.                                     *)
AnyFactor(h, S, f) ==
  \A T \in SUBSET S : h[T] \in Int /\ \A x \in T : h[T] = f[x] * h[T \ {x}]

LEMMA ProductsTakeOut ==
  ASSUME NEW S, IsFiniteSet(S), NEW f, \A x \in S : f[x] \in Int, NEW h, Products(h, S, f)
  PROVE  AnyFactor(h, S, f)
<1> USE DEF AnyFactor
<1> DEFINE Fine(T) == h[T] \in Int /\ \A x \in T : h[T] = f[x] * h[T \ {x}]
           D == {T \in SUBSET S : ~Fine(T)}
<1>1. h[{}] = 1
  <2>1. {} \in SUBSET S
    OBVIOUS
  <2>2. QED
    BY <2>1, ProductsAt
<1>2. CASE D # {}
  <2>1. PICK T \in D : \A x \in T : T \ {x} \notin D
    <3>1. D \in SUBSET SUBSET S
      OBVIOUS
    <3> HIDE DEF D
    <3>2. QED
      BY <1>2, <3>1, SmallestSet
  <2>2. T \in SUBSET S /\ ~Fine(T)
    OBVIOUS
  <2>3. \A x \in T : T \ {x} \in SUBSET S /\ Fine(T \ {x})
    BY <2>1, <2>2
  <2>4. T # {}
    <3>1. Fine({})
      BY <1>1
    <3> HIDE DEF Fine
    <3>2. QED
      BY <2>2, <3>1
  <2>5. PICK x \in T : h[T] = f[x] * h[T \ {x}]
    <3>1. IF T = {} THEN h[T] = 1 ELSE \E x \in T : h[T] = f[x] * h[T \ {x}]
      BY <2>2, ProductsAt
    <3>2. QED
      BY <2>4, <3>1
  <2>6. h[T] \in Int
    BY <2>2, ProductsInt
  <2>7. ASSUME NEW y \in T, y # x PROVE h[T] = f[y] * h[T \ {y}]
    <3> PICK R : R = (T \ {x}) \ {y}
      OBVIOUS
    <3>1. R = (T \ {y}) \ {x} /\ y \in T \ {x} /\ x \in T \ {y} /\ R \in SUBSET S
      BY <2>2, <2>5, <2>7
    <3>2. h[T \ {x}] = f[y] * h[R] /\ h[T \ {y}] = f[x] * h[R]
      <4>1. h[T \ {x}] = f[y] * h[(T \ {x}) \ {y}]
        BY <2>3, <2>5, <3>1
      <4>2. h[T \ {y}] = f[x] * h[(T \ {y}) \ {x}]
        BY <2>3, <2>7, <3>1
      <4>3. QED
        BY <3>1, <4>1, <4>2
    <3>3. h[R] \in Int
      BY <3>1, ProductsInt
    <3>4. f[x] \in Int /\ f[y] \in Int
      BY <2>2, <2>5
    <3>5. QED
      BY <2>5, <3>2, <3>3, <3>4
  <2>8. Fine(T)
    BY <2>5, <2>6, <2>7
  <2>9. QED
    BY <2>2, <2>8
<1>3. CASE D = {}
  BY <1>3
<1>4. QED
  BY <1>2, <1>3

LEMMA ProductIs ==
  ASSUME NEW S, IsFiniteSet(S), NEW f, DOMAIN f = S, \A x \in S : f[x] \in Int
  PROVE  \E h : Products(h, S, f) /\ Product(f) = h[S]
<1>1. Products(CHOOSE h : Products(h, S, f), S, f)
  BY ProductsExist
<1>2. Product(f) = (CHOOSE h : Products(h, S, f))[S]
  BY DEF Product, FoldFunction, FoldFunctionOnSet, MapThenFoldSet, Products
<1>3. QED
  BY <1>1, <1>2

-----------------------------------------------------------------------------
(* _aggregate, match by match.                                             *)

BucketSet(L) == [whole : Nat \ {0}, left : Int, best : L]
Buckets(L) == UNION {[C -> BucketSet(L)] : C \in SUBSET Categories}

AddsMatches(h, s) ==
  h = [T \in SUBSET DOMAIN s |->
         IF T = {} THEN << >>
         ELSE AddMatch(h[T \ {Max(T)}], s[Max(T)])]

LEMMA NoBuckets == ASSUME NEW L PROVE << >> \in Buckets(L)
<1>1. << >> \in [{} -> BucketSet(L)]
  OBVIOUS
<1>2. QED
  BY <1>1 DEF Buckets

LEMMA MatchAdded ==
  ASSUME NEW L, Sortable(L), NEW b \in Buckets(L), NEW m \in L
  PROVE  AddMatch(b, m) \in Buckets(L)
<1>1. PICK C \in SUBSET Categories : b \in [C -> BucketSet(L)]
  BY DEF Buckets
<1> PICK c : c = m.category
  OBVIOUS
<1> PICK o : o = IF c \in C THEN b[c] ELSE FirstOf(m)
  OBVIOUS
<1> PICK u : u = [whole |-> o.whole * Unit, left |-> o.left * (Unit - m.score),
                  best |-> IF m.score > o.best.score THEN m ELSE o.best]
  OBVIOUS
<1>2. c \in Categories /\ m.score \in Int
  BY DEF Sortable
<1>3. o \in BucketSet(L)
  BY <1>1 DEF FirstOf, BucketSet
<1>4. u \in BucketSet(L)
  <2>1. o.whole \in Nat \ {0} /\ o.left \in Int /\ o.best \in L
    BY <1>3 DEF BucketSet
  <2>2. o.whole * Unit \in Nat \ {0} /\ o.left * (Unit - m.score) \in Int
    BY <1>2, <2>1 DEF Unit
  <2>3. QED
    BY <2>1, <2>2 DEF BucketSet
<1>5. AddMatch(b, m) = [d \in C \union {c} |-> IF d = c THEN u ELSE b[d]]
  BY <1>1 DEF AddMatch
<1>6. AddMatch(b, m) \in [C \union {c} -> BucketSet(L)]
  BY <1>1, <1>4, <1>5
<1>7. C \union {c} \in SUBSET Categories
  BY <1>2
<1>8. QED
  BY <1>6, <1>7 DEF Buckets

LEMMA FoldStepsExist ==
  ASSUME NEW L, Sortable(L), NEW s \in Seq(L)
  PROVE  \E h : AddsMatches(h, s)
<1> PICK n : n = Len(s)
  OBVIOUS
<1>1. n \in Nat /\ DOMAIN s = 1 .. n /\ \A k \in 1 .. n : s[k] \in L
  BY LenProperties, ElementOfSeq
<1> DEFINE c == [T \in SUBSET (1 .. n) |-> Max(T)]
           a == [k \in 1 .. n |-> [v \in Buckets(L) |-> AddMatch(v, s[k])]]
<1>2. \A T \in SUBSET (1 .. n) : T # {} => c[T] \in T
  BY <1>1, MaxExists
<1>3. a \in [1 .. n -> [Buckets(L) -> Buckets(L)]] /\ << >> \in Buckets(L)
  BY <1>1, MatchAdded, NoBuckets
<1>4. IsFiniteSet(1 .. n)
  BY <1>1, FS_Interval
<1>5. \E h : Folds(h, 1 .. n, Buckets(L), << >>, c, a)
  <2> HIDE DEF c, a
  <2>1. QED
    BY <1>2, <1>3, <1>4, FoldExists
<1>6. PICK h : Folds(h, 1 .. n, Buckets(L), << >>, c, a)
  BY <1>5
<1>7. /\ h \in [SUBSET (1 .. n) -> Buckets(L)] /\ h[{}] = << >>
      /\ \A T \in SUBSET (1 .. n) : T # {} => h[T] = a[c[T]][h[T \ {c[T]}]]
  BY <1>6 DEF Folds
<1>8. ASSUME NEW T \in SUBSET (1 .. n), T # {}
      PROVE  h[T] = AddMatch(h[T \ {Max(T)}], s[Max(T)])
  <2> PICK x : x = Max(T)
    OBVIOUS
  <2>1. x \in 1 .. n /\ c[T] = x
    BY <1>2, <1>8
  <2>2. h[T] = a[x][h[T \ {x}]]
    BY <1>7, <1>8, <2>1
  <2>3. h[T \ {x}] \in Buckets(L)
    BY <1>7
  <2>4. a[x][h[T \ {x}]] = AddMatch(h[T \ {x}], s[x])
    BY <2>1, <2>3
  <2>5. QED
    BY <2>2, <2>4
<1>9. h = [T \in SUBSET (1 .. n) |->
             IF T = {} THEN << >> ELSE AddMatch(h[T \ {Max(T)}], s[Max(T)])]
  <2>1. h = [T \in SUBSET (1 .. n) |-> h[T]]
    BY <1>7
  <2>2. \A T \in SUBSET (1 .. n) :
          h[T] = IF T = {} THEN << >> ELSE AddMatch(h[T \ {Max(T)}], s[Max(T)])
    BY <1>7, <1>8
  <2>3. QED
    BY <2>1, <2>2
<1>10. AddsMatches(h, s)
  BY <1>1, <1>9 DEF AddsMatches
<1>11. QED
  BY <1>10

FoldsUp(r, L, s) ==
  /\ r \in [0 .. Len(s) -> Buckets(L)] /\ r[0] = << >> /\ FoldLeft(AddMatch, << >>, s) = r[Len(s)]
  /\ \A k \in 1 .. Len(s) : r[k] = AddMatch(r[k - 1], s[k])

LEMMA FoldSteps ==
  ASSUME NEW L, Sortable(L), NEW s \in Seq(L)
  PROVE  \E r : FoldsUp(r, L, s)
<1> PICK n : n = Len(s)
  OBVIOUS
<1>1. n \in Nat /\ DOMAIN s = 1 .. n /\ \A k \in 1 .. n : s[k] \in L
  BY LenProperties, ElementOfSeq
<1> PICK h : h = CHOOSE f : AddsMatches(f, s)
  OBVIOUS
<1>2. AddsMatches(h, s)
  BY FoldStepsExist
<1>3. FoldLeft(AddMatch, << >>, s) = h[DOMAIN s]
  BY DEF FoldLeft, MapThenFoldSet, AddsMatches
<1>4. \A T \in SUBSET (1 .. n) :
        h[T] = IF T = {} THEN << >> ELSE AddMatch(h[T \ {Max(T)}], s[Max(T)])
  BY <1>1, <1>2 DEF AddsMatches
<1> DEFINE r == [k \in 0 .. n |-> h[1 .. k]]
<1>5. r[0] = << >>
  <2>1. 1 .. 0 = {}
    OBVIOUS
  <2>2. {} \in SUBSET (1 .. n)
    OBVIOUS
  <2>3. h[{}] = << >>
    BY <1>4, <2>2
  <2>4. QED
    BY <1>1, <2>1, <2>3
<1>6. ASSUME NEW k \in 1 .. n PROVE r[k] = AddMatch(r[k - 1], s[k])
  <2>1. k \in 0 .. n /\ k - 1 \in 0 .. n
    BY <1>1
  <2>2. /\ 1 .. k \in SUBSET (1 .. n) /\ 1 .. k # {}
        /\ (1 .. k) \ {k} = 1 .. (k - 1)
    <3> HIDE DEF r
    <3>1. 1 .. k \in SUBSET (1 .. n)
      BY <1>1
    <3>2. 1 \in 1 .. k
      BY <1>1
    <3>3. (1 .. k) \ {k} = 1 .. (k - 1)
      BY <1>1
    <3>4. QED
      BY <3>1, <3>2, <3>3
  <2>3. Max(1 .. k) = k
    BY <1>1, <2>2, MaxExists
  <2>4. h[1 .. k] = AddMatch(h[1 .. (k - 1)], s[k])
    BY <1>4, <2>2, <2>3
  <2>5. QED
    BY <2>1, <2>4
<1>7. r \in [0 .. n -> Buckets(L)]
  <2> DEFINE D == {k \in 0 .. n : r[k] \in Buckets(L)}
  <2>1. 0 \in D
    <3>1. << >> \in Buckets(L) /\ 0 \in 0 .. n
      BY <1>1, NoBuckets
    <3> HIDE DEF r
    <3>2. QED
      BY <1>5, <3>1
  <2>2. ASSUME NEW k \in 0 .. n, k \in D, k # n PROVE k + 1 \in D
    <3>1. k + 1 \in 1 .. n /\ k + 1 \in 0 .. n /\ (k + 1) - 1 = k
      BY <1>1, <2>2
    <3> HIDE DEF r
    <3>2. r[k + 1] = AddMatch(r[k], s[k + 1]) /\ r[k] \in Buckets(L)
      BY <1>6, <2>2, <3>1
    <3>3. r[k + 1] \in Buckets(L)
      BY <1>1, <3>1, <3>2, MatchAdded
    <3>4. QED
      BY <3>1, <3>3
  <2>3. \A k \in 0 .. n : k \in D
    <3> HIDE DEF D
    <3>1. QED
      BY <1>1, <2>1, <2>2, Induction
  <2>4. \A k \in 0 .. n : h[1 .. k] \in Buckets(L)
    BY <2>3
  <2>5. QED
    BY <2>4
<1>8. FoldLeft(AddMatch, << >>, s) = r[n]
  BY <1>1, <1>3
<1>9. FoldsUp(r, L, s)
  <2> HIDE DEF r
  <2>1. QED
    BY <1>5, <1>6, <1>7, <1>8 DEF FoldsUp
<1>10. QED
  BY <1>9

-----------------------------------------------------------------------------
(* _score_pair.                                                            *)

SnapshotTxs ==
  [id : Ids, category : Categories \union {None}, internal : BOOLEAN, title : Texts,
   notes : Texts \union {None}, amount : Int, allegro_done : BOOLEAN]
Queries ==
  [id : Ids, title : Texts, merchant : {None}, notes : Texts \union {None},
   bucket : Int, source : {"allegro", "bank"}]

LEMMA BucketsAreNumbers ==
  ASSUME NEW amount
  PROVE  BucketForAmount(amount) \in Int
<1> DEFINE B == {i \in DOMAIN UpperBounds : UpperBounds[i] < AbsValue(amount)}
<1>1. DOMAIN UpperBounds = 1 .. 6
  <2>1. UpperBounds \in Seq(Int) /\ Len(UpperBounds) = 6
    BY DEF UpperBounds
  <2>2. QED
    BY <2>1, LenProperties
<1>2. IsFiniteSet(1 .. 6)
  <2>1. \A n \in Nat : IsFiniteSet(1 .. n)
    BY FS_Interval
  <2>2. QED
    BY <2>1
<1>3. B \in SUBSET (1 .. 6)
  BY <1>1
<1>4. Cardinality(B) \in Nat
  <2> HIDE DEF B
  <2>1. QED
    BY <1>2, <1>3, FS_Subset, FS_CardinalityType
<1>5. BucketForAmount(amount) = 1 + Cardinality(B)
  BY DEF BucketForAmount
<1> HIDE DEF B
<1>6. QED
  BY <1>4, <1>5

LEMMA QueryTyped ==
  ASSUME NEW tx \in SnapshotTxs
  PROVE  QueryOf(tx) \in Queries
<1>1. InferSourceType(tx) \in {"allegro", "bank"}
  BY DEF InferSourceType
<1>2. BucketForAmount(tx.amount) \in Int
  BY BucketsAreNumbers
<1>3. QED
  BY <1>1, <1>2 DEF QueryOf, Queries, SnapshotTxs, Merchant

LEMMA SimilarityTyped ==
  ASSUME NEW left \in Texts \union {None}, NEW right \in Texts \union {None}
  PROVE  Similarity(left, right) \in 0 .. 20
<1>1. CASE None \in {left, right}
  BY <1>1 DEF Similarity
<1>2. CASE None \notin {left, right}
  <2>1. <<left, right>> \in Texts \X Texts
    BY <1>2
  <2>2. TextSimilarity[<<left, right>>] \in 0 .. 20
    BY <2>1, SuggestionsAssumption
  <2>3. QED
    BY <1>2, <2>2 DEF Similarity
<1>3. QED
  BY <1>1, <1>2

(* What is similar enough shares text with the query: the amount is not    *)
(* enough, whatever the weights.                                           *)
LEMMA ScoreTells ==
  ASSUME NEW q \in Queries, NEW tx \in SnapshotTxs
  PROVE  /\ Score(q, tx) \in Int
         /\ Score(q, tx) >= MinSimilarity => \/ Similarity(q.title, tx.title) > 0
                                             \/ Similarity(q.notes, tx.notes) > 0
<1> PICK w : w = SelectWeights(q)
  OBVIOUS
<1> PICK st : st = Similarity(q.title, tx.title)
  OBVIOUS
<1> PICK sn : sn = Similarity(q.notes, tx.notes)
  OBVIOUS
<1> PICK sa : sa = AmountSimilarity(q.bucket, BucketForAmount(tx.amount))
  OBVIOUS
<1>1. q.merchant = None /\ q.title \in Texts /\ q.notes \in Texts \union {None} /\ q.bucket \in Int
  BY DEF Queries
<1>2. w \in {Weights(4, 2, 11, 3), Weights(9, 0, 8, 3), Weights(15, 0, 2, 3)}
  BY <1>1 DEF SelectWeights
<1>3. w.title \in 0 .. 15 /\ w.merchant \in 0 .. 2 /\ w.notes \in 0 .. 11 /\ w.amount = 3
  BY <1>2 DEF Weights
<1>4. st \in 0 .. 20 /\ sn \in 0 .. 20
  BY <1>1, SimilarityTyped DEF SnapshotTxs
<1>5. sa \in 0 .. 20
  <2>1. BucketForAmount(tx.amount) \in Int
    BY BucketsAreNumbers
  <2>2. AbsValue(q.bucket - BucketForAmount(tx.amount)) \in Nat
    BY <1>1, <2>1 DEF AbsValue
  <2>3. QED
    BY <2>2 DEF AmountSimilarity
<1>6. Similarity(q.merchant, Merchant(tx)) = 0
  BY <1>1 DEF Similarity
<1>7. Score(q, tx) = w.title * st + w.merchant * 0 + w.notes * sn + w.amount * sa
  BY <1>6 DEF Score, Contributions
<1>8. w.title * st \in Int /\ w.notes * sn \in Int
  BY <1>3, <1>4
<1>9. w.title * 0 = 0 /\ w.notes * 0 = 0 /\ w.merchant * 0 = 0
  BY <1>3
<1>10. Score(q, tx) = w.title * st + w.notes * sn + 3 * sa
  BY <1>3, <1>5, <1>7, <1>8, <1>9
<1>11. st = 0 /\ sn = 0 => Score(q, tx) <= 60
  BY <1>5, <1>9, <1>10
<1>12. Score(q, tx) \in Int
  BY <1>5, <1>8, <1>10
<1>13. QED
  BY <1>4, <1>11, <1>12 DEF MinSimilarity

LEMMA ReasonTyped ==
  ASSUME NEW q \in Queries, NEW tx \in SnapshotTxs
  PROVE  MatchedBy(q, tx) \in Fields
<1> PICK c : c = Contributions(q, tx)
  OBVIOUS
<1>1. \A f \in Fields : c[f] \in Int
  <2>1. Similarity(q.title, tx.title) \in Int /\ Similarity(q.notes, tx.notes) \in Int
    BY SimilarityTyped DEF Queries, SnapshotTxs
  <2>2. Similarity(q.merchant, Merchant(tx)) = 0
    BY DEF Queries, Similarity
  <2>3. AmountSimilarity(q.bucket, BucketForAmount(tx.amount)) \in Int
    <3>1. q.bucket \in Int /\ BucketForAmount(tx.amount) \in Int
      BY BucketsAreNumbers DEF Queries
    <3>2. AbsValue(q.bucket - BucketForAmount(tx.amount)) \in Nat
      BY <3>1 DEF AbsValue
    <3>3. QED
      BY <3>2 DEF AmountSimilarity
  <2> PICK w : w = SelectWeights(q)
    OBVIOUS
  <2>4. /\ w.title \in Int /\ w.merchant \in Int /\ w.notes \in Int /\ w.amount \in Int
    <3>1. q.merchant = None
      BY DEF Queries
    <3>2. w \in {Weights(4, 2, 11, 3), Weights(9, 0, 8, 3), Weights(15, 0, 2, 3)}
      BY <3>1 DEF SelectWeights
    <3>3. QED
      BY <3>2 DEF Weights
  <2>5. /\ c["title"] = w.title * Similarity(q.title, tx.title)
        /\ c["merchant"] = w.merchant * Similarity(q.merchant, Merchant(tx))
        /\ c["notes"] = w.notes * Similarity(q.notes, tx.notes)
        /\ c["amount"]
             = w.amount * AmountSimilarity(q.bucket, BucketForAmount(tx.amount))
    BY DEF Contributions
  <2>6. QED
    BY <2>1, <2>2, <2>3, <2>4, <2>5 DEF Fields
<1>2. \E f \in Fields : \A g \in Fields \ {f} :
        \/ c[g] < c[f]
        \/ c[g] = c[f] /\ Priority[g] < Priority[f]
  BY <1>1 DEF Fields, Priority
<1>3. QED
  BY <1>2 DEF MatchedBy

-----------------------------------------------------------------------------
(* find_similar.                                                           *)

LEMMA KeptSet ==
  ASSUME NEW L, NEW T, NEW s \in Seq(L)
  PROVE  Kept(s, T) \in Seq(L) /\ ToSet(Kept(s, T)) = ToSet(s) \cap T
<1> PICK n : n = Len(s)
  OBVIOUS
<1>1. PICK r : Keeps(r, s, T, L)
  BY KeptSteps
<1>2. /\ r \in [0 .. n -> Seq(L)] /\ r[0] = << >> /\ Kept(s, T) = r[n]
      /\ \A k \in 1 .. n : r[k] = IF s[k] \in T THEN Append(r[k - 1], s[k]) ELSE r[k - 1]
  BY <1>1 DEF Keeps
<1>3. n \in Nat /\ DOMAIN s = 1 .. n /\ \A k \in 1 .. n : s[k] \in L
  BY LenProperties, ElementOfSeq
<1> DEFINE Passed(k) == {s[i] : i \in 1 .. k} \cap T
           D == {k \in 0 .. n : ToSet(r[k]) = Passed(k)}
<1>4. 0 \in D
  <2>1. 0 \in 0 .. n /\ 1 .. 0 = {}
    BY <1>3
  <2>2. ToSet(<< >>) = {}
    BY DEF ToSet
  <2>3. QED
    BY <1>2, <2>1, <2>2
<1>5. ASSUME NEW k \in 0 .. n, k \in D, k # n PROVE k + 1 \in D
  <2> PICK x : x = s[k + 1]
    OBVIOUS
  <2> PICK a : a = r[k]
    OBVIOUS
  <2>1. k + 1 \in 1 .. n /\ (k + 1) - 1 = k /\ k + 1 \in 0 .. n /\ 1 .. (k + 1) = 1 .. k \union {k + 1}
    BY <1>3, <1>5
  <2>2. r[k + 1] = (IF x \in T THEN Append(a, x) ELSE a) /\ a \in Seq(L) /\ x \in L
    BY <1>2, <1>3, <2>1
  <2>3. Passed(k + 1) = Passed(k) \union ({x} \cap T)
    BY <2>1
  <2>4. ToSet(a) = Passed(k)
    BY <1>5
  <2>5. ToSet(Append(a, x)) = ToSet(a) \union {x}
    <3>1. /\ Append(a, x) \in Seq(L) /\ Len(Append(a, x)) = Len(a) + 1 /\ Len(a) \in Nat
          /\ Append(a, x)[Len(a) + 1] = x
          /\ \A i \in 1 .. Len(a) : Append(a, x)[i] = a[i]
      BY <2>2, AppendProperties, LenProperties
    <3>2. DOMAIN Append(a, x) = 1 .. Len(a) + 1 /\ DOMAIN a = 1 .. Len(a)
      BY <2>2, <3>1, LenProperties
    <3>3. 1 .. Len(a) + 1 = 1 .. Len(a) \union {Len(a) + 1}
      BY <3>1
    <3>4. QED
      BY <3>1, <3>2, <3>3 DEF ToSet
  <2> HIDE DEF Passed
  <2>6. ToSet(r[k + 1]) = Passed(k + 1)
    <3>1. CASE x \in T
      <4>1. ToSet(r[k + 1]) = Passed(k) \union {x}
        BY <2>2, <2>4, <2>5, <3>1
      <4>2. {x} \cap T = {x}
        BY <3>1
      <4>3. QED
        BY <2>3, <4>1, <4>2, Zenon
    <3>2. CASE x \notin T
      <4>1. ToSet(r[k + 1]) = Passed(k)
        BY <2>2, <2>4, <3>2
      <4>2. {x} \cap T = {}
        BY <3>2
      <4>3. QED
        BY <2>3, <4>1, <4>2, Zenon
    <3>3. QED
      BY <3>1, <3>2
  <2>7. QED
    BY <2>1, <2>6
<1>6. n \in D
  <2> HIDE DEF D
  <2>1. \A k \in 0 .. n : k \in D
    BY <1>3, <1>4, <1>5, Induction
  <2>2. QED
    BY <1>3, <2>1
<1>7. ToSet(s) = {s[i] : i \in 1 .. n}
  BY <1>3 DEF ToSet
<1>8. QED
  BY <1>2, <1>6, <1>7, KeptTyped

LEMMA ImageFinite ==
  ASSUME NEW S, IsFiniteSet(S), NEW f
  PROVE  IsFiniteSet({f[x] : x \in S})
<1> DEFINE g == [x \in S |-> f[x]]
           T == {f[x] : x \in S}
<1>1. g \in Surjection(S, T)
  <2>1. g \in [S -> T] /\ \A y \in T : \E x \in S : g[x] = y
    OBVIOUS
  <2> HIDE DEF g, T
  <2>2. QED
    BY <2>1 DEF Surjection
<1> HIDE DEF g, T
<1>2. QED
  BY <1>1, FS_Surjection DEF T

LEMMA ToSetFinite ==
  ASSUME NEW L, NEW s \in Seq(L)
  PROVE  IsFiniteSet(ToSet(s)) /\ ToSet(s) \in SUBSET L
<1>1. Len(s) \in Nat /\ DOMAIN s = 1 .. Len(s) /\ \A k \in 1 .. Len(s) : s[k] \in L
  BY LenProperties, ElementOfSeq
<1>2. IsFiniteSet(1 .. Len(s))
  BY <1>1, FS_Interval
<1>3. IsFiniteSet({s[x] : x \in 1 .. Len(s)})
  BY <1>2, ImageFinite
<1>4. QED
  BY <1>1, <1>3 DEF ToSet

(* The transactions of X that are similar to a query, and the best.        *)
SimilarTo(q, X) ==
  {tx \in X : /\ tx.id # q.id
              /\ tx.category # None /\ ~tx.internal
              /\ Score(q, tx) >= MinSimilarity}
SourcesIn(q, X) ==
  {tx \in SimilarTo(q, X) :
     Cardinality({o \in SimilarTo(q, X) : SourceBefore(q, o, tx)}) < MatchLimit}

LEMMA CandidatesAre ==
  ASSUME NEW q, NEW txs \in Seq(SnapshotTxs)
  PROVE  Matches(q, Similar(q, Documents(txs)))
           = {Match(q, tx) : tx \in SimilarTo(q, ToSet(txs))}
<1> PICK T : T = {tx \in ToSet(txs) : IsDocument(tx)}
  OBVIOUS
<1> PICK docs : docs = Documents(txs)
  OBVIOUS
<1> PICK U : U = {doc \in ToSet(docs) : doc.id # q.id /\ Score(q, doc) >= MinSimilarity}
  OBVIOUS
<1>1. docs \in Seq(SnapshotTxs) /\ ToSet(docs) = ToSet(txs) \cap T
  BY KeptSet DEF Documents
<1>2. ToSet(Similar(q, docs)) = ToSet(docs) \cap U
  BY <1>1, KeptSet DEF Similar
<1>3. ToSet(Similar(q, docs)) = SimilarTo(q, ToSet(txs))
  BY <1>1, <1>2 DEF SimilarTo, IsDocument
<1>4. QED
  BY <1>3 DEF Matches

Differ(X) == \A x, y \in X : x.id = y.id => x = y

LEMMA MatchFields ==
  ASSUME NEW q \in Queries, NEW X \in SUBSET SnapshotTxs, NEW tx \in SimilarTo(q, X)
  PROVE  /\ tx \in SnapshotTxs /\ tx.category \in Categories
         /\ Match(q, tx).id = tx.id /\ Match(q, tx).id \in Int
         /\ Match(q, tx).category = tx.category
         /\ Match(q, tx).score = Score(q, tx) /\ Match(q, tx).score \in Int
         /\ Match(q, tx).by = MatchedBy(q, tx)
<1>1. tx \in SnapshotTxs /\ tx.category # None
  BY DEF SimilarTo
<1>2. tx.category \in Categories /\ tx.id \in Int
  <2>1. \A id \in Ids : id \in Int
    BY SuggestionsAssumption
  <2>2. QED
    BY <1>1, <2>1 DEF SnapshotTxs
<1>3. Score(q, tx) \in Int
  BY <1>1, ScoreTells
<1>4. QED
  BY <1>1, <1>2, <1>3 DEF Match

LEMMA MatchesSortable ==
  ASSUME NEW q \in Queries, NEW X \in SUBSET SnapshotTxs, IsFiniteSet(X), Differ(X), NEW S,
         S = {Match(q, tx) : tx \in SimilarTo(q, X)}
  PROVE  /\ IsFiniteSet(S) /\ Sortable(S) /\ StrictOrder(MatchPairs(S), S)
         /\ \A a, b \in SimilarTo(q, X) : Match(q, a) = Match(q, b) => a = b
<1>1. IsFiniteSet(S)
  <2> DEFINE f == [tx \in SimilarTo(q, X) |-> Match(q, tx)]
  <2>1. IsFiniteSet(SimilarTo(q, X))
    <3>1. SimilarTo(q, X) \in SUBSET X
      BY DEF SimilarTo
    <3>2. QED
      BY <3>1, FS_Subset
  <2>2. S = {f[tx] : tx \in SimilarTo(q, X)}
    OBVIOUS
  <2> HIDE DEF f
  <2>3. IsFiniteSet({f[tx] : tx \in SimilarTo(q, X)})
    BY <2>1, ImageFinite
  <2>4. QED
    BY <2>2, <2>3
<1>2. Sortable(S) /\ \A x \in S : x.id \in Int
  BY MatchFields DEF Sortable
<1>3. ASSUME NEW a \in SimilarTo(q, X), NEW b \in SimilarTo(q, X),
             Match(q, a).id = Match(q, b).id
      PROVE  a = b
  <2>1. a.id = b.id
    BY <1>3, MatchFields
  <2>2. a \in X /\ b \in X
    BY DEF SimilarTo
  <2>3. QED
    BY <2>1, <2>2 DEF Differ
<1>4. \A x, y \in S : x.id = y.id => x = y
  BY <1>3
<1>5. StrictOrder(MatchPairs(S), S)
  BY <1>2, <1>4, MatchesOrdered
<1>6. QED
  BY <1>1, <1>2, <1>3, <1>5

(* As many matches go before a match as sources before its source.         *)
LEMMA SamePlace ==
  ASSUME NEW q \in Queries, NEW X \in SUBSET SnapshotTxs, IsFiniteSet(X), Differ(X), NEW S,
         S = {Match(q, tx) : tx \in SimilarTo(q, X)}, NEW tx \in SimilarTo(q, X)
  PROVE  Cardinality(Ahead(MatchPairs(S), S, Match(q, tx)))
           = Cardinality({o \in SimilarTo(q, X) : SourceBefore(q, o, tx)})
<1> PICK Y : Y = SimilarTo(q, X)
  OBVIOUS
<1> DEFINE B == {o \in Y : SourceBefore(q, o, tx)}
           A == Ahead(MatchPairs(S), S, Match(q, tx))
           f == [o \in B |-> Match(q, o)]
<1>1. \A o \in Y : SourceBefore(q, o, tx) <=> MatchBefore(Match(q, o), Match(q, tx))
  BY MatchFields DEF SourceBefore, MatchBefore
<1>2. A = {m \in S : MatchBefore(m, Match(q, tx))}
  BY DEF Ahead, MatchPairs
<1>3. f \in [B -> A] /\ \A m \in A : \E o \in B : f[o] = m
  BY <1>1, <1>2
<1>4. \A a, b \in B : f[a] = f[b] => a = b
  BY MatchesSortable
<1>5. IsFiniteSet(B)
  <2>1. B \in SUBSET X
    BY DEF SimilarTo
  <2> HIDE DEF B
  <2>2. QED
    BY <2>1, FS_Subset
<1>6. f \in Surjection(B, A) /\ f \in Injection(B, A)
  <2> HIDE DEF B, A, f
  <2>1. QED
    BY <1>3, <1>4 DEF Surjection, Injection, IsInjective
<1>7. Cardinality(A) = Cardinality(B)
  <2> HIDE DEF B, A, f
  <2>1. QED
    BY <1>5, <1>6, FS_Surjection
<1>8. QED
  BY <1>7

(* The matches that are found, in their order.                             *)
Found(t, q, Y, L) ==
  /\ t \in Seq(L) /\ Sortable(L)
  /\ \A k \in 1 .. Len(t) : \E tx \in Y : t[k] = Match(q, tx)
  /\ \A tx \in Y : \E k \in 1 .. Len(t) : t[k] = Match(q, tx)
  /\ \A k, l \in 1 .. Len(t) : k < l => MatchBefore(t[k], t[l]) /\ t[k] # t[l]

LEMMA FindsSources ==
  ASSUME NEW q \in Queries, NEW txs \in Seq(SnapshotTxs), NEW X, X = ToSet(txs), Differ(X)
  PROVE  \E L : Found(FindSimilar(q, Documents(txs)), q, SourcesIn(q, X), L)
<1> PICK S : S = {Match(q, tx) : tx \in SimilarTo(q, X)}
  OBVIOUS
<1> PICK R : R = MatchPairs(S)
  OBVIOUS
<1> PICK t : t = FindSimilar(q, Documents(txs))
  OBVIOUS
<1>1. X \in SUBSET SnapshotTxs /\ IsFiniteSet(X)
  BY ToSetFinite
<1>2. /\ IsFiniteSet(S) /\ Sortable(S) /\ StrictOrder(R, S)
      /\ \A a, b \in SimilarTo(q, X) : Match(q, a) = Match(q, b) => a = b
  BY <1>1, MatchesSortable
<1>3. MatchLimit \in Nat
  BY SuggestionsAssumption
<1>4. Tops(t, S, R, MatchLimit)
  <2>1. t = UpTo(Sorted(S, MatchBefore), MatchLimit)
    BY CandidatesAre DEF FindSimilar
  <2>2. Tops(UpTo(Sorted(S, MatchBefore), MatchLimit), S, R, MatchLimit)
    BY <1>2, <1>3, SortedMatches
  <2>3. QED
    BY <2>1, <2>2
<1>5. /\ t \in Seq(S)
      /\ \A k, l \in 1 .. Len(t) : k < l => <<t[k], t[l]>> \in R
      /\ \A x \in S : Cardinality(Ahead(R, S, x)) < MatchLimit <=> \E k \in 1 .. Len(t) : t[k] = x
  BY <1>4 DEF Tops
<1>6. \A k \in 1 .. Len(t) : t[k] \in S
  BY <1>5, ElementOfSeq
<1>7. ASSUME NEW tx \in SimilarTo(q, X)
      PROVE  tx \in SourcesIn(q, X) <=> \E k \in 1 .. Len(t) : t[k] = Match(q, tx)
  <2>1. Cardinality(Ahead(R, S, Match(q, tx)))
          = Cardinality({o \in SimilarTo(q, X) : SourceBefore(q, o, tx)})
    BY <1>1, SamePlace
  <2>2. Match(q, tx) \in S
    OBVIOUS
  <2>3. QED
    BY <1>5, <2>1, <2>2 DEF SourcesIn
<1>8. ASSUME NEW k \in 1 .. Len(t) PROVE \E tx \in SourcesIn(q, X) : t[k] = Match(q, tx)
  <2>1. PICK tx \in SimilarTo(q, X) : t[k] = Match(q, tx)
    BY <1>6
  <2>2. QED
    BY <1>7, <2>1
<1>9. ASSUME NEW tx \in SourcesIn(q, X) PROVE \E k \in 1 .. Len(t) : t[k] = Match(q, tx)
  <2>1. tx \in SimilarTo(q, X)
    BY DEF SourcesIn
  <2>2. QED
    BY <1>7, <2>1
<1>10. ASSUME NEW k \in 1 .. Len(t), NEW l \in 1 .. Len(t), k < l
       PROVE  MatchBefore(t[k], t[l]) /\ t[k] # t[l]
  <2>1. t[k] \in S /\ t[l] \in S /\ <<t[k], t[l]>> \in R
    BY <1>5, <1>6, <1>10
  <2>2. t[k] # t[l]
    BY <1>2, <2>1 DEF StrictOrder
  <2>3. QED
    BY <2>1, <2>2 DEF MatchPairs
<1>11. Found(t, q, SourcesIn(q, X), S)
  BY <1>2, <1>5, <1>8, <1>9, <1>10 DEF Found
<1>12. QED
  BY <1>11

-----------------------------------------------------------------------------
(* What a category's bucket holds.                                         *)

Held(b, m) == IF m.category \in DOMAIN b THEN b[m.category] ELSE FirstOf(m)

Updated(o, m) ==
  [whole |-> o.whole * Unit, left |-> o.left * (Unit - m.score),
   best |-> IF m.score > o.best.score THEN m ELSE o.best]
GoesTo(n, b, m) ==
  /\ DOMAIN n = DOMAIN b \union {m.category}
  /\ \A c \in DOMAIN b : c # m.category => n[c] = b[c]
  /\ n[m.category] = Updated(Held(b, m), m)

LEMMA MatchGoesTo == ASSUME NEW b, NEW m PROVE GoesTo(AddMatch(b, m), b, m)
<1> PICK u : u = Updated(Held(b, m), m)
  OBVIOUS
<1>1. AddMatch(b, m) = [c \in DOMAIN b \union {m.category} |->
                          IF c = m.category THEN u ELSE b[c]]
  BY DEF AddMatch, Held, Updated
<1>2. QED
  BY <1>1 DEF GoesTo

(* Transactions and their matches.                                         *)
Sourced(q, Y) ==
  /\ \A tx \in Y : /\ tx.category \in Categories /\ Match(q, tx).category = tx.category
                   /\ Match(q, tx).score = Score(q, tx) /\ Score(q, tx) \in Int
  /\ \A a, b \in Y : Match(q, a) = Match(q, b) => a = b

OfCategory(c, Y) == {tx \in Y : tx.category = c}
(* The transactions of W whose matches are the first k.                    *)
Among(t, k, q, W) == {tx \in W : \E i \in 1 .. k : t[i] = Match(q, tx)}
FirstIn(t, c, j) == t[j].category = c /\ \A i \in 1 .. j - 1 : t[i].category # c

(* The factors of a category's score.                                      *)
LeftBy(q, W) == [tx \in W |-> Unit - Score(q, tx)]
Wholes(W) == [tx \in W |-> Unit]
Factors(hl, hw, q, W) ==
  /\ AnyFactor(hl, W, LeftBy(q, W)) /\ hl[{}] = 1
  /\ AnyFactor(hw, W, Wholes(W)) /\ hw[{}] = 1

BucketTells(b, c, k, t, q, W, hl, hw) ==
  /\ c \in DOMAIN b <=> Among(t, k, q, W) # {}
  /\ c \in DOMAIN b => /\ b[c].left = hl[Among(t, k, q, W)]
                       /\ b[c].whole = hw[Among(t, k, q, W)]
                       /\ \E j \in 1 .. k : b[c].best = t[j] /\ FirstIn(t, c, j)

LEMMA OtherBucket ==
  ASSUME NEW q, NEW Y, Sourced(q, Y), NEW c, NEW t, NEW k \in Nat, t[k + 1].category # c,
         NEW b, NEW hl, NEW hw, BucketTells(b, c, k, t, q, OfCategory(c, Y), hl, hw)
  PROVE  BucketTells(AddMatch(b, t[k + 1]), c, k + 1, t, q, OfCategory(c, Y), hl, hw)
<1> PICK n : n = AddMatch(b, t[k + 1])
  OBVIOUS
<1> PICK W : W = OfCategory(c, Y)
  OBVIOUS
<1>1. 1 .. k + 1 = 1 .. k \union {k + 1}
  OBVIOUS
<1>2. \A tx \in W : t[k + 1] # Match(q, tx)
  BY DEF OfCategory, Sourced
<1>3. Among(t, k + 1, q, W) = Among(t, k, q, W)
  BY <1>1, <1>2 DEF Among
<1>4. (c \in DOMAIN n <=> c \in DOMAIN b) /\ (c \in DOMAIN b => n[c] = b[c])
  <2> PICK m : m = t[k + 1]
    OBVIOUS
  <2>1. GoesTo(n, b, m) /\ m.category # c
    BY MatchGoesTo
  <2>2. QED
    BY <2>1 DEF GoesTo
<1>5. BucketTells(n, c, k + 1, t, q, W, hl, hw)
  BY <1>1, <1>3, <1>4 DEF BucketTells
<1>6. QED
  BY <1>5

LEMMA OwnBucket ==
  ASSUME NEW q, NEW Y, Sourced(q, Y), NEW L, NEW t, Found(t, q, Y, L),
         NEW c, NEW k \in Nat, k + 1 \in 1 .. Len(t), t[k + 1].category = c,
         NEW b, NEW hl, NEW hw, Factors(hl, hw, q, OfCategory(c, Y)),
         BucketTells(b, c, k, t, q, OfCategory(c, Y), hl, hw)
  PROVE  BucketTells(AddMatch(b, t[k + 1]), c, k + 1, t, q, OfCategory(c, Y), hl, hw)
<1> PICK m : m = t[k + 1]
  OBVIOUS
<1> PICK n : n = AddMatch(b, m)
  OBVIOUS
<1> PICK W : W = OfCategory(c, Y)
  OBVIOUS
<1> PICK o : o = Held(b, m)
  OBVIOUS
<1> PICK A : A = Among(t, k, q, W)
  OBVIOUS
<1> PICK B : B = Among(t, k + 1, q, W)
  OBVIOUS
<1>1. 1 .. k + 1 = 1 .. k \union {k + 1} /\ \A i \in 1 .. k : i \in 1 .. Len(t) /\ i < k + 1
  <2>1. t \in Seq(L)
    BY DEF Found
  <2>2. Len(t) \in Nat
    BY <2>1, LenProperties
  <2>3. QED
    BY <2>2
<1>2. PICK tx \in Y : m = Match(q, tx)
  BY DEF Found
<1>3. tx \in W /\ m.category = c /\ m.score = Score(q, tx) /\ m.score \in Int
  BY <1>2 DEF OfCategory, Sourced
<1>4. tx \notin A
  <2>1. \A i \in 1 .. k : t[i] # m
    BY <1>1 DEF Found
  <2>2. QED
    BY <1>2, <2>1 DEF Among
<1>5. B = A \union {tx} /\ A \in SUBSET W /\ B \in SUBSET W
  <2>1. \A u \in W : t[k + 1] = Match(q, u) <=> u = tx
    BY <1>2, <1>3 DEF OfCategory, Sourced
  <2>2. QED
    BY <1>1, <1>3, <2>1 DEF Among
<1>6. B \ {tx} = A /\ tx \in B
  BY <1>4, <1>5
<1>7. /\ hl[B] = (Unit - m.score) * hl[A] /\ hl[A] \in Int
      /\ hw[B] = Unit * hw[A] /\ hw[A] \in Int /\ hl[{}] = 1 /\ hw[{}] = 1
  <2>0. Factors(hl, hw, q, W)
    OBVIOUS
  <2>1. /\ hl[A] \in Int /\ hw[A] \in Int /\ hl[{}] = 1 /\ hw[{}] = 1
        /\ hl[B] = LeftBy(q, W)[tx] * hl[B \ {tx}]
        /\ hw[B] = Wholes(W)[tx] * hw[B \ {tx}]
    BY <1>5, <1>6, <2>0 DEF Factors, AnyFactor
  <2>2. LeftBy(q, W)[tx] = Unit - m.score /\ Wholes(W)[tx] = Unit
    BY <1>3 DEF LeftBy, Wholes
  <2>3. QED
    BY <1>6, <2>1, <2>2
<1>8. o.left = hl[A] /\ o.whole = hw[A]
  <2>1. CASE c \in DOMAIN b
    BY <1>3, <2>1 DEF Held, BucketTells
  <2>2. CASE c \notin DOMAIN b
    <3>1. A = {}
      BY <2>2 DEF BucketTells
    <3>2. o = FirstOf(m)
      BY <1>3, <2>2 DEF Held
    <3>3. QED
      BY <1>7, <3>1, <3>2 DEF FirstOf
  <2>3. QED
    BY <2>1, <2>2
<1>9. /\ DOMAIN n = DOMAIN b \union {c} /\ n[c].whole = o.whole * Unit
      /\ n[c].left = o.left * (Unit - m.score)
      /\ n[c].best = IF m.score > o.best.score THEN m ELSE o.best
  <2>1. GoesTo(n, b, m)
    BY MatchGoesTo
  <2>2. DOMAIN n = DOMAIN b \union {c} /\ n[c] = Updated(o, m)
    BY <1>3, <2>1 DEF GoesTo
  <2>3. QED
    BY <2>2 DEF Updated
<1>10. n[c].left = hl[B] /\ n[c].whole = hw[B]
  <2>1. Unit - m.score \in Int /\ Unit \in Int
    BY <1>3 DEF Unit
  <2>2. QED
    BY <1>7, <1>8, <1>9, <2>1
<1>11. \E j \in 1 .. k + 1 : n[c].best = t[j] /\ FirstIn(t, c, j)
  <2>1. CASE c \in DOMAIN b
    <3>1. PICK j \in 1 .. k : o.best = t[j] /\ FirstIn(t, c, j)
      BY <1>3, <2>1 DEF Held, BucketTells
    <3>2. MatchBefore(t[j], m)
      BY <1>1 DEF Found
    <3>3. t[j].score \in Int
      <4>1. PICK u \in Y : t[j] = Match(q, u)
        BY <1>1 DEF Found
      <4>2. QED
        BY <4>1 DEF Sourced
    <3>4. ~(m.score > t[j].score)
      BY <1>3, <3>2, <3>3 DEF MatchBefore
    <3>5. n[c].best = t[j]
      BY <1>9, <3>1, <3>4
    <3>6. QED
      BY <1>1, <3>1, <3>5
  <2>2. CASE c \notin DOMAIN b
    <3>1. A = {}
      BY <2>2 DEF BucketTells
    <3>2. ASSUME NEW i \in 1 .. k PROVE t[i].category # c
      <4>1. PICK u \in Y : t[i] = Match(q, u)
        BY <1>1 DEF Found
      <4>2. u \notin A
        BY <3>1
      <4>3. u \notin W
        BY <4>1, <4>2 DEF Among
      <4>4. QED
        BY <4>1, <4>3 DEF OfCategory, Sourced
    <3>3. o = FirstOf(m)
      BY <1>3, <2>2 DEF Held
    <3>4. n[c].best = m
      BY <1>9, <3>3 DEF FirstOf
    <3>5. FirstIn(t, c, k + 1)
      <4>1. (k + 1) - 1 = k
        OBVIOUS
      <4>2. QED
        BY <1>3, <3>2, <4>1 DEF FirstIn
    <3>6. QED
      BY <1>1, <3>4, <3>5
  <2>3. QED
    BY <2>1, <2>2
<1>12. c \in DOMAIN n /\ B # {}
  BY <1>6, <1>9
<1>13. BucketTells(n, c, k + 1, t, q, W, hl, hw)
  BY <1>10, <1>11, <1>12 DEF BucketTells
<1>14. QED
  BY <1>13

LEMMA FactorsExist ==
  ASSUME NEW q, NEW W, IsFiniteSet(W), \A tx \in W : Score(q, tx) \in Int
  PROVE  \E hl, hw : /\ Factors(hl, hw, q, W)
                     /\ ScoreOf(q, W) = Rounded(hl[W], hw[W])
<1> PICK fl : fl = LeftBy(q, W)
  OBVIOUS
<1> PICK fw : fw = Wholes(W)
  OBVIOUS
<1>1. /\ DOMAIN fl = W /\ \A tx \in W : fl[tx] \in Int
      /\ DOMAIN fw = W /\ \A tx \in W : fw[tx] \in Int
  BY DEF LeftBy, Wholes, Unit
<1>2. PICK hl : Products(hl, W, fl) /\ Product(fl) = hl[W]
  BY <1>1, ProductIs
<1>3. PICK hw : Products(hw, W, fw) /\ Product(fw) = hw[W]
  BY <1>1, ProductIs
<1>4. AnyFactor(hl, W, fl) /\ AnyFactor(hw, W, fw)
  BY <1>1, <1>2, <1>3, ProductsTakeOut
<1>5. hl[{}] = 1 /\ hw[{}] = 1
  <2>1. {} \in SUBSET W
    OBVIOUS
  <2>2. QED
    BY <1>2, <1>3, <2>1, ProductsAt
<1>6. Factors(hl, hw, q, W)
  BY <1>4, <1>5 DEF Factors
<1>7. ScoreOf(q, W) = Rounded(hl[W], hw[W])
  BY <1>2, <1>3 DEF ScoreOf, LeftBy, Wholes
<1>8. QED
  BY <1>6, <1>7

(* A category's bucket, once all matches are in.                           *)
Gathered(b, c, t, q, Y) ==
  /\ c \in DOMAIN b <=> OfCategory(c, Y) # {}
  /\ c \in DOMAIN b =>
       /\ Rounded(b[c].left, b[c].whole) = ScoreOf(q, OfCategory(c, Y))
       /\ \E j \in 1 .. Len(t) : b[c].best = t[j] /\ FirstIn(t, c, j)

LEMMA BucketGathers ==
  ASSUME NEW q, NEW Y, IsFiniteSet(Y), Sourced(q, Y), NEW L, NEW t, Found(t, q, Y, L), NEW c,
         NEW r, FoldsUp(r, L, t)
  PROVE  Gathered(FoldLeft(AddMatch, << >>, t), c, t, q, Y)
<1> PICK n : n = Len(t)
  OBVIOUS
<1> PICK W : W = OfCategory(c, Y)
  OBVIOUS
<1>1. IsFiniteSet(W) /\ \A tx \in W : Score(q, tx) \in Int
  <2>1. W \in SUBSET Y
    BY DEF OfCategory
  <2>2. QED
    BY <2>1, FS_Subset DEF Sourced
<1>2. PICK hl, hw : Factors(hl, hw, q, W) /\ ScoreOf(q, W) = Rounded(hl[W], hw[W])
  BY <1>1, FactorsExist
<1>3. /\ r[0] = << >> /\ FoldLeft(AddMatch, << >>, t) = r[n]
      /\ \A k \in 1 .. n : r[k] = AddMatch(r[k - 1], t[k])
  BY DEF FoldsUp
<1>4. n \in Nat
  <2>1. t \in Seq(L)
    BY DEF Found
  <2>2. QED
    BY <2>1, LenProperties
<1> DEFINE D == {k \in 0 .. n : BucketTells(r[k], c, k, t, q, W, hl, hw)}
<1>5. 0 \in D
  <2>1. 1 .. 0 = {} /\ 0 \in 0 .. n
    BY <1>4
  <2>2. Among(t, 0, q, W) = {}
    BY <2>1 DEF Among
  <2>3. DOMAIN << >> = {}
    OBVIOUS
  <2>4. QED
    BY <1>3, <2>1, <2>2, <2>3 DEF BucketTells
<1>6. ASSUME NEW k \in 0 .. n, k \in D, k # n PROVE k + 1 \in D
  <2>1. k + 1 \in 1 .. n /\ k + 1 \in 0 .. n /\ (k + 1) - 1 = k /\ k \in Nat
    BY <1>4, <1>6
  <2>2. r[k + 1] = AddMatch(r[k], t[k + 1])
    BY <1>3, <2>1
  <2>3. BucketTells(r[k], c, k, t, q, W, hl, hw)
    BY <1>6
  <2>4. BucketTells(AddMatch(r[k], t[k + 1]), c, k + 1, t, q, W, hl, hw)
    <3>1. CASE t[k + 1].category = c
      BY <1>2, <2>1, <2>3, <3>1, OwnBucket
    <3>2. CASE t[k + 1].category # c
      BY <2>1, <2>3, <3>2, OtherBucket
    <3>3. QED
      BY <3>1, <3>2
  <2>5. QED
    BY <2>1, <2>2, <2>4
<1>7. BucketTells(r[n], c, n, t, q, W, hl, hw)
  <2>1. \A k \in 0 .. n : k \in D
    <3> HIDE DEF D
    <3>1. QED
      BY <1>4, <1>5, <1>6, Induction
  <2>2. QED
    BY <1>4, <2>1
<1>8. Among(t, n, q, W) = W
  BY DEF Among, Found, OfCategory
<1>9. Gathered(r[n], c, t, q, Y)
  BY <1>2, <1>7, <1>8 DEF BucketTells, Gathered
<1>10. QED
  BY <1>3, <1>9

-----------------------------------------------------------------------------
(* The answer.                                                             *)

LEMMA SourcesSourced ==
  ASSUME NEW q \in Queries, NEW X \in SUBSET SnapshotTxs, IsFiniteSet(X), Differ(X), NEW Y,
         Y = SourcesIn(q, X)
  PROVE  /\ IsFiniteSet(Y) /\ Sourced(q, Y) /\ Y \in SUBSET SimilarTo(q, X)
         /\ \A a, b \in Y : SourceBefore(q, a, b) <=> MatchBefore(Match(q, a), Match(q, b))
<1>1. Y \in SUBSET SimilarTo(q, X) /\ Y \in SUBSET X
  BY DEF SourcesIn, SimilarTo
<1>2. IsFiniteSet(Y)
  BY <1>1, FS_Subset
<1>3. \A a, b \in Y : Match(q, a) = Match(q, b) => a = b
  <2> PICK S : S = {Match(q, tx) : tx \in SimilarTo(q, X)}
    OBVIOUS
  <2>1. \A a, b \in SimilarTo(q, X) : Match(q, a) = Match(q, b) => a = b
    BY MatchesSortable
  <2>2. QED
    BY <1>1, <2>1
<1>4. ASSUME NEW tx \in Y
      PROVE  /\ tx.category \in Categories /\ Match(q, tx).category = tx.category
             /\ Match(q, tx).score = Score(q, tx) /\ Score(q, tx) \in Int
             /\ Match(q, tx).id = tx.id
  BY <1>1, MatchFields
<1>5. ASSUME NEW a \in Y, NEW b \in Y
      PROVE  SourceBefore(q, a, b) <=> MatchBefore(Match(q, a), Match(q, b))
  BY <1>4 DEF SourceBefore, MatchBefore
<1>6. QED
  BY <1>1, <1>2, <1>3, <1>4, <1>5 DEF Sourced

(* The transaction of a category's first match is its best.                *)
IsBest(best, c, q, Y) ==
  /\ best.category = c
  /\ \A other \in Y : other.category = c => ~SourceBefore(q, other, best)

LEMMA FirstIsBest ==
  ASSUME NEW q \in Queries, NEW X \in SUBSET SnapshotTxs, IsFiniteSet(X), Differ(X), NEW Y,
         Y = SourcesIn(q, X), NEW L, NEW t, Found(t, q, Y, L), NEW c,
         NEW j \in 1 .. Len(t), FirstIn(t, c, j)
  PROVE  \E best \in Y : Match(q, best) = t[j] /\ IsBest(best, c, q, Y)
<1>1. /\ Sourced(q, Y) /\ Y \in SUBSET SimilarTo(q, X)
      /\ \A a, b \in Y : SourceBefore(q, a, b) <=> MatchBefore(Match(q, a), Match(q, b))
  BY SourcesSourced
<1>2. PICK best \in Y : t[j] = Match(q, best)
  BY DEF Found
<1>3. best.category = c
  BY <1>1, <1>2 DEF Sourced, FirstIn
<1>4. \A tx \in Y : /\ Match(q, tx).score \in Int /\ Match(q, tx).id \in Int
                    /\ NameRank[Match(q, tx).category] \in Int
  BY <1>1, MatchFields, NamesAreNumbers
<1>5. ASSUME NEW other \in Y, other.category = c, SourceBefore(q, other, best) PROVE FALSE
  <2>1. PICK l \in 1 .. Len(t) : t[l] = Match(q, other)
    BY DEF Found
  <2>2. t[l].category = c
    BY <1>1, <1>5, <2>1 DEF Sourced
  <2>3. Len(t) \in Nat
    <3>1. t \in Seq(L)
      BY DEF Found
    <3>2. QED
      BY <3>1, LenProperties
  <2>4. ~(l < j)
    <3>1. l < j => l \in 1 .. j - 1
      BY <2>3
    <3>2. QED
      BY <2>2, <3>1 DEF FirstIn
  <2>5. MatchBefore(Match(q, other), Match(q, best))
    BY <1>1, <1>5
  <2>6. CASE l = j
    <3>1. MatchBefore(Match(q, best), Match(q, best))
      BY <1>2, <2>1, <2>5, <2>6
    <3>2. QED
      BY <1>4, <3>1 DEF MatchBefore
  <2>7. CASE j < l
    <3>1. MatchBefore(Match(q, best), Match(q, other))
      BY <1>2, <2>1, <2>7 DEF Found
    <3>2. QED
      BY <1>4, <2>5, <3>1 DEF MatchBefore
  <2>8. QED
    BY <2>3, <2>4, <2>6, <2>7
<1>6. QED
  BY <1>2, <1>3, <1>5 DEF IsBest

SuggestionOf(b, c) ==
  [category |-> c, score |-> Rounded(b[c].left, b[c].whole), reason |-> b[c].best.by]
Short(s) == [category |-> s.category, score |-> s.score]

SuggestionRecords == [category : Categories, score : Int, reason : Fields]

(* What a suggestion rests on.                                             *)
Rests(s, q, Y) ==
  \E best \in Y : /\ IsBest(best, s.category, q, Y) /\ s.reason = MatchedBy(q, best)
                  /\ \/ Similarity(q.title, best.title) > 0
                     \/ Similarity(q.notes, best.notes) > 0

Shorts(q, Y) ==
  {[category |-> c, score |-> ScoreOf(q, OfCategory(c, Y))] : c \in {tx.category : tx \in Y}}

(* The suggestions that S is of the sources Y.                             *)
Suggests(S, q, Y) ==
  /\ IsFiniteSet(S) /\ Sortable(S) /\ S \in SUBSET SuggestionRecords
  /\ \A x, y \in S : x.category = y.category => x = y
  /\ {Short(s) : s \in S} = Shorts(q, Y)
  /\ \A s \in S : Rests(s, q, Y)

LEMMA RoundedInt ==
  ASSUME NEW left \in Int, NEW whole \in Nat \ {0}
  PROVE  Rounded(left, whole) \in Int
<1>1. whole \div 2 \in Int
  OBVIOUS
<1> PICK n : n = (whole - left) * 10000 + whole \div 2
  OBVIOUS
<1>2. n \in Int
  BY <1>1
<1>3. n \div whole \in Int
  BY <1>2
<1>4. QED
  BY <1>3 DEF Rounded

LEMMA SuggestionsMade ==
  ASSUME NEW q \in Queries, NEW X \in SUBSET SnapshotTxs, IsFiniteSet(X), Differ(X), NEW Y,
         Y = SourcesIn(q, X), NEW L, NEW t, Found(t, q, Y, L),
         NEW b, b = FoldLeft(AddMatch, << >>, t)
  PROVE  Suggests({SuggestionOf(b, c) : c \in DOMAIN b}, q, Y)
<1> PICK S : S = {SuggestionOf(b, c) : c \in DOMAIN b}
  OBVIOUS
<1>1. IsFiniteSet(Y) /\ Sourced(q, Y) /\ Y \in SUBSET SimilarTo(q, X)
  BY SourcesSourced
<1>2. t \in Seq(L) /\ Sortable(L)
  BY DEF Found
<1>3. PICK r : FoldsUp(r, L, t)
  BY <1>2, FoldSteps
<1>4. b \in Buckets(L)
  <2>1. Len(t) \in Nat
    BY <1>2, LenProperties
  <2>2. r \in [0 .. Len(t) -> Buckets(L)] /\ b = r[Len(t)]
    BY <1>3 DEF FoldsUp
  <2>3. QED
    BY <2>1, <2>2
<1>5. PICK C \in SUBSET Categories : b \in [C -> BucketSet(L)]
  BY <1>4 DEF Buckets
<1>6. ASSUME NEW c PROVE Gathered(b, c, t, q, Y)
  BY <1>1, <1>3, BucketGathers
<1>7. DOMAIN b = {tx.category : tx \in Y}
  <2>1. ASSUME NEW c PROVE c \in DOMAIN b <=> \E tx \in Y : tx.category = c
    BY <1>6 DEF Gathered, OfCategory
  <2>2. QED
    BY <2>1
<1>8. ASSUME NEW c \in DOMAIN b
      PROVE  /\ c \in Categories /\ SuggestionOf(b, c).score \in Int
             /\ SuggestionOf(b, c).category = c
             /\ Short(SuggestionOf(b, c))
                  = [category |-> c, score |-> ScoreOf(q, OfCategory(c, Y))]
  <2>1. b[c] \in BucketSet(L) /\ c \in Categories
    BY <1>5
  <2>2. Rounded(b[c].left, b[c].whole) \in Int
    BY <2>1, RoundedInt DEF BucketSet
  <2>3. Rounded(b[c].left, b[c].whole) = ScoreOf(q, OfCategory(c, Y))
    BY <1>6 DEF Gathered
  <2>4. QED
    BY <2>1, <2>2, <2>3 DEF SuggestionOf, Short
<1>9. IsFiniteSet(S)
  <2> PICK f : f = [tx \in Y |-> SuggestionOf(b, tx.category)]
    OBVIOUS
  <2>1. S = {f[tx] : tx \in Y}
    BY <1>7
  <2>2. IsFiniteSet({f[tx] : tx \in Y})
    BY <1>1, ImageFinite
  <2>3. QED
    BY <2>1, <2>2
<1>10. Sortable(S) /\ \A x, y \in S : x.category = y.category => x = y
  BY <1>8 DEF Sortable
<1>11. {Short(s) : s \in S} = Shorts(q, Y)
  <2>1. {Short(s) : s \in S} = {Short(SuggestionOf(b, c)) : c \in DOMAIN b}
    OBVIOUS
  <2>2. {Short(SuggestionOf(b, c)) : c \in DOMAIN b}
          = {[category |-> c, score |-> ScoreOf(q, OfCategory(c, Y))] : c \in DOMAIN b}
    BY <1>8
  <2>3. QED
    BY <1>7, <2>1, <2>2 DEF Shorts
<1>12. ASSUME NEW c \in DOMAIN b
       PROVE  Rests(SuggestionOf(b, c), q, Y) /\ SuggestionOf(b, c).reason \in Fields
  <2>1. PICK j \in 1 .. Len(t) : b[c].best = t[j] /\ FirstIn(t, c, j)
    BY <1>6 DEF Gathered
  <2>2. PICK best \in Y : Match(q, best) = t[j] /\ IsBest(best, c, q, Y)
    BY <2>1, FirstIsBest
  <2>3. SuggestionOf(b, c).category = c /\ SuggestionOf(b, c).reason = MatchedBy(q, best)
    <3>1. SuggestionOf(b, c).reason = Match(q, best).by
      BY <2>1, <2>2 DEF SuggestionOf
    <3>2. Match(q, best).by = MatchedBy(q, best)
      BY DEF Match
    <3>3. QED
      BY <1>8, <3>1, <3>2
  <2>4. best \in SnapshotTxs /\ Score(q, best) >= MinSimilarity
    BY <1>1 DEF SimilarTo
  <2>5. \/ Similarity(q.title, best.title) > 0
        \/ Similarity(q.notes, best.notes) > 0
    BY <2>4, ScoreTells
  <2>6. QED
    BY <2>2, <2>3, <2>4, <2>5, ReasonTyped DEF Rests
<1>13. S \in SUBSET SuggestionRecords
  <2>1. ASSUME NEW c \in DOMAIN b PROVE SuggestionOf(b, c) \in SuggestionRecords
    <3>1. /\ c \in Categories /\ SuggestionOf(b, c).score \in Int
          /\ SuggestionOf(b, c).reason \in Fields
      BY <1>8, <1>12
    <3>2. QED
      BY <3>1 DEF SuggestionOf, SuggestionRecords
  <2>2. QED
    BY <2>1
<1>14. Suggests(S, q, Y)
  BY <1>9, <1>10, <1>11, <1>12, <1>13 DEF Suggests
<1>15. QED
  BY <1>14

-----------------------------------------------------------------------------
(* What SuggestionsAreRanked says of an answer t to q, Y being the sources.*)
Ranked(t, q, Y) ==
  LET all == Shorts(q, Y)
      shown == {Short(s) : s \in ToSet(t)}
  IN
  /\ shown \subseteq all
  /\ Len(t) = Cardinality(shown)
  /\ Cardinality(shown) = Cardinality(all) \/ Cardinality(shown) = SuggestionLimit
  /\ \A s \in shown, o \in all \ shown : SuggestionBefore(s, o)
  /\ \A i, j \in DOMAIN t : i < j => SuggestionBefore(t[i], t[j])
  /\ \A s \in ToSet(t) : Rests(s, q, Y)

LEMMA SameSize ==
  ASSUME NEW S, IsFiniteSet(S), NEW T, NEW f \in [S -> T],
         \A x, y \in S : f[x] = f[y] => x = y, \A z \in T : \E x \in S : f[x] = z
  PROVE  Cardinality(T) = Cardinality(S)
<1>1. f \in Surjection(S, T) /\ f \in Injection(S, T)
  BY DEF Surjection, Injection, IsInjective
<1>2. QED
  BY <1>1, FS_Surjection

LEMMA TopsAreRanked ==
  ASSUME NEW q, NEW Y, NEW S, Suggests(S, q, Y), NEW t,
         Tops(t, S, SuggestionPairs(S), SuggestionLimit)
  PROVE  Ranked(t, q, Y) /\ t \in Seq(SuggestionRecords)
<1> PICK R : R = SuggestionPairs(S)
  OBVIOUS
<1> PICK all : all = Shorts(q, Y)
  OBVIOUS
<1> PICK shown : shown = {Short(s) : s \in ToSet(t)}
  OBVIOUS
<1>1. /\ IsFiniteSet(S) /\ \A x, y \in S : x.category = y.category => x = y
      /\ all = {Short(s) : s \in S} /\ \A s \in S : Rests(s, q, Y)
  BY DEF Suggests
<1>2. StrictOrder(R, S) /\ \A x, y \in S : <<x, y>> \in R <=> SuggestionBefore(x, y)
  <2>1. Sortable(S)
    BY DEF Suggests
  <2>2. StrictOrder(SuggestionPairs(S), S)
    BY <1>1, <2>1, SuggestionsOrdered
  <2>3. QED
    BY <2>2 DEF SuggestionPairs
<1>3. /\ t \in Seq(S)
      /\ Len(t) = IF Cardinality(S) < SuggestionLimit THEN Cardinality(S) ELSE SuggestionLimit
      /\ \A k, l \in 1 .. Len(t) : k < l => <<t[k], t[l]>> \in R
      /\ \A x \in S : Cardinality(Ahead(R, S, x)) < SuggestionLimit
                        <=> \E k \in 1 .. Len(t) : t[k] = x
  BY DEF Tops
<1>4. /\ Len(t) \in Nat /\ DOMAIN t = 1 .. Len(t)
      /\ \A k \in 1 .. Len(t) : t[k] \in S
      /\ ToSet(t) = {t[k] : k \in 1 .. Len(t)}
  <2>1. Len(t) \in Nat /\ DOMAIN t = 1 .. Len(t)
    BY <1>3, LenProperties
  <2>2. \A k \in 1 .. Len(t) : t[k] \in S
    BY <1>3, ElementOfSeq
  <2>3. QED
    BY <2>1, <2>2 DEF ToSet
<1>5. \A x, y \in S : Short(x) = Short(y) => x = y
  <2>1. \A x \in S : Short(x).category = x.category
    BY DEF Short
  <2>2. QED
    BY <1>1, <2>1
<1>6. shown \subseteq all
  BY <1>1, <1>4
<1>7. Cardinality(shown) = Len(t)
  <2> DEFINE f == [k \in 1 .. Len(t) |-> Short(t[k])]
  <2>1. f \in [1 .. Len(t) -> shown] /\ \A z \in shown : \E k \in 1 .. Len(t) : f[k] = z
    BY <1>4
  <2>2. ASSUME NEW k \in 1 .. Len(t), NEW l \in 1 .. Len(t), f[k] = f[l] PROVE k = l
    <3>1. t[k] \in S /\ t[l] \in S /\ Short(t[k]) = Short(t[l])
      BY <1>4, <2>2
    <3>2. t[k] = t[l] /\ <<t[k], t[k]>> \notin R
      BY <1>2, <1>5, <3>1 DEF StrictOrder
    <3>3. ~(k < l) /\ ~(l < k)
      BY <1>3, <3>2
    <3>4. QED
      BY <1>4, <3>3
  <2>3. IsFiniteSet(1 .. Len(t)) /\ Cardinality(1 .. Len(t)) = Len(t)
    BY <1>4, FS_Interval
  <2> HIDE DEF f
  <2>4. QED
    BY <2>1, <2>2, <2>3, SameSize
<1>8. Cardinality(all) = Cardinality(S)
  <2> DEFINE f == [x \in S |-> Short(x)]
  <2>1. /\ f \in [S -> all] /\ \A z \in all : \E x \in S : f[x] = z
        /\ \A x, y \in S : f[x] = f[y] => x = y
    BY <1>1, <1>5
  <2> HIDE DEF f
  <2>2. QED
    BY <1>1, <2>1, SameSize
<1>9. ASSUME NEW s \in shown, NEW o \in all \ shown PROVE SuggestionBefore(s, o)
  <2>1. PICK k \in 1 .. Len(t) : s = Short(t[k])
    BY <1>4
  <2>2. PICK y \in S : o = Short(y)
    BY <1>1
  <2> PICK x : x = t[k]
    OBVIOUS
  <2>3. x \in S /\ s = Short(x)
    BY <1>4, <2>1
  <2>4. ~\E l \in 1 .. Len(t) : t[l] = y
    BY <1>4, <2>2
  <2>5. Cardinality(Ahead(R, S, x)) < SuggestionLimit
    BY <1>3, <2>3
  <2>6. ~(Cardinality(Ahead(R, S, y)) < SuggestionLimit)
    BY <1>3, <2>2, <2>4
  <2>7. /\ Cardinality(Ahead(R, S, x)) \in Int /\ Cardinality(Ahead(R, S, y)) \in Int
        /\ SuggestionLimit \in Int
    <3>1. Cardinality(Ahead(R, S, x)) \in 0 .. Cardinality(S) - 1
      BY <1>1, <1>2, <2>3, AheadLess
    <3>2. Cardinality(Ahead(R, S, y)) \in 0 .. Cardinality(S) - 1
      BY <1>1, <1>2, <2>2, AheadLess
    <3>3. SuggestionLimit \in Int
      BY SuggestionsAssumption
    <3>4. QED
      BY <3>1, <3>2, <3>3
  <2>8. Cardinality(Ahead(R, S, x)) < Cardinality(Ahead(R, S, y))
    BY <2>5, <2>6, <2>7
  <2>9. <<x, y>> \in R
    BY <1>1, <1>2, <2>2, <2>3, <2>8, AheadLess
  <2>10. SuggestionBefore(x, y)
    BY <1>2, <2>2, <2>3, <2>9
  <2>11. /\ s.score = x.score /\ s.category = x.category
         /\ o.score = y.score /\ o.category = y.category
    BY <2>2, <2>3 DEF Short
  <2>12. QED
    BY <2>10, <2>11 DEF SuggestionBefore
<1>10. ASSUME NEW i \in DOMAIN t, NEW j \in DOMAIN t, i < j PROVE SuggestionBefore(t[i], t[j])
  <2>1. i \in 1 .. Len(t) /\ j \in 1 .. Len(t)
    BY <1>4
  <2>2. QED
    BY <1>2, <1>3, <1>4, <1>10, <2>1
<1>11. ASSUME NEW s \in ToSet(t) PROVE Rests(s, q, Y)
  BY <1>1, <1>4
<1>12. Cardinality(shown) = Cardinality(all) \/ Cardinality(shown) = SuggestionLimit
  BY <1>3, <1>7, <1>8
<1>13. t \in Seq(SuggestionRecords)
  BY <1>3 DEF Suggests
<1>14. QED
  BY <1>6, <1>7, <1>9, <1>10, <1>11, <1>12, <1>13 DEF Ranked

LEMMA AnswerRanked ==
  ASSUME NEW q \in Queries, NEW txs \in Seq(SnapshotTxs), NEW X, X = ToSet(txs), Differ(X)
  PROVE  /\ Ranked(Aggregate(FindSimilar(q, Documents(txs))), q, SourcesIn(q, X))
         /\ Aggregate(FindSimilar(q, Documents(txs))) \in Seq(SuggestionRecords)
<1> PICK Y : Y = SourcesIn(q, X)
  OBVIOUS
<1> PICK t : t = FindSimilar(q, Documents(txs))
  OBVIOUS
<1> PICK b : b = FoldLeft(AddMatch, << >>, t)
  OBVIOUS
<1> PICK S : S = {SuggestionOf(b, c) : c \in DOMAIN b}
  OBVIOUS
<1>1. X \in SUBSET SnapshotTxs /\ IsFiniteSet(X)
  BY ToSetFinite
<1>2. PICK L : Found(t, q, Y, L)
  BY FindsSources
<1>3. Suggests(S, q, Y)
  BY <1>1, <1>2, SuggestionsMade
<1>4. StrictOrder(SuggestionPairs(S), S) /\ IsFiniteSet(S)
  BY <1>3, SuggestionsOrdered DEF Suggests
<1>5. SuggestionLimit \in Nat
  BY SuggestionsAssumption
<1>6. Tops(UpTo(Sorted(S, SuggestionBefore), SuggestionLimit), S, SuggestionPairs(S),
           SuggestionLimit)
  BY <1>4, <1>5, SortedSuggestions
<1>7. Aggregate(t) = UpTo(Sorted(S, SuggestionBefore), SuggestionLimit)
  BY DEF Aggregate, SuggestionOf
<1>8. QED
  BY <1>3, <1>6, <1>7, TopsAreRanked

-----------------------------------------------------------------------------
(* The snapshot and the request.                                           *)
Snapshots ==
  {txs \in Seq(SnapshotTxs) : \A i, j \in DOMAIN txs : txs[i].id = txs[j].id => i = j}

LEMMA SnapshotsDiffer ==
  ASSUME NEW txs \in Snapshots
  PROVE  txs \in Seq(SnapshotTxs) /\ Differ(ToSet(txs))
BY DEF Snapshots, Differ, ToSet

LEMMA IdentifiedTyped ==
  ASSUME NEW id \in Ids, NEW kind \in Kinds
  PROVE  Identified(id, kind) \in SnapshotTxs /\ Identified(id, kind).id = id
<1>1. kind \in Contents
  BY SuggestionsAssumption
<1>2. QED
  BY <1>1 DEF Identified, Contents, SnapshotTxs

(* The places of u are places of txs, by f, with their identities.         *)
Rearranges(f, u, m, txs, n) ==
  /\ u \in Seq(SnapshotTxs) /\ Len(u) = m /\ Len(txs) = n
  /\ f \in [1 .. m -> 1 .. n] /\ \A k, l \in 1 .. m : f[k] = f[l] => k = l
  /\ \A k \in 1 .. m : u[k].id = txs[f[k]].id

LEMMA Rearranged ==
  ASSUME NEW txs \in Snapshots, NEW f, NEW u, NEW m, NEW n, Rearranges(f, u, m, txs, n)
  PROVE  u \in Snapshots
<1>1. DOMAIN u = 1 .. m /\ DOMAIN txs = 1 .. n
  BY LenProperties DEF Snapshots, Rearranges
<1>2. ASSUME NEW k \in 1 .. m, NEW l \in 1 .. m, u[k].id = u[l].id PROVE k = l
  <2>1. f[k] \in 1 .. n /\ f[l] \in 1 .. n /\ txs[f[k]].id = txs[f[l]].id
    BY <1>2 DEF Rearranges
  <2>2. f[k] = f[l]
    BY <1>1, <2>1 DEF Snapshots
  <2>3. QED
    BY <2>2 DEF Rearranges
<1>3. QED
  BY <1>1, <1>2 DEF Snapshots, Rearranges

LEMMA TransactionAdded ==
  ASSUME NEW txs \in Snapshots, NEW tx \in SnapshotTxs, ~HasId(txs, tx.id)
  PROVE  Append(txs, tx) \in Snapshots
<1> PICK n : n = Len(txs)
  OBVIOUS
<1> PICK u : u = Append(txs, tx)
  OBVIOUS
<1>1. txs \in Seq(SnapshotTxs) /\ n \in Nat /\ DOMAIN txs = 1 .. n
  BY LenProperties DEF Snapshots
<1>2. /\ u \in Seq(SnapshotTxs) /\ Len(u) = n + 1 /\ u[n + 1] = tx
      /\ \A k \in 1 .. n : u[k] = txs[k]
  BY <1>1, AppendProperties
<1>3. DOMAIN u = 1 .. n + 1
  BY <1>2, LenProperties
<1>4. ASSUME NEW k \in 1 .. n PROVE u[k].id # tx.id
  BY <1>1, <1>2 DEF HasId
<1>5. ASSUME NEW k \in 1 .. n + 1, NEW l \in 1 .. n + 1, u[k].id = u[l].id PROVE k = l
  <2>1. CASE k \in 1 .. n /\ l \in 1 .. n
    BY <1>1, <1>2, <1>5, <2>1 DEF Snapshots
  <2>2. CASE k = n + 1 /\ l \in 1 .. n
    BY <1>2, <1>4, <1>5, <2>2
  <2>3. CASE l = n + 1 /\ k \in 1 .. n
    BY <1>2, <1>4, <1>5, <2>3
  <2>4. QED
    BY <1>1, <2>1, <2>2, <2>3
<1>6. QED
  BY <1>2, <1>3, <1>5 DEF Snapshots

LEMMA TransactionChanged ==
  ASSUME NEW txs \in Snapshots, NEW i \in DOMAIN txs, NEW kind \in Kinds
  PROVE  [txs EXCEPT ![i] = Identified(@.id, kind)] \in Snapshots
<1> PICK n : n = Len(txs)
  OBVIOUS
<1> PICK u : u = [txs EXCEPT ![i] = Identified(@.id, kind)]
  OBVIOUS
<1>1. txs \in Seq(SnapshotTxs) /\ n \in Nat /\ DOMAIN txs = 1 .. n
  BY LenProperties DEF Snapshots
<1>2. \A k \in 1 .. n : txs[k] \in SnapshotTxs /\ txs[k].id \in Ids
  <2>1. \A k \in 1 .. n : txs[k] \in SnapshotTxs
    BY <1>1, ElementOfSeq
  <2>2. QED
    BY <2>1 DEF SnapshotTxs
<1>3. /\ Identified(txs[i].id, kind) \in SnapshotTxs
      /\ Identified(txs[i].id, kind).id = txs[i].id
  BY <1>1, <1>2, IdentifiedTyped
<1> PICK e : e = Identified(txs[i].id, kind)
  OBVIOUS
<1>4. u = [txs EXCEPT ![i] = e]
  OBVIOUS
<1>5. /\ u \in Seq(SnapshotTxs) /\ Len(u) = n
      /\ \A k \in 1 .. n : u[k] = IF k = i THEN e ELSE txs[k]
  BY <1>1, <1>3, <1>4, ExceptSeq
<1> DEFINE f == [k \in 1 .. n |-> k]
<1>6. /\ f \in [1 .. n -> 1 .. n] /\ \A k, l \in 1 .. n : f[k] = f[l] => k = l
      /\ \A k \in 1 .. n : u[k].id = txs[f[k]].id
  BY <1>3, <1>5
<1> HIDE DEF f
<1>7. Rearranges(f, u, n, txs, n)
  BY <1>5, <1>6 DEF Rearranges
<1>8. QED
  BY <1>7, Rearranged

(* Without place i of n, p places before it are left, and r after it.      *)
PlacesLeft(n, i, p, r) ==
  /\ p \in Nat /\ r \in Nat /\ p + r = n - 1 /\ p \in 0 .. n
  /\ i + 1 \in Int /\ n - (i + 1) + 1 = r /\ (i + 1 <= n \/ r = 0)
  /\ \A k \in 1 .. r : i + 1 + k - 1 = i + k /\ i + k \in 1 .. n
  /\ \A k \in 1 .. n - 1 : IF k <= p THEN k \in 1 .. p
                           ELSE k - p \in 1 .. r /\ i + (k - p) = k + 1

LEMMA PlaceTaken ==
  ASSUME NEW n \in Nat, NEW i \in 1 .. n
  PROVE  PlacesLeft(n, i, i - 1, n - i)
BY DEF PlacesLeft

LEMMA Beginning ==
  ASSUME NEW L, NEW s \in Seq(L), NEW p \in 0 .. Len(s)
  PROVE  /\ SubSeq(s, 1, p) \in Seq(L) /\ Len(SubSeq(s, 1, p)) = p
         /\ \A k \in 1 .. p : SubSeq(s, 1, p)[k] = s[k]
<1> PICK n : n = Len(s)
  OBVIOUS
<1>1. n \in Nat /\ 1 \in Int /\ p \in Int /\ \A k \in 1 .. p : s[k] \in L
  <2>1. n \in Nat /\ \A k \in 1 .. n : s[k] \in L
    BY LenProperties, ElementOfSeq
  <2>2. QED
    BY <2>1
<1>2. /\ SubSeq(s, 1, p) \in Seq(L) /\ Len(SubSeq(s, 1, p)) = IF 1 <= p THEN p - 1 + 1 ELSE 0
      /\ \A k \in 1 .. p - 1 + 1 : SubSeq(s, 1, p)[k] = s[1 + k - 1]
  BY <1>1, SubSeqProperties
<1>3. /\ p - 1 + 1 = p /\ (IF 1 <= p THEN p ELSE 0) = p
      /\ \A k \in 1 .. p : 1 + k - 1 = k
  BY <1>1
<1>4. QED
  BY <1>2, <1>3

LEMMA Rest ==
  ASSUME NEW L, NEW s \in Seq(L), NEW i \in 1 .. Len(s)
  PROVE  /\ SubSeq(s, i + 1, Len(s)) \in Seq(L) /\ Len(SubSeq(s, i + 1, Len(s))) = Len(s) - i
         /\ \A k \in 1 .. Len(s) - i : SubSeq(s, i + 1, Len(s))[k] = s[i + k]
<1> PICK n : n = Len(s)
  OBVIOUS
<1> PICK r : r = n - i
  OBVIOUS
<1>1. n \in Nat /\ \A k \in 1 .. n : s[k] \in L
  BY LenProperties, ElementOfSeq
<1> PICK h : h = i + 1
  OBVIOUS
<1>2. /\ h \in Int /\ n - h + 1 = r /\ (h <= n \/ r = 0) /\ r \in Nat
      /\ \A k \in 1 .. r : h + k - 1 = i + k
  BY <1>1, PlaceTaken DEF PlacesLeft
<1>3. n \in Int /\ \A k \in h .. n : s[k] \in L
  BY <1>1, <1>2
<1>4. /\ SubSeq(s, h, n) \in Seq(L) /\ Len(SubSeq(s, h, n)) = IF h <= n THEN n - h + 1 ELSE 0
      /\ \A k \in 1 .. n - h + 1 : SubSeq(s, h, n)[k] = s[h + k - 1]
  BY <1>2, <1>3, SubSeqProperties
<1>5. Len(SubSeq(s, h, n)) = r
  BY <1>2, <1>4
<1>6. \A k \in 1 .. r : SubSeq(s, h, n)[k] = s[i + k]
  BY <1>2, <1>4
<1>7. SubSeq(s, i + 1, Len(s)) = SubSeq(s, h, n) /\ Len(s) - i = r
  OBVIOUS
<1>8. QED
  BY <1>4, <1>5, <1>6, <1>7, Zenon

LEMMA TransactionDeleted ==
  ASSUME NEW txs \in Snapshots, NEW i \in DOMAIN txs
  PROVE  RemoveAt(txs, i) \in Snapshots
<1> PICK n : n = Len(txs)
  OBVIOUS
<1>1. txs \in Seq(SnapshotTxs) /\ n \in Nat /\ DOMAIN txs = 1 .. n /\ i \in 1 .. n
  BY LenProperties DEF Snapshots
<1>2. PICK p, r : p = i - 1 /\ r = n - i /\ PlacesLeft(n, i, p, r)
  BY <1>1, PlaceTaken
<1>3. PICK a : a = SubSeq(txs, 1, p)
  OBVIOUS
<1>4. PICK b : b = SubSeq(txs, i + 1, n)
  OBVIOUS
<1>5. PICK u : u = a \o b
  OBVIOUS
<1>6. a \in Seq(SnapshotTxs) /\ Len(a) = p /\ \A k \in 1 .. p : a[k] = txs[k]
  <2>1. p \in 0 .. Len(txs)
    BY <1>2 DEF PlacesLeft
  <2>2. /\ SubSeq(txs, 1, p) \in Seq(SnapshotTxs) /\ Len(SubSeq(txs, 1, p)) = p
        /\ \A k \in 1 .. p : SubSeq(txs, 1, p)[k] = txs[k]
    BY <1>1, <2>1, Beginning
  <2>3. QED
    BY <1>3, <2>2, Zenon
<1>7. b \in Seq(SnapshotTxs) /\ Len(b) = r /\ \A k \in 1 .. r : b[k] = txs[i + k]
  <2>1. i \in 1 .. Len(txs)
    BY <1>1
  <2>2. /\ SubSeq(txs, i + 1, Len(txs)) \in Seq(SnapshotTxs)
        /\ Len(SubSeq(txs, i + 1, Len(txs))) = Len(txs) - i
        /\ \A k \in 1 .. Len(txs) - i : SubSeq(txs, i + 1, Len(txs))[k] = txs[i + k]
    BY <1>1, <2>1, Rest
  <2>3. b = SubSeq(txs, i + 1, Len(txs)) /\ r = Len(txs) - i
    BY <1>2, <1>4, Zenon
  <2>4. QED
    BY <2>2, <2>3, Zenon
<1>8. u \in Seq(SnapshotTxs) /\ Len(u) = n - 1
  <2>1. a \o b \in Seq(SnapshotTxs) /\ Len(a \o b) = Len(a) + Len(b)
    BY <1>6, <1>7, ConcatProperties
  <2>2. Len(a) + Len(b) = n - 1
    BY <1>2, <1>6, <1>7, Zenon DEF PlacesLeft
  <2>3. QED
    BY <1>5, <2>1, <2>2, Zenon
<1>9. \A k \in 1 .. n - 1 : u[k] = IF k <= p THEN a[k] ELSE b[k - p]
  <2>1. \A k \in 1 .. Len(a) + Len(b) :
          (a \o b)[k] = IF k <= Len(a) THEN a[k] ELSE b[k - Len(a)]
    BY <1>6, <1>7, ConcatProperties
  <2>2. QED
    BY <1>2, <1>5, <1>6, <1>7, <2>1, Zenon DEF PlacesLeft
<1> DEFINE f == [k \in 1 .. n - 1 |-> IF k <= p THEN k ELSE k + 1]
<1>10. ASSUME NEW k \in 1 .. n - 1 PROVE u[k] = txs[f[k]]
  <2>1. CASE k <= p
    <3>1. k \in 1 .. p
      BY <1>2, <2>1 DEF PlacesLeft
    <3>2. QED
      BY <1>6, <1>9, <2>1, <3>1
  <2>2. CASE ~(k <= p)
    <3>1. k - p \in 1 .. r /\ i + (k - p) = k + 1
      BY <1>2, <2>2 DEF PlacesLeft
    <3>2. b[k - p] = txs[k + 1]
      BY <1>7, <3>1
    <3>3. QED
      BY <1>9, <2>2, <3>2
  <2>3. QED
    BY <2>1, <2>2
<1>11. f \in [1 .. n - 1 -> 1 .. n] /\ \A k, l \in 1 .. n - 1 : f[k] = f[l] => k = l
  <2>1. p \in Int /\ n \in Int /\ p <= n
    BY <1>1, <1>2
  <2>2. \A k \in 1 .. n - 1 : f[k] = (IF k <= p THEN k ELSE k + 1)
    OBVIOUS
  <2>3. \A k \in 1 .. n - 1 : f[k] \in 1 .. n
    BY <2>1, <2>2
  <2>4. \A k, l \in 1 .. n - 1 : f[k] = f[l] => k = l
    BY <2>1, <2>2
  <2>5. QED
    BY <2>3, <2>4
<1> HIDE DEF f
<1>12. Rearranges(f, u, n - 1, txs, n)
  BY <1>8, <1>10, <1>11 DEF Rearranges
<1>13. RemoveAt(txs, i) = u
  BY <1>2, <1>3, <1>4, <1>5, Zenon DEF RemoveAt
<1>14. QED
  BY <1>12, <1>13, Rearranged

LEMMA TransactionsTurned ==
  ASSUME NEW txs \in Snapshots, Len(txs) > 1
  PROVE  Append(Tail(txs), Head(txs)) \in Snapshots
<1> PICK n : n = Len(txs)
  OBVIOUS
<1> PICK a : a = Tail(txs)
  OBVIOUS
<1> PICK u : u = Append(a, Head(txs))
  OBVIOUS
<1>1. txs \in Seq(SnapshotTxs) /\ n \in Nat /\ DOMAIN txs = 1 .. n /\ txs # << >>
  BY LenProperties DEF Snapshots
<1>2. /\ Head(txs) \in SnapshotTxs /\ Head(txs) = txs[1]
      /\ a \in Seq(SnapshotTxs) /\ Len(a) = n - 1
      /\ \A k \in 1 .. n - 1 : a[k] = txs[k + 1]
  <2>1. Head(txs) = txs[1]
    BY <1>1
  <2>2. QED
    BY <1>1, <2>1, HeadTailProperties
<1>3. /\ u \in Seq(SnapshotTxs) /\ Len(u) = (n - 1) + 1 /\ u[(n - 1) + 1] = txs[1]
      /\ \A k \in 1 .. n - 1 : u[k] = a[k]
  BY <1>2, AppendProperties
<1>4. (n - 1) + 1 = n /\ Len(u) = n
  BY <1>1, <1>3
<1> DEFINE f == [k \in 1 .. n |-> IF k < n THEN k + 1 ELSE 1]
<1>5. \A k \in 1 .. n : u[k] = txs[f[k]]
  BY <1>1, <1>2, <1>3, <1>4
<1>6. f \in [1 .. n -> 1 .. n] /\ \A k, l \in 1 .. n : f[k] = f[l] => k = l
  BY <1>1
<1> HIDE DEF f
<1>7. Rearranges(f, u, n, txs, n)
  BY <1>3, <1>4, <1>5, <1>6 DEF Rearranges
<1>8. QED
  BY <1>7, Rearranged

(* What is answered is computed of the snapshot that is still there.       *)
SuggestionsInv ==
  /\ snapshot \in Snapshots
  /\ \/ request = Ended
     \/ \E q \in Queries :
          \/ request = Request("query", q, << >>)
          \/ request = Request("answered", q,
                         Aggregate(FindSimilar(q, Documents(snapshot))))

LEMMA SuggestionsStart == SuggestionsInit => SuggestionsInv
<1>1. << >> \in Snapshots
  <2>1. DOMAIN << >> = {} /\ << >> \in Seq(SnapshotTxs)
    OBVIOUS
  <2>2. QED
    BY <2>1 DEF Snapshots
<1>2. QED
  BY <1>1 DEF SuggestionsInit, SuggestionsInv

LEMMA ReplacedStep ==
  ASSUME SuggestionsInv, SnapshotReplaced
  PROVE  SuggestionsInv'
<1>1. snapshot \in Snapshots
  BY DEF SuggestionsInv
<1>2. snapshot' \in Snapshots
  <2>1. ASSUME NEW id \in Ids, NEW kind \in Kinds, ~HasId(snapshot, id),
               snapshot' = Append(snapshot, Identified(id, kind))
        PROVE  snapshot' \in Snapshots
    <3>1. Identified(id, kind) \in SnapshotTxs /\ Identified(id, kind).id = id
      BY IdentifiedTyped
    <3>2. QED
      BY <1>1, <2>1, <3>1, TransactionAdded
  <2>2. ASSUME NEW i \in DOMAIN snapshot, NEW kind \in Kinds,
               snapshot' = [snapshot EXCEPT ![i] = Identified(@.id, kind)]
        PROVE  snapshot' \in Snapshots
    BY <1>1, <2>2, TransactionChanged
  <2>3. ASSUME NEW i \in DOMAIN snapshot, snapshot' = RemoveAt(snapshot, i)
        PROVE  snapshot' \in Snapshots
    BY <1>1, <2>3, TransactionDeleted
  <2>4. ASSUME Len(snapshot) > 1, snapshot' = Append(Tail(snapshot), Head(snapshot))
        PROVE  snapshot' \in Snapshots
    BY <1>1, <2>4, TransactionsTurned
  <2>5. QED
    BY <2>1, <2>2, <2>3, <2>4 DEF SnapshotReplaced
<1>3. \A q : request # Request("answered", q, Aggregate(FindSimilar(q, Documents(snapshot))))
  BY DEF SnapshotReplaced, Request
<1>4. QED
  BY <1>2, <1>3 DEF SuggestionsInv, SnapshotReplaced

LEMMA SuggestionsStep ==
  ASSUME SuggestionsInv, [SuggestionsNext]_suggestionVars
  PROVE  SuggestionsInv'
<1>1. CASE SnapshotReplaced
  BY <1>1, ReplacedStep
<1>2. ASSUME NEW id \in Ids, QueryTaken(id) PROVE SuggestionsInv'
  <2>1. PICK i \in DOMAIN snapshot : request' = Request("query", QueryOf(snapshot[i]), << >>)
    BY <1>2 DEF QueryTaken
  <2>2. snapshot[i] \in SnapshotTxs
    <3>1. snapshot \in Seq(SnapshotTxs)
      BY DEF SuggestionsInv, Snapshots
    <3>2. QED
      BY <3>1, LenProperties, ElementOfSeq
  <2>3. QueryOf(snapshot[i]) \in Queries
    BY <2>2, QueryTyped
  <2>4. QED
    BY <1>2, <2>1, <2>3 DEF QueryTaken, SuggestionsInv
<1>3. CASE CandidatesTaken
  <2>1. PICK q \in Queries : request = Request("query", q, << >>)
    BY <1>3 DEF CandidatesTaken, SuggestionsInv, Ended, Request
  <2>2. request.query = q
    BY <2>1 DEF Request
  <2>3. /\ request' = Request("answered", q, Aggregate(FindSimilar(q, Documents(snapshot))))
        /\ snapshot' = snapshot
    BY <1>3, <2>2 DEF CandidatesTaken
  <2>4. QED
    BY <2>3 DEF SuggestionsInv
<1>4. CASE Ends
  BY <1>4 DEF Ends, SuggestionsInv
<1>5. CASE UNCHANGED suggestionVars
  BY <1>5 DEF suggestionVars, SuggestionsInv
<1>6. QED
  BY <1>1, <1>2, <1>3, <1>4, <1>5 DEF SuggestionsNext

LEMMA SuggestionsInvariant == SuggestionsSpec => []SuggestionsInv
BY SuggestionsStart, SuggestionsStep, PTL DEF SuggestionsSpec

SuggestionsTypeOK ==
  /\ snapshot \in Snapshots
  /\ request \in [st : {"idle", "query", "answered"}, query : Queries \union {None},
                  answer : Seq(SuggestionRecords)]
  /\ request.st # "idle" => request.query \in Queries
  /\ request.st # "answered" => request.answer = << >>

LEMMA AnswersAre ==
  ASSUME SuggestionsInv, request.st = "answered"
  PROVE  /\ request.query \in Queries
         /\ Ranked(request.answer, request.query, SourcesIn(request.query, SeenTxs))
         /\ request.answer \in Seq(SuggestionRecords)
<1>1. PICK q \in Queries :
        request = Request("answered", q, Aggregate(FindSimilar(q, Documents(snapshot))))
  BY DEF SuggestionsInv, Ended, Request
<1>2. /\ request.query = q
      /\ request.answer = Aggregate(FindSimilar(q, Documents(snapshot)))
  BY <1>1 DEF Request
<1>3. snapshot \in Seq(SnapshotTxs) /\ Differ(SeenTxs)
  BY SnapshotsDiffer DEF SuggestionsInv, SeenTxs
<1>4. QED
  BY <1>2, <1>3, AnswerRanked DEF SeenTxs

(* The snapshot holds no identity twice, however often it is replaced, and *)
(* an answer is a list of suggestions: a category, a score, a reason.      *)
THEOREM SuggestionsTypeCorrect == SuggestionsSpec => []SuggestionsTypeOK
<1>1. SuggestionsInv => SuggestionsTypeOK
  <2> SUFFICES ASSUME SuggestionsInv PROVE SuggestionsTypeOK
    OBVIOUS
  <2>1. snapshot \in Snapshots /\ << >> \in Seq(SuggestionRecords)
    BY DEF SuggestionsInv
  <2>2. CASE request = Ended
    BY <2>1, <2>2 DEF Ended, Request, SuggestionsTypeOK
  <2>3. ASSUME NEW q \in Queries, request = Request("query", q, << >>)
        PROVE  SuggestionsTypeOK
    BY <2>1, <2>3 DEF Request, SuggestionsTypeOK
  <2>4. ASSUME NEW q \in Queries, NEW a, request = Request("answered", q, a)
        PROVE  SuggestionsTypeOK
    <3>1. request.st = "answered" /\ request.query = q /\ request.answer = a
      BY <2>4 DEF Request
    <3>2. a \in Seq(SuggestionRecords)
      BY <3>1, AnswersAre
    <3>3. QED
      BY <2>1, <2>4, <3>2 DEF Request, SuggestionsTypeOK
  <2>5. QED
    BY <2>2, <2>3, <2>4 DEF SuggestionsInv
<1>2. QED
  BY <1>1, SuggestionsInvariant, PTL

LEMMA ReferenceIs ==
  ASSUME NEW q
  PROVE  /\ Sources(q) = SourcesIn(q, SeenTxs)
         /\ Reference(q) = Shorts(q, SourcesIn(q, SeenTxs))
<1>1. Sources(q) = SourcesIn(q, SeenTxs)
  BY DEF Sources, SourcesIn, SimilarTo
<1>2. QED
  BY <1>1 DEF Reference, Shorts, OfCategory

(* _aggregate and find_similar, for every snapshot, every query and every  *)
(* similarity of texts: whatever order the snapshot is in, the answer is   *)
(* the beginning of the one ranking of the categories, and every           *)
(* suggestion gives the reason of a best transaction, which shares text    *)
(* with the one asked about.                                               *)
THEOREM SuggestionsAreRankedHolds == SuggestionsSpec => []SuggestionsAreRanked
<1>1. SuggestionsInv => SuggestionsAreRanked
  <2> SUFFICES ASSUME SuggestionsInv, request.st = "answered" PROVE SuggestionsAreRanked
    BY DEF SuggestionsAreRanked
  <2> PICK q : q = request.query
    OBVIOUS
  <2> PICK t : t = request.answer
    OBVIOUS
  <2> PICK Y : Y = SourcesIn(q, SeenTxs)
    OBVIOUS
  <2>1. Ranked(t, q, Y)
    BY AnswersAre
  <2>2. Sources(q) = Y /\ Reference(q) = Shorts(q, Y) /\ Suggested = ToSet(t)
    BY ReferenceIs DEF Suggested
  <2>3. QED
    BY <2>1, <2>2 DEF Ranked, SuggestionsAreRanked, Short, Rests, IsBest
<1>2. QED
  BY <1>1, SuggestionsInvariant, PTL

=============================================================================
