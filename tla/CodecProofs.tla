----------------------------- MODULE CodecProofs -----------------------------
(***************************************************************************)
(* The layout of an object in its source block, for objects and symbols of *)
(* every length, and the mapping between payload ESIs and coded ids, for   *)
(* every block size.                                                       *)
(***************************************************************************)
EXTENDS Codec, SequencesExt, SequenceTheorems, WellFoundedInduction, TLAPS

-----------------------------------------------------------------------------
(* Induction, for facts about recursive functions.                         *)

\* Every set of naturals with an element has a least one.
LEMMA LeastNatural ==
    ASSUME NEW T \in SUBSET Nat, T # {}
    PROVE  \E n \in T : \A m \in T : n <= m
<1> DEFINE R == {ss \in Nat \X Nat : ss[1] < ss[2]}
<1>1. IsWellFoundedOn(R, Nat)
  BY NatLessThanWellFounded DEF OpToRel
<1>2. PICK n \in T : \A m \in T : <<m, n>> \notin R
  BY <1>1, WFMin
<1>3. ASSUME NEW m \in T PROVE n <= m
  <2>1. ~(m < n)
    <3> SUFFICES ASSUME m < n PROVE FALSE
      OBVIOUS
    <3>1. <<m, n>> \in Nat \X Nat /\ <<m, n>>[1] < <<m, n>>[2]
      OBVIOUS
    <3> QED BY <3>1, <1>2
  <2> QED BY <2>1
<1> QED BY <1>3

\* Induction over the naturals, with a set in place of the predicate.
LEMMA SetInduction ==
    ASSUME NEW S, 0 \in S, \A n \in Nat : n \in S => n + 1 \in S
    PROVE  Nat \subseteq S
<1> SUFFICES ASSUME Nat \ S # {} PROVE FALSE
  OBVIOUS
<1>1. PICK n \in Nat \ S : \A m \in Nat \ S : n <= m
  BY LeastNatural
<1>2. n # 0
  OBVIOUS
<1>3. n - 1 \in Nat /\ (n - 1) + 1 = n
  BY <1>2
<1>4. n - 1 \in S
  BY <1>3, <1>1
<1>5. (n - 1) + 1 \in S
  BY <1>3, <1>4
<1>6. n \in S
  BY <1>3, <1>5
<1> QED BY <1>6

\* Every non-empty set of naturals with a bound has a greatest one.
LEMMA GreatestNatural ==
    ASSUME NEW n \in Nat, NEW T \in SUBSET (0..n), T # {}
    PROVE  /\ Max(T) \in T
           /\ \A m \in T : Max(T) >= m
<1> DEFINE D == {n - m : m \in T}
<1>1. D \in SUBSET Nat /\ D # {}
  <2>1. ASSUME NEW m \in T PROVE n - m \in Nat
    <3>1. m \in 0..n
      OBVIOUS
    <3> QED BY <3>1
  <2>2. PICK m \in T : TRUE
    OBVIOUS
  <2>3. n - m \in D
    OBVIOUS
  <2> QED BY <2>1, <2>3
<1>2. PICK d \in D : \A e \in D : d <= e
  <2> HIDE DEF D
  <2> QED BY <1>1, LeastNatural
<1>3. PICK x \in T : d = n - x
  BY <1>2
<1>4. ASSUME NEW m \in T PROVE x >= m
  <2>1. n - m \in D
    OBVIOUS
  <2>2. n - x <= n - m
    BY <1>2, <1>3, <2>1
  <2>3. n \in Nat /\ m \in Nat /\ x \in Nat
    OBVIOUS
  <2> HIDE DEF D
  <2> QED BY <2>2, <2>3
<1> QED BY <1>3, <1>4 DEF Max

\* More blocks of the same size are at least as long.
LEMMA ProductMonotonic ==
    ASSUME NEW i \in Nat, NEW n \in Nat, NEW t \in Nat, i <= n
    PROVE  i * t <= n * t
<1>1. PICK d \in Nat : n = i + d
  <2>1. n - i \in Nat /\ n = i + (n - i)
    OBVIOUS
  <2> QED BY <2>1
<1>2. n * t = i * t + d * t /\ d * t \in Nat /\ i * t \in Nat
  BY <1>1
<1> QED BY <1>2

\* Joining the blocks of t elements a sequence was cut into gives the sequence back.
LEMMA FlattenBlocks ==
    ASSUME NEW S, NEW whole \in Seq(S), NEW n \in Nat, NEW t \in Nat, Len(whole) = n * t
    PROVE  FlattenSeq([i \in 1..n |-> SubSeq(whole, (i - 1) * t + 1, i * t)]) = whole
<1> DEFINE blocks == [i \in 1..n |-> SubSeq(whole, (i - 1) * t + 1, i * t)]
<1> DEFINE front == [i \in 1..n |-> SubSeq(whole, 1, i * t)]
<1> DEFINE Equation(f) ==
        f = [i \in 1..n |-> IF i = 1 THEN blocks[i] ELSE f[i - 1] \o blocks[i]]
<1>1. Len(blocks) = n
  OBVIOUS
<1>2. CASE n = 0
  <2>1. whole = <<>> /\ blocks = <<>>
    BY <1>2
  <2> QED BY <1>1, <1>2, <2>1 DEF FlattenSeq
<1>3. CASE n # 0
  <2>1. ASSUME NEW i \in 2..n
        PROVE  SubSeq(whole, 1, (i - 1) * t) \o SubSeq(whole, (i - 1) * t + 1, i * t)
               = SubSeq(whole, 1, i * t)
    <3> DEFINE a == (i - 1) * t
    <3> DEFINE b == i * t
    <3>1. a \in Nat /\ b = a + t /\ b <= n * t
      <4>2. i * t <= n * t
        BY ProductMonotonic
      <4>3. i * t = (i - 1) * t + t /\ (i - 1) * t \in Nat
        OBVIOUS
      <4> QED BY <4>2, <4>3
    <3> HIDE DEF a, b
    <3>2. a \in 0..Len(whole) /\ b \in a..Len(whole) /\ 1 \in 1..(Len(whole) + 1)
      BY <3>1
    <3>3. SubSeq(whole, 1, a) \o SubSeq(whole, a + 1, b) = SubSeq(whole, 1, b)
      BY <3>2, ConcatAdjacentSubSeq
    <3> QED BY <3>3 DEF a, b
  <2>2. Equation(front)
    <3>1. ASSUME NEW i \in 1..n
          PROVE  front[i] = IF i = 1 THEN blocks[i] ELSE front[i - 1] \o blocks[i]
      <4>1. CASE i = 1
        BY <4>1
      <4>2. CASE i # 1
        <5>1. i \in 2..n /\ i - 1 \in 1..n
          BY <4>2
        <5> QED BY <4>2, <5>1, <2>1
      <4> QED BY <4>1, <4>2
    <3> QED BY <3>1
  <2> DEFINE flatten == CHOOSE f : Equation(f)
  <2>3. Equation(flatten)
    <3> HIDE DEF Equation
    <3> QED BY <2>2
  <2>4. FlattenSeq(blocks) = flatten[n]
    BY <1>1, <1>3 DEF FlattenSeq
  <2> HIDE DEF flatten
  <2>5. \A i \in 1..n :
           flatten[i] = IF i = 1 THEN blocks[i] ELSE flatten[i - 1] \o blocks[i]
    BY <2>3
  <2>6. \A i \in 1..n : front[i] = IF i = 1 THEN blocks[i] ELSE front[i - 1] \o blocks[i]
    BY <2>2
  <2> HIDE DEF front, blocks
  <2> DEFINE Good == {i \in Nat : i \in 1..n => flatten[i] = front[i]}
  <2>7. ASSUME NEW i \in Nat, i \in Good
        PROVE  i + 1 \in Good
    <3> SUFFICES ASSUME i + 1 \in 1..n PROVE flatten[i + 1] = front[i + 1]
      OBVIOUS
    <3>1. CASE i = 0
      BY <3>1, <2>5, <2>6
    <3>2. CASE i # 0
      <4>1. i \in 1..n /\ i + 1 # 1 /\ (i + 1) - 1 = i
        BY <3>2
      <4>2. flatten[i] = front[i]
        BY <4>1, <2>7
      <4> QED BY <4>1, <4>2, <2>5, <2>6
    <3> QED BY <3>1, <3>2
  <2>8. Nat \subseteq Good
    <3>1. 0 \in Good
      OBVIOUS
    <3> HIDE DEF Good
    <3> QED BY <3>1, <2>7, SetInduction
  <2>10. flatten[n] = front[n]
    BY <1>3, <2>8
  <2>9. front[n] = whole
    BY <1>3, SubSeqFull DEF front
  <2> QED BY <2>4, <2>9, <2>10 DEF blocks
<1> QED BY <1>2, <1>3

-----------------------------------------------------------------------------
(* The layout. *)

\* Division by a positive number: quotient, remainder and what they add up to.
LEMMA DivMod ==
    ASSUME NEW a \in Nat, NEW t \in Nat \ {0}
    PROVE  /\ a \div t \in Nat
           /\ a % t \in 0..(t - 1)
           /\ a = (a \div t) * t + (a % t)
BY Z3

\* K symbols hold the object and K - 1 do not: calc_k rounds up, never too far.
THEOREM CalcKTight ==
    ASSUME NEW length \in Nat \ {0}, NEW t \in Nat \ {0}
    PROVE  /\ calc_k(length, t) \in Nat \ {0}
           /\ calc_k(length, t) * t >= length
           /\ (calc_k(length, t) - 1) * t < length
<1> DEFINE a == length + t - 1
<1> DEFINE k == calc_k(length, t)
<1>1. a \in Nat /\ a >= t /\ k = a \div t
  BY DEF calc_k
<1>2. /\ k \in Nat
      /\ a % t \in 0..(t - 1)
      /\ a = k * t + (a % t)
  BY <1>1, DivMod
<1> HIDE DEF k
<1>3. k # 0
  BY <1>1, <1>2
<1>4. (k - 1) * t = k * t - t
  BY <1>2
<1>5. k * t >= length /\ k * t <= length + t - 1
  BY <1>2
<1>6. (k - 1) * t < length
  BY <1>2, <1>4, <1>5
<1> QED BY <1>2, <1>3, <1>5, <1>6 DEF k

\* A position inside k symbols lies in one of them.
LEMMA SymbolIndex ==
    ASSUME NEW a \in Nat, NEW t \in Nat \ {0}, NEW k \in Nat, a < k * t
    PROVE  a \div t \in 0..(k - 1)
<1> DEFINE q == a \div t
<1>1. q \in Nat /\ q * t <= a
  BY DivMod
<1> HIDE DEF q
<1>2. SUFFICES ASSUME q >= k PROVE FALSE
  BY <1>1 DEF q
<1>3. PICK d \in Nat : q = k + d
  <2>1. q - k \in Nat /\ q = k + (q - k)
    BY <1>1, <1>2
  <2> QED BY <2>1
<1>4. q * t = k * t + d * t /\ d * t >= 0
  BY <1>3
<1> QED BY <1>1, <1>4

\* The m-th byte of the j-th symbol is byte (j - 1) * t + m of the padded object.
LEMMA SplitByte ==
    ASSUME NEW S, NEW padded \in Seq(S), NEW k \in Nat, NEW t \in Nat \ {0},
           Len(padded) = k * t, NEW j \in 1..k, NEW m \in 1..t
    PROVE  split_into_symbols(padded, k, t)[j][m] = padded[(j - 1) * t + m]
<1>1. split_into_symbols(padded, k, t)[j] = SubSeq(padded, (j - 1) * t + 1, j * t)
  BY DEF split_into_symbols
<1>2. (j - 1) * t \in Nat /\ j * t = (j - 1) * t + t /\ j * t \in Nat
  BY Z3
<1>3. j * t <= k * t
  BY ProductMonotonic
<1> DEFINE a == (j - 1) * t
<1> DEFINE b == j * t
<1>4. a \in Nat /\ b = a + t /\ b \in Nat /\ b <= Len(padded)
  BY <1>2, <1>3
<1> HIDE DEF a, b
<1>5. SubSeq(padded, a + 1, b)[m] = padded[a + m]
  BY <1>4
<1> QED BY <1>1, <1>5 DEF a, b

\* Padding, splitting, assembling and truncating give the object back, whatever its length
\* and the symbol size: the tail symbol's padding never shows, and no byte is lost.
THEOREM LayoutRoundTrip ==
    ASSUME NEW S, 0 \in S, NEW object \in Seq(S), Len(object) > 0, NEW t \in Nat \ {0}
    PROVE  LET k == calc_k(Len(object), t)
           IN  assemble_payload_from_symbols(
                   split_into_symbols(pad_object_to_k_symbols(object, k, t), k, t),
                   Len(object), t) = object
<1> DEFINE L == Len(object)
<1> DEFINE k == calc_k(L, t)
<1> DEFINE padding == [i \in 1..(k * t - L) |-> 0]
<1> DEFINE padded == object \o padding
<1> DEFINE symbols == split_into_symbols(padded, k, t)
<1>1. L \in Nat \ {0}
  OBVIOUS
<1> HIDE DEF L
<1>tight. k \in Nat \ {0} /\ k * t >= L
  BY <1>1, CalcKTight
<1> HIDE DEF k
<1>2. k \in Nat \ {0} /\ k * t >= L /\ k * t \in Nat
  BY <1>tight
<1> USE DEF L
<1>3. padding \in Seq(S) /\ Len(padding) = k * t - L
  BY <1>1, <1>2
<1> HIDE DEF padding
<1>4. padded \in Seq(S) /\ Len(padded) = k * t /\ \A i \in 1..L : padded[i] = object[i]
  BY <1>1, <1>2, <1>3
<1> HIDE DEF padded
<1>5. Len(symbols) = k
  BY <1>2 DEF split_into_symbols
<1>bytes. \A j \in 1..k, m \in 1..t : symbols[j][m] = padded[(j - 1) * t + m]
  BY <1>2, <1>4, SplitByte
<1> HIDE DEF symbols
<1>6. ASSUME NEW i \in 1..L
      PROVE  symbols[(i - 1) \div t + 1][((i - 1) % t) + 1] = object[i]
  <2> DEFINE q == (i - 1) \div t
  <2> DEFINE r == (i - 1) % t
  <2>1. i - 1 \in Nat /\ i - 1 < k * t
    BY <1>1, <1>2
  <2>2. q \in 0..(k - 1)
    BY <1>2, <2>1, SymbolIndex
  <2>3. r \in 0..(t - 1) /\ i - 1 = q * t + r
    BY <2>1, DivMod
  <2> HIDE DEF q, r
  <2>4. q + 1 \in 1..k /\ r + 1 \in 1..t
    BY <1>2, <2>2, <2>3
  <2>5. symbols[q + 1][r + 1] = padded[((q + 1) - 1) * t + (r + 1)]
    BY <1>bytes, <2>4
  <2>6. ((q + 1) - 1) * t + (r + 1) = i
    <3>1. (q + 1) - 1 = q
      BY <2>2
    <3>2. q * t \in Nat
      BY <2>2, <1>2
    <3>3. q * t + (r + 1) = i
      BY <2>3, <3>2
    <3> QED BY <3>1, <3>3
  <2> QED BY <1>4, <2>5, <2>6 DEF q, r
<1>7. assemble_payload_from_symbols(symbols, L, t) =
          [i \in 1..L |-> symbols[(i - 1) \div t + 1][((i - 1) % t) + 1]]
  <2>1. (IF L < k * t THEN L ELSE k * t) = L
    BY <1>1, <1>2
  <2> QED BY <1>5, <2>1 DEF assemble_payload_from_symbols
<1>8. assemble_payload_from_symbols(symbols, L, t) = [i \in 1..L |-> object[i]]
  BY <1>6, <1>7
<1>9. object = [i \in 1..L |-> object[i]]
  OBVIOUS
<1>10. symbols = split_into_symbols(pad_object_to_k_symbols(object, k, t), k, t)
  BY DEF symbols, padded, padding, pad_object_to_k_symbols
<1> QED BY <1>8, <1>9, <1>10 DEF k

-----------------------------------------------------------------------------
\* The engine's block of K symbols: K and num_total are naturals, K the smaller.
LEMMA BlockType ==
    ASSUME NEW spec \in TransferSpec, num_source(spec) \in BlockSizes
    PROVE  /\ num_source(spec) \in Nat
           /\ NumTotal(spec.codec.kind, num_source(spec)) \in Nat
           /\ num_source(spec) <= NumTotal(spec.codec.kind, num_source(spec))
<1>1. spec.codec.kind \in CodecKind
  BY DEF TransferSpec
<1> QED
  BY <1>1, EngineAssumption

\* The ESI a repair symbol is sent under leads the decoder back to its coded id: for every
\* K, K' and number of repair symbols the two halves of each codec agree.
THEOREM RepairEsiNamesSymbol ==
    ASSUME NEW spec \in TransferSpec, num_source(spec) \in BlockSizes, NEW j \in Nat
    PROVE  coded_id_of(spec, repair_esi(spec, j)) = repair_coded_id(spec, j)
<1>1. /\ num_source(spec) \in Nat
      /\ NumTotal(spec.codec.kind, num_source(spec)) \in Nat
  BY BlockType
<1>2. CASE spec.codec.kind = "RaptorQ"
  <2>1. repair_esi(spec, j) = num_source(spec) + j
    BY <1>2 DEF repair_esi, repair_payload_esi
  <2>2. payload_esi_to_coded_id(num_source(spec) + j, num_source(spec),
                                NumTotal("RaptorQ", num_source(spec)))
        = NumTotal("RaptorQ", num_source(spec)) + j
    BY <1>1, <1>2 DEF payload_esi_to_coded_id, repair_index_from_payload_esi
  <2> QED
    BY <1>2, <2>1, <2>2 DEF coded_id_of, repair_coded_id
<1>3. CASE spec.codec.kind # "RaptorQ"
  BY <1>3 DEF coded_id_of, repair_esi
<1> QED
  BY <1>2, <1>3

\* No two ESIs of a block are filed under the same coded id: a packet is never taken for
\* a duplicate of another.
THEOREM CodedIdsDistinct ==
    ASSUME NEW spec \in TransferSpec, num_source(spec) \in BlockSizes,
           NEW e1 \in Nat, NEW e2 \in Nat, coded_id_of(spec, e1) = coded_id_of(spec, e2)
    PROVE  e1 = e2
<1>1. /\ num_source(spec) \in Nat
      /\ NumTotal(spec.codec.kind, num_source(spec)) \in Nat
      /\ num_source(spec) <= NumTotal(spec.codec.kind, num_source(spec))
  BY BlockType
<1>2. CASE spec.codec.kind = "RaptorQ"
  BY <1>1, <1>2 DEF coded_id_of, payload_esi_to_coded_id, repair_index_from_payload_esi
<1>3. CASE spec.codec.kind # "RaptorQ"
  BY <1>3 DEF coded_id_of
<1> QED
  BY <1>2, <1>3
=============================================================================
