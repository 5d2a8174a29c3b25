----------------------------- MODULE SenderProofs -----------------------------
(***************************************************************************)
(* Theorems about Sender, for every set of senders, jobs and codes.        *)
(***************************************************************************)
EXTENDS Sender, CodecProofs, FiniteSetTheorems

-----------------------------------------------------------------------------
(* What a sender computes before it sends. *)

spec(s) == Job[s].spec
source_k(s) == num_source(spec(s))
repairs(s) == Job[s].repair_rounds * Job[s].repair_count

\* The packet of the encoder that is sent as the i-th.
encoder_packet(s, i) ==
    IF i <= source_k(s) THEN source_packets(spec(s), Job[s].object)[i]
    ELSE repair_packets(spec(s), Job[s].object, 0, repairs(s))[i - source_k(s)]

\* The coded id of the symbol it carries.
coded_id_at(s, i) ==
    IF i <= source_k(s) THEN i - 1 ELSE repair_coded_id(spec(s), i - source_k(s) - 1)

\* Every packet is of source block 0.
EncoderPacket == [sbn : {0}, esi : Nat, symbol : Symbol]

LEMMA JobFacts ==
    ASSUME NEW s \in Senders
    PROVE  /\ spec(s) \in TransferSpec
           /\ spec(s).symbol_size_t \in Nat /\ spec(s).transfer_length_f \in Nat
           /\ spec(s).codec.kind \in CodecKind /\ spec(s).codec.tuning \in Tunings
           /\ Job[s].object \in Objects /\ Job[s].session_id \in SessionIds
           /\ Job[s].progress \in BOOLEAN
           /\ repairs(s) \in Nat
           /\ Job[s].repair_count \in Nat /\ Job[s].repair_rounds \in Nat
<1>1. Job[s] \in JobType
  BY JobAssumption
<1>2. /\ spec(s) \in TransferSpec
      /\ Job[s].repair_count \in Nat /\ Job[s].repair_rounds \in Nat
      /\ Job[s].object \in Objects /\ Job[s].session_id \in SessionIds
      /\ Job[s].progress \in BOOLEAN
  BY <1>1 DEF JobType, spec
<1>3. repairs(s) \in Nat
  BY <1>2 DEF repairs
<1> QED
  BY <1>2, <1>3 DEF TransferSpec

LEMMA BlockFacts ==
    ASSUME NEW s \in Senders, encodable(s)
    PROVE  /\ spec(s).symbol_size_t \in Nat \ {0}
           /\ spec(s).transfer_length_f \in Nat \ {0}
           /\ ObjectLen[Job[s].object] = spec(s).transfer_length_f
           /\ validate_spec(spec(s)) = "Ok"
           /\ source_k(s) \in BlockSizes
           /\ source_k(s) \in Nat \ {0}
           /\ NumTotal(spec(s).codec.kind, source_k(s)) \in Nat
           /\ source_k(s) <= NumTotal(spec(s).codec.kind, source_k(s))
<1>1. /\ validate_spec(spec(s)) = "Ok"
      /\ ObjectLen[Job[s].object] = spec(s).transfer_length_f
  BY DEF encodable, encoder_error, spec
<1>2. /\ spec(s).symbol_size_t \in Nat \ {0}
      /\ spec(s).transfer_length_f \in Nat \ {0}
  BY <1>1, JobFacts DEF validate_spec, validate_dimensions
<1>3. source_k(s) \in Nat \ {0}
  BY <1>2, CalcKTight DEF source_k, num_source
<1>4. source_k(s) \in BlockSizes
  BY SizeAssumption DEF source_k, spec
<1> QED
  BY <1>1, <1>2, <1>3, <1>4, JobFacts, BlockType DEF source_k

\* The symbol of a coded id has the type of a symbol.
LEMMA EncodedSymbolType ==
    ASSUME NEW s \in Senders, NEW id \in Nat
    PROVE  EncodedSymbol(spec(s), Job[s].object, id) \in Symbol
BY JobFacts, CodecAssumption DEF EncodedSymbol, Symbol, Systematic, TransferSpec

LEMMA RepairPacketType ==
    ASSUME NEW s \in Senders, encodable(s), NEW j \in Nat
    PROVE  /\ repair_esi(spec(s), j) \in Nat
           /\ repair_coded_id(spec(s), j) \in Nat
BY BlockFacts DEF repair_esi, repair_coded_id, repair_payload_esi, source_k

LEMMA SourceType ==
    ASSUME NEW s \in Senders, encodable(s)
    PROVE  /\ source[s] = source_packets(spec(s), Job[s].object)
           /\ source[s] \in Seq(EncoderPacket)
           /\ Len(source[s]) = source_k(s)
<1>1. source[s] = source_packets(spec(s), Job[s].object)
  BY DEF source, spec
<1>2. ASSUME NEW i \in 1..source_k(s)
      PROVE  [sbn |-> 0, esi |-> i - 1,
              symbol |-> EncodedSymbol(spec(s), Job[s].object, i - 1)] \in EncoderPacket
  <2>1. i - 1 \in Nat
    BY BlockFacts
  <2> QED BY <2>1, EncodedSymbolType DEF EncoderPacket
<1>3. source[s] \in Seq(EncoderPacket) /\ Len(source[s]) = source_k(s)
  BY <1>1, <1>2, BlockFacts DEF source_packets, source_k
<1> QED BY <1>1, <1>3

\* The rounds of repair packets are one run of them, without a gap or an overlap.
LEMMA RepairRounds ==
    ASSUME NEW s \in Senders, encodable(s)
    PROVE  /\ repair[s] = repair_packets(spec(s), Job[s].object, 0, repairs(s))
           /\ repair[s] \in Seq(EncoderPacket)
           /\ Len(repair[s]) = repairs(s)
           /\ \A i \in 1..repairs(s) :
                 repair[s][i] = [sbn |-> 0, esi |-> repair_esi(spec(s), i - 1),
                                 symbol |-> EncodedSymbol(spec(s), Job[s].object,
                                                          repair_coded_id(spec(s), i - 1))]
<1> DEFINE rounds == Job[s].repair_rounds
           count == Job[s].repair_count
           all == repair_packets(spec(s), Job[s].object, 0, repairs(s))
           round(r) == repair_packets(spec(s), Job[s].object, round_start(r - 1, count), count)
<1>1. rounds \in Nat /\ count \in Nat /\ repairs(s) \in Nat
  BY JobFacts
<1>2. repair[s] = FlattenSeq([r \in 1..rounds |-> round(r)])
  BY DEF repair, spec
<1>3. ASSUME NEW i \in 1..repairs(s)
      PROVE  /\ all[i] = [sbn |-> 0, esi |-> repair_esi(spec(s), i - 1),
                          symbol |-> EncodedSymbol(spec(s), Job[s].object,
                                                   repair_coded_id(spec(s), i - 1))]
             /\ all[i] \in EncoderPacket
  <2>1. i - 1 \in Nat /\ 0 + i - 1 = i - 1
    BY <1>1
  <2>2. all[i] = [sbn |-> 0, esi |-> repair_esi(spec(s), i - 1),
                  symbol |-> EncodedSymbol(spec(s), Job[s].object,
                                           repair_coded_id(spec(s), i - 1))]
    BY <2>1 DEF repair_packets
  <2> QED BY <2>1, <2>2, RepairPacketType, EncodedSymbolType DEF EncoderPacket
<1>4. all \in Seq(EncoderPacket) /\ Len(all) = repairs(s)
  BY <1>1, <1>3 DEF repair_packets
<1>5. ASSUME NEW r \in 1..rounds
      PROVE  round(r) = SubSeq(all, (r - 1) * count + 1, r * count)
  <2> DEFINE a == (r - 1) * count
             b == r * count
  <2>1. a \in Nat /\ b = a + count
    BY <1>1
  <2>2. b <= repairs(s)
    BY <1>1, ProductMonotonic DEF repairs
  <2>3. round_start(r - 1, count) = a
    BY DEF round_start
  <2> HIDE DEF a, b
  <2>4. ASSUME NEW i \in 1..count
        PROVE  /\ a + i \in 1..repairs(s)
               /\ a + i - 1 = (a + i) - 1
    BY <2>1, <2>2, <1>1
  <2>5. round(r) = [i \in 1..count |-> all[a + i]]
    <3>1. ASSUME NEW i \in 1..count
          PROVE  [sbn |-> 0, esi |-> repair_esi(spec(s), a + i - 1),
                  symbol |-> EncodedSymbol(spec(s), Job[s].object,
                                           repair_coded_id(spec(s), a + i - 1))] = all[a + i]
      BY <2>4, <1>3
    <3> HIDE DEF all
    <3> QED BY <2>3, <3>1 DEF repair_packets
  <2>6. SubSeq(all, a + 1, b) = [i \in 1..count |-> all[a + i]]
    <3> HIDE DEF all
    <3> QED BY <2>1, <2>2, <1>1, <1>4
  <2> QED BY <2>5, <2>6 DEF a, b
<1>elements. \A i \in 1..repairs(s) :
        all[i] = [sbn |-> 0, esi |-> repair_esi(spec(s), i - 1),
                  symbol |-> EncodedSymbol(spec(s), Job[s].object,
                                           repair_coded_id(spec(s), i - 1))]
  BY <1>3
<1> HIDE DEF all, round
<1>6. Len(all) = rounds * count
  BY <1>4 DEF repairs
<1>7. FlattenSeq([r \in 1..rounds |-> round(r)]) = all
  <2>1. [r \in 1..rounds |-> round(r)]
            = [r \in 1..rounds |-> SubSeq(all, (r - 1) * count + 1, r * count)]
    BY <1>5
  <2> HIDE DEF rounds, count
  <2>2. FlattenSeq([r \in 1..rounds |-> SubSeq(all, (r - 1) * count + 1, r * count)]) = all
    BY <1>1, <1>4, <1>6, FlattenBlocks
  <2> QED BY <2>1, <2>2
<1> QED BY <1>2, <1>4, <1>7, <1>elements DEF all

\* The packets in order: every one carries the symbol the plan has in its place, under an ESI
\* that names it if it fits.
LEMMA PacketsAsPlanned ==
    ASSUME NEW s \in Senders, encodable(s)
    PROVE  /\ packets[s] \in Seq(Packet)
           /\ Len(packets[s]) = source_k(s) + repairs(s)
           /\ \A i \in 1..Len(packets[s]) :
                 /\ planned(s)[i] = encoder_packet(s, i)
                 /\ packets[s][i] = packet_message(Job[s].session_id, encoder_packet(s, i))
                 /\ coded_id_at(s, i) \in Nat
                 /\ packets[s][i].symbol = EncodedSymbol(spec(s), Job[s].object, coded_id_at(s, i))
                 /\ packets[s][i].session_id = Job[s].session_id
                 /\ packets[s][i].type = "Packet"
                 /\ packets[s][i].esi \in Nat
                 /\ planned(s)[i].esi < U32 =>
                       coded_id_of(spec(s), packets[s][i].esi) = coded_id_at(s, i)
<1> DEFINE k == source_k(s)
           n == repairs(s)
           all == planned(s)
           id == Job[s].session_id
<1>1. k \in Nat /\ n \in Nat /\ id \in SessionIds
  BY BlockFacts, JobFacts
<1>2. /\ all \in Seq(EncoderPacket) /\ Len(all) = k + n
      /\ \A i \in 1..(k + n) : all[i] = encoder_packet(s, i)
  <2>1. /\ source[s] \in Seq(EncoderPacket) /\ Len(source[s]) = k
        /\ repair[s] \in Seq(EncoderPacket) /\ Len(repair[s]) = n
    BY SourceType, RepairRounds
  <2>2. /\ all \in Seq(EncoderPacket) /\ Len(all) = Len(source[s]) + Len(repair[s])
        /\ \A i \in 1..(Len(source[s]) + Len(repair[s])) :
              all[i] = IF i <= Len(source[s]) THEN source[s][i] ELSE repair[s][i - Len(source[s])]
    BY <2>1, ConcatProperties DEF planned
  <2> QED BY <2>1, <2>2, SourceType, RepairRounds DEF encoder_packet
<1>3. packets[s] = [i \in 1..(k + n) |-> packet_message(id, all[i])]
  BY <1>2 DEF packets
<1>4. ASSUME NEW i \in 1..(k + n)
      PROVE  /\ planned(s)[i] = encoder_packet(s, i)
             /\ packets[s][i] = packet_message(id, encoder_packet(s, i))
             /\ packets[s][i] \in Packet
             /\ coded_id_at(s, i) \in Nat
             /\ packets[s][i].symbol = EncodedSymbol(spec(s), Job[s].object, coded_id_at(s, i))
             /\ packets[s][i].session_id = id
             /\ packets[s][i].type = "Packet"
             /\ packets[s][i].esi \in Nat
             /\ planned(s)[i].esi < U32 =>
                   coded_id_of(spec(s), packets[s][i].esi) = coded_id_at(s, i)
  <2> DEFINE p == encoder_packet(s, i)
  <2>1. p = all[i] /\ packets[s][i] = packet_message(id, p)
    BY <1>2, <1>3
  <2>2. /\ p \in EncoderPacket
        /\ p.symbol = EncodedSymbol(spec(s), Job[s].object, coded_id_at(s, i))
        /\ coded_id_at(s, i) \in Nat
        /\ p.esi \in Nat /\ p.sbn = 0
        /\ coded_id_of(spec(s), p.esi) = coded_id_at(s, i)
    <3>1. CASE i <= k
      <4>1. i \in 1..k
        BY <1>1, <3>1
      <4>2. p = source[s][i] /\ p \in EncoderPacket
        BY <1>1, <3>1, <4>1, SourceType DEF encoder_packet
      <4>3. p = [sbn |-> 0, esi |-> i - 1,
                 symbol |-> EncodedSymbol(spec(s), Job[s].object, i - 1)]
        BY <4>1, <4>2, SourceType DEF source_packets, source_k
      <4>4. coded_id_of(spec(s), i - 1) = i - 1
        BY <1>1, <4>1, BlockFacts DEF coded_id_of, payload_esi_to_coded_id, source_k
      <4> QED BY <4>1, <4>2, <4>3, <4>4 DEF coded_id_at
    <3>2. CASE ~(i <= k)
      <4> DEFINE j == i - k - 1
      <4>1. i - k \in 1..n /\ j \in Nat /\ (i - k) - 1 = j
        BY <1>1, <3>2
      <4>2. p = repair[s][i - k] /\ p \in EncoderPacket
        BY <1>1, <3>2, <4>1, RepairRounds DEF encoder_packet
      <4>3. p = [sbn |-> 0, esi |-> repair_esi(spec(s), j),
                 symbol |-> EncodedSymbol(spec(s), Job[s].object,
                                          repair_coded_id(spec(s), j))]
        BY <4>1, <4>2, RepairRounds
      <4>4. coded_id_of(spec(s), repair_esi(spec(s), j)) = repair_coded_id(spec(s), j)
        BY <4>1, JobFacts, BlockFacts, RepairEsiNamesSymbol DEF source_k
      <4>5. coded_id_at(s, i) = repair_coded_id(spec(s), j)
        BY <3>2 DEF coded_id_at
      <4> HIDE DEF j
      <4> QED BY <4>1, <4>2, <4>3, <4>4, <4>5, RepairPacketType
    <3> QED BY <3>1, <3>2
  <2> HIDE DEF p
  <2> DEFINE m == packet_message(id, p)
  <2>3. p.esi % U32 \in 0..(U32 - 1) /\ p.sbn \in 0..(U32 - 1)
    BY <2>2, WidthAssumption, DivMod
  <2>4. p.esi < U32 => p.esi % U32 = p.esi
    BY <2>2, WidthAssumption
  <2>5. m \in Packet
    BY <1>1, <2>2, <2>3 DEF packet_message, Packet, EncoderPacket, WIRE_VERSION
  <2>6. m.symbol = p.symbol /\ m.session_id = id /\ m.type = "Packet" /\ m.esi = p.esi % U32
    BY DEF packet_message
  <2>7. m.esi \in Nat /\ (p.esi < U32 => coded_id_of(spec(s), m.esi) = coded_id_at(s, i))
    BY <2>2, <2>3, <2>4, <2>6, WidthAssumption
  <2>8. packets[s][i] = m /\ m = packet_message(id, encoder_packet(s, i))
    BY <2>1 DEF p
  <2>9. planned(s)[i] = p /\ p = encoder_packet(s, i)
    BY <2>1 DEF p
  <2> HIDE DEF m
  <2> QED BY <2>2, <2>5, <2>6, <2>7, <2>8, <2>9
<1> HIDE DEF k, n, all, id
<1>5. packets[s] \in Seq(Packet) /\ Len(packets[s]) = k + n
  BY <1>1, <1>3, <1>4
<1> QED BY <1>4, <1>5 DEF k, n, id

LEMMA MetaType ==
    ASSUME NEW s \in Senders
    PROVE  meta[s] \in SessionMeta
<1>1. U16 \in Nat \ {0}
  BY DEF U16
<1>3. spec(s).symbol_size_t % U16 \in 0..(U16 - 1)
  BY <1>1, JobFacts, DivMod
<1>2. meta[s] = session_meta_from_spec(Job[s].session_id, spec(s))
  BY DEF meta, spec
<1> QED
  BY <1>2, <1>3, JobFacts DEF session_meta_from_spec, SessionMeta, WIRE_VERSION, codec_id

\* The sum of the lengths of messages of one length.
LEMMA SumOfEqualLengths ==
    ASSUME NEW S, NEW seq \in Seq(S), NEW length \in Nat,
           \A i \in 1..Len(seq) : encoded_len(seq[i]) = length
    PROVE  FoldLeft(LAMBDA n, p : n + encoded_len(p), 0, seq) = Len(seq) * length
<1> DEFINE D == DOMAIN seq
           Equation(f) == f = [T \in SUBSET D |->
                IF T = {} THEN 0 ELSE f[T \ {Max(T)}] + encoded_len(seq[Max(T)])]
           sums == [T \in SUBSET D |-> Cardinality(T) * length]
           iter == CHOOSE f : Equation(f)
<1>1. Len(seq) \in Nat /\ D = 1..Len(seq) /\ D \subseteq 0..Len(seq)
  OBVIOUS
<1>2. ASSUME NEW T \in SUBSET D, T # {}
      PROVE  Max(T) \in T /\ \A m \in T : Max(T) >= m
  BY <1>1, <1>2, GreatestNatural
<1>3. ASSUME NEW T \in SUBSET D
      PROVE  /\ IsFiniteSet(T) /\ Cardinality(T) \in Nat
             /\ T # {} => Cardinality(T \ {Max(T)}) = Cardinality(T) - 1
  <2>1. IsFiniteSet(D)
    BY <1>1, FS_Interval
  <2>2. IsFiniteSet(T) /\ Cardinality(T) \in Nat
    BY <2>1, FS_Subset, FS_CardinalityType
  <2> QED BY <1>2, <2>2, FS_RemoveElement
<1>4. Equation(sums)
  <2>1. ASSUME NEW T \in SUBSET D
        PROVE  sums[T] = IF T = {} THEN 0
                         ELSE sums[T \ {Max(T)}] + encoded_len(seq[Max(T)])
    <3>1. CASE T = {}
      BY <3>1, FS_EmptySet
    <3>2. CASE T # {}
      <4>1. encoded_len(seq[Max(T)]) = length /\ T \ {Max(T)} \in SUBSET D
        BY <1>1, <1>2, <3>2
      <4>2. Cardinality(T) * length = (Cardinality(T) - 1) * length + length
        <5> DEFINE c == Cardinality(T)
        <5>1. c \in Nat
          BY <1>3
        <5> HIDE DEF c
        <5>2. c * length = (c - 1) * length + length
          BY <5>1
        <5> QED BY <5>2 DEF c
      <4> QED BY <1>3, <3>2, <4>1, <4>2
    <3> QED BY <3>1, <3>2
  <2> HIDE DEF D
  <2> QED BY <2>1
<1>5. Equation(iter)
  <2> HIDE DEF Equation
  <2> QED BY <1>4
<1>6. FoldLeft(LAMBDA n, p : n + encoded_len(p), 0, seq) = iter[D]
  BY DEF FoldLeft, MapThenFoldSet
<1> HIDE DEF iter
<1>7. ASSUME NEW T \in SUBSET D
      PROVE  iter[T] = IF T = {} THEN 0 ELSE iter[T \ {Max(T)}] + encoded_len(seq[Max(T)])
  BY <1>5
<1> DEFINE Good == {n \in Nat : n <= Len(seq) => iter[1..n] = n * length}
<1>8. 0 \in Good
  <2>1. 1..0 = {} /\ {} \in SUBSET D /\ 0 * length = 0
    OBVIOUS
  <2>2. iter[{}] = 0
    BY <1>7, <2>1
  <2> QED BY <2>1, <2>2
<1>9. ASSUME NEW n \in Nat, n \in Good
      PROVE  n + 1 \in Good
  <2> HIDE DEF D
  <2> SUFFICES ASSUME n + 1 <= Len(seq) PROVE iter[1..(n + 1)] = (n + 1) * length
    OBVIOUS
  <2> DEFINE T == 1..(n + 1)
  <2>1. T \in SUBSET D /\ T # {} /\ n + 1 \in T
    BY <1>1
  <2>2. Max(T) = n + 1
    <3>1. Max(T) \in T /\ Max(T) >= n + 1
      <4> HIDE DEF T
      <4> QED BY <1>2, <2>1
    <3>2. Max(T) \in 1..(n + 1)
      BY <3>1
    <3> QED BY <3>1, <3>2
  <2>3. T \ {n + 1} = 1..n
    OBVIOUS
  <2>4. n + 1 \in 1..Len(seq)
    BY <1>1
  <2>5. iter[T] = iter[1..n] + length
    <3> HIDE DEF T
    <3> QED BY <1>7, <2>1, <2>2, <2>3, <2>4
  <2>6. iter[1..n] = n * length
    BY <1>1, <1>9
  <2>7. (n + 1) * length = n * length + length
    OBVIOUS
  <2> QED BY <2>5, <2>6, <2>7
<1>10. Nat \subseteq Good
  <2> HIDE DEF Good
  <2> QED BY <1>8, <1>9, SetInduction
<1>11. iter[1..Len(seq)] = Len(seq) * length
  BY <1>1, <1>10
<1> QED BY <1>1, <1>6, <1>11

LEMMA PacketBytes ==
    ASSUME NEW s \in Senders, encodable(s)
    PROVE  /\ \A i \in 1..Len(packets[s]) :
                 encoded_len(packets[s][i]) = 29 + spec(s).symbol_size_t
           /\ packet_bytes[s] = Len(packets[s]) * (29 + spec(s).symbol_size_t)
<1>1. ASSUME NEW i \in 1..Len(packets[s])
      PROVE  encoded_len(packets[s][i]) = 29 + spec(s).symbol_size_t
  <2>1. /\ packets[s][i].type = "Packet"
        /\ packets[s][i].symbol = EncodedSymbol(spec(s), Job[s].object, coded_id_at(s, i))
    BY PacketsAsPlanned
  <2> QED BY <2>1 DEF encoded_len, EncodedSymbol
<1>2. packets[s] \in Seq(Packet) /\ 29 + spec(s).symbol_size_t \in Nat
  BY PacketsAsPlanned, JobFacts
<1>3. packet_bytes[s] = FoldLeft(LAMBDA n, p : n + encoded_len(p), 0, packets[s])
  BY DEF packet_bytes
<1> QED BY <1>1, <1>2, <1>3, SumOfEqualLengths

LEMMA NoPacketBytes ==
    ASSUME NEW s \in Senders, ~encodable(s)
    PROVE  packet_bytes[s] = 0
<1> DEFINE all == planned(s)
<1>1. all = <<>>
  BY DEF planned, source, repair
<1>2. packets[s] = [i \in 1..0 |-> packet_message(Job[s].session_id, all[i])]
  BY <1>1 DEF packets
<1>3. packets[s] \in Seq(Packet) /\ Len(packets[s]) = 0
  <2> HIDE DEF all
  <2> QED BY <1>2
<1>4. 0 \in Nat /\ \A i \in 1..Len(packets[s]) : encoded_len(packets[s][i]) = 0
  BY <1>3
<1>5. FoldLeft(LAMBDA n, p : n + encoded_len(p), 0, packets[s]) = Len(packets[s]) * 0
  BY <1>3, <1>4, SumOfEqualLengths
<1>6. packet_bytes[s] = FoldLeft(LAMBDA n, p : n + encoded_len(p), 0, packets[s])
  BY DEF packet_bytes
<1>7. Len(packets[s]) * 0 = 0
  BY <1>3
<1> QED BY <1>5, <1>6, <1>7

-----------------------------------------------------------------------------
(* The inductive invariant: what a sender has handed to its socket is a    *)
(* prefix of its plan, all of which fits, and is what it has counted.      *)

message(s, i) == IF i = 1 THEN meta[s] ELSE packets[s][i - 1]

\* The bytes of the first n messages.
bytes_of(s, n) == IF n = 0 THEN 0 ELSE 24 + (n - 1) * (29 + spec(s).symbol_size_t)

OnPlan(s) ==
    /\ phase[s] \in {"Sending", "Finished"} \/ sent[s] # <<>> => encodable(s)
    /\ encodable(s) => Len(sent[s]) <= Len(packets[s]) + 1
    /\ \A i \in 1..Len(sent[s]) : sent[s][i] = message(s, i) /\ fits(message(s, i))
    /\ bytes_sent[s] = IF Job[s].progress THEN bytes_of(s, Len(sent[s])) ELSE 0
    /\ phase[s] = "Finished" => Len(sent[s]) = Len(packets[s]) + 1

SenderInv ==
    /\ phase \in [Senders -> {"Idle", "Sending", "Finished", "Failed"}]
    /\ sent \in [Senders -> Seq(WireMessage)]
    /\ bytes_sent \in [Senders -> Nat]
    /\ \A s \in Senders : OnPlan(s)

LEMMA InitSenderInv == SenderInit => SenderInv
<1> SUFFICES ASSUME SenderInit PROVE SenderInv
  OBVIOUS
<1>1. <<>> \in Seq(WireMessage) /\ Len(<<>>) = 0
  OBVIOUS
<1>2. ASSUME NEW s \in Senders PROVE OnPlan(s)
  <2>1. phase[s] = "Idle" /\ sent[s] = <<>> /\ bytes_sent[s] = 0
    BY DEF SenderInit
  <2>2. encodable(s) => Len(packets[s]) \in Nat
    BY PacketsAsPlanned
  <2> QED BY <1>1, <2>1, <2>2 DEF OnPlan, bytes_of
<1> QED BY <1>1, <1>2 DEF SenderInit, SenderInv

\* Each message of the plan, its type and its length.
LEMMA MessageFacts ==
    ASSUME NEW s \in Senders, encodable(s), NEW i \in 1..(Len(packets[s]) + 1)
    PROVE  /\ message(s, i) \in WireMessage
           /\ encoded_len(message(s, i)) = IF i = 1 THEN 24 ELSE 29 + spec(s).symbol_size_t
<1>1. packets[s] \in Seq(Packet) /\ Len(packets[s]) \in Nat
  BY PacketsAsPlanned
<1>2. CASE i = 1
  <2>1. meta[s].type = "SessionMeta"
    BY DEF meta, session_meta_from_spec
  <2> QED BY <1>2, <2>1, MetaType DEF message, WireMessage, encoded_len
<1>3. CASE i # 1
  <2>1. i - 1 \in 1..Len(packets[s])
    BY <1>1, <1>3
  <2> QED BY <1>1, <1>3, <2>1, PacketBytes DEF message, WireMessage
<1> QED BY <1>2, <1>3

\* Sending the next message of the plan.
LEMMA TransmitStep ==
    ASSUME SenderInv, NEW s \in Senders, pending(s), Transmit(s),
           sent[s] = <<>> \/ packets_sent(s) >= 0
    PROVE  /\ SenderInv'
           /\ encodable(s)
           /\ \E i \in 1..(Len(packets[s]) + 1) :
                 next_message(s) = message(s, i) /\ fits(message(s, i))
<1> DEFINE n == Len(sent[s])
           t == spec(s).symbol_size_t
<1>1. encodable(s) /\ OnPlan(s) /\ sent[s] \in Seq(WireMessage) /\ n \in Nat
  BY DEF SenderInv, OnPlan, pending
<1>2. Len(packets[s]) \in Nat /\ t \in Nat
  BY <1>1, PacketsAsPlanned, JobFacts
<1>3. n + 1 \in 1..(Len(packets[s]) + 1)
  BY <1>1, <1>2 DEF pending, packets_sent
<1>4. next_message(s) = message(s, n + 1)
  <2>1. CASE sent[s] = <<>>
    BY <2>1 DEF next_message, message
  <2>2. CASE sent[s] # <<>>
    <3>1. n >= 1
      BY <1>1, <2>2 DEF packets_sent
    <3>2. packets_sent(s) + 1 = n /\ (n + 1) - 1 = n /\ n + 1 # 1
      BY <1>1, <3>1 DEF packets_sent
    <3> HIDE DEF n
    <3> QED BY <2>2, <3>2 DEF next_message, message
  <2> QED BY <2>1, <2>2
<1>5. fits(message(s, n + 1))
  BY <1>4 DEF Transmit
<1>6. /\ message(s, n + 1) \in WireMessage
      /\ encoded_len(message(s, n + 1)) = IF n = 0 THEN 24 ELSE 29 + t
  <2> HIDE DEF n
  <2>1. n + 1 = 1 <=> n = 0
    BY <1>1
  <2> QED BY <1>1, <1>3, <2>1, MessageFacts
<1>7. sent' = [sent EXCEPT ![s] = Append(sent[s], message(s, n + 1))] /\ phase' = phase
  BY <1>4 DEF Transmit
<1>8. bytes_sent' = IF Job[s].progress
                    THEN [bytes_sent EXCEPT ![s] =
                             bytes_sent[s] + encoded_len(message(s, n + 1))]
                    ELSE bytes_sent
  BY <1>4 DEF Transmit
<1>9. Append(sent[s], message(s, n + 1)) \in Seq(WireMessage)
  BY <1>1, <1>6
<1>10. encoded_len(message(s, n + 1)) \in Nat
  BY <1>2, <1>6
<1>11. sent' \in [Senders -> Seq(WireMessage)] /\ bytes_sent' \in [Senders -> Nat]
  BY <1>7, <1>8, <1>9, <1>10 DEF SenderInv
<1>12. /\ Len(sent'[s]) = n + 1
       /\ \A i \in 1..n : sent'[s][i] = sent[s][i]
       /\ sent'[s][n + 1] = message(s, n + 1)
  BY <1>1, <1>6, <1>7 DEF SenderInv
<1>13. bytes_of(s, n + 1) = bytes_of(s, n) + encoded_len(message(s, n + 1))
  <2> HIDE DEF n, t
  <2>1. CASE n = 0
    BY <1>2, <1>6, <2>1 DEF bytes_of, t
  <2>2. CASE n # 0
    <3> DEFINE size == 29 + t
    <3>1. size \in Nat
      BY <1>2
    <3> HIDE DEF size
    <3>2. ((n + 1) - 1) * size = (n - 1) * size + size
      BY <1>1, <3>1
    <3>3. (n - 1) * size \in Nat
      BY <1>1, <2>2, <3>1
    <3>4. n + 1 # 0
      BY <1>1
    <3>5. encoded_len(message(s, n + 1)) = size
      BY <1>6, <2>2 DEF size
    <3>6. /\ bytes_of(s, n) = 24 + (n - 1) * size
          /\ bytes_of(s, n + 1) = 24 + ((n + 1) - 1) * size
      BY <2>2, <3>4 DEF bytes_of, size, t
    <3> QED BY <3>1, <3>2, <3>3, <3>5, <3>6
  <2> QED BY <2>1, <2>2
<1>14. bytes_sent'[s] = IF Job[s].progress THEN bytes_of(s, n + 1) ELSE 0
  <2>1. bytes_sent[s] = IF Job[s].progress THEN bytes_of(s, n) ELSE 0
    BY <1>1 DEF OnPlan
  <2>2. DOMAIN bytes_sent = Senders
    BY DEF SenderInv
  <2> HIDE DEF n
  <2> QED BY <1>8, <1>13, <2>1, <2>2
<1>15. OnPlan(s)'
  <2>1. phase'[s] = "Sending"
    BY <1>7 DEF pending
  <2>2. \A i \in 1..(n + 1) : sent'[s][i] = message(s, i) /\ fits(message(s, i))
    <3> SUFFICES ASSUME NEW i \in 1..(n + 1)
                 PROVE  sent'[s][i] = message(s, i) /\ fits(message(s, i))
      OBVIOUS
    <3>1. CASE i = n + 1
      BY <1>5, <1>12, <3>1
    <3>2. CASE i # n + 1
      <4>1. i \in 1..n
        BY <1>1, <3>2
      <4> QED BY <1>1, <1>12, <4>1 DEF OnPlan
    <3> QED BY <3>1, <3>2
  <2>3. n + 1 <= Len(packets[s]) + 1
    BY <1>1, <1>2, <1>3
  <2> HIDE DEF n
  <2> QED BY <1>1, <1>12, <1>14, <2>1, <2>2, <2>3 DEF OnPlan
<1>16. ASSUME NEW q \in Senders, q # s PROVE OnPlan(q)'
  <2>1. sent'[q] = sent[q] /\ phase'[q] = phase[q] /\ bytes_sent'[q] = bytes_sent[q]
    BY <1>7, <1>8, <1>16 DEF SenderInv
  <2> QED BY <2>1 DEF OnPlan, SenderInv
<1>17. SenderInv'
  BY <1>7, <1>11, <1>15, <1>16 DEF SenderInv
<1> QED BY <1>1, <1>3, <1>4, <1>5, <1>17

LEMMA SendStep ==
    ASSUME SenderInv, NEW s \in Senders, Send(s)
    PROVE  /\ SenderInv'
           /\ encodable(s)
           /\ \E i \in 1..(Len(packets[s]) + 1) :
                 next_message(s) = message(s, i) /\ fits(message(s, i))
<1>1. pending(s) /\ Transmit(s)
  BY DEF Send, SendMeta, SendSource, SendRepair
<1>2. encodable(s)
  BY <1>1 DEF SenderInv, OnPlan, pending
<1>3. sent[s] = <<>> \/ packets_sent(s) >= 0
  <2>1. Len(source[s]) \in Nat /\ packets_sent(s) \in Int
    BY <1>2, SourceType DEF SenderInv, packets_sent
  <2> QED BY <2>1 DEF Send, SendMeta, SendSource, SendRepair
<1> QED BY <1>1, <1>3, TransmitStep

\* A step that sends and counts nothing, into a phase the plan allows.
LEMMA PhaseStep ==
    ASSUME SenderInv, NEW s \in Senders,
           NEW p \in {"Sending", "Finished", "Failed"},
           phase' = [phase EXCEPT ![s] = p], UNCHANGED <<sent, bytes_sent>>,
           p # "Failed" => encodable(s),
           p = "Finished" => Len(sent[s]) = Len(packets[s]) + 1
    PROVE  SenderInv'
<1>1. phase'[s] = p /\ \A q \in Senders : q # s => phase'[q] = phase[q]
  BY DEF SenderInv
<1>2. ASSUME NEW q \in Senders PROVE OnPlan(q)'
  <2>1. OnPlan(q)
    BY DEF SenderInv
  <2>2. CASE q = s
    BY <1>1, <2>1, <2>2 DEF OnPlan
  <2>3. CASE q # s
    BY <1>1, <2>1, <2>3 DEF OnPlan
  <2> QED BY <2>2, <2>3
<1> QED BY <1>2 DEF SenderInv

LEMMA LocalStepInv ==
    ASSUME SenderInv, NEW s \in Senders, LocalStep(s) \/ SendIoError(s)
    PROVE  SenderInv'
<1>1. CASE Start(s)
  BY <1>1, PhaseStep DEF Start
<1>2. CASE phase' = [phase EXCEPT ![s] = "Failed"] /\ UNCHANGED <<sent, bytes_sent>>
  BY <1>2, PhaseStep
<1>3. CASE Finish(s)
  <2>1. OnPlan(s) /\ Len(sent[s]) \in Nat /\ encodable(s)
    BY <1>3 DEF Finish, SenderInv, OnPlan
  <2>2. Len(packets[s]) \in Nat
    BY <2>1, PacketsAsPlanned
  <2>3. Len(sent[s]) = Len(packets[s]) + 1
    BY <1>3, <2>1, <2>2 DEF Finish, packets_sent
  <2>4. /\ phase' = [phase EXCEPT ![s] = "Finished"]
        /\ UNCHANGED <<sent, bytes_sent>>
    BY <1>3 DEF Finish
  <2> QED BY <2>1, <2>3, <2>4, PhaseStep
<1>4. ASSUME NEW e, Fail(s, e) PROVE SenderInv'
  BY <1>2, <1>4 DEF Fail
<1> QED BY <1>1, <1>3, <1>4 DEF LocalStep, StartFails, SendTooLarge, SendIoError

LEMMA StutterSenderInv == SenderInv /\ UNCHANGED sender_vars => SenderInv'
BY DEF SenderInv, OnPlan, sender_vars

LEMMA NextSenderInv == SenderInv /\ [SenderNext]_sender_vars => SenderInv'
BY SendStep, LocalStepInv, StutterSenderInv DEF SenderNext, SenderStep

\* The invariant is inductive.
THEOREM SenderInvariance == SenderSpec => []SenderInv
BY InitSenderInv, NextSenderInv, PTL DEF SenderSpec

-----------------------------------------------------------------------------
(* What the invariant says of the wire. *)

\* Every message a sender transmits is one the wire format can carry, whatever its symbol
\* size and however many repair packets it was told to send.
THEOREM SenderTypeCorrect == SenderSpec => []SenderTypeOK
<1>1. SenderInv => SenderTypeOK
  BY DEF SenderInv, SenderTypeOK
<1> QED BY <1>1, SenderInvariance, PTL

\* A packet on the wire is the one planned, the metadata went before it, and it fits.
LEMMA SentPacket ==
    ASSUME SenderInv, NEW s \in Senders, NEW i \in 2..Len(sent[s])
    PROVE  /\ encodable(s)
           /\ sent[s][1] = meta[s]
           /\ i - 1 \in 1..Len(packets[s])
           /\ sent[s][i] = packets[s][i - 1]
           /\ 29 + spec(s).symbol_size_t <= MAX_DATAGRAM
<1>1. OnPlan(s) /\ Len(sent[s]) \in Nat
  BY DEF SenderInv
<1>2. encodable(s) /\ i \in 1..Len(sent[s]) /\ 1 \in 1..Len(sent[s]) /\ i # 1
  BY <1>1 DEF OnPlan
<1>3. Len(packets[s]) \in Nat /\ Len(sent[s]) <= Len(packets[s]) + 1
  BY <1>1, <1>2, PacketsAsPlanned DEF OnPlan
<1>4. sent[s][1] = meta[s] /\ sent[s][i] = packets[s][i - 1]
  BY <1>1, <1>2 DEF OnPlan, message
<1>5. i - 1 \in 1..Len(packets[s])
  BY <1>1, <1>3
<1>6. fits(packets[s][i - 1])
  BY <1>1, <1>2, <1>4 DEF OnPlan
<1> QED BY <1>2, <1>4, <1>5, <1>6, PacketBytes DEF fits

\* Metadata tells the spec, up to the tuning, unless the symbol size is truncated.
LEMMA AnnouncedSpec ==
    ASSUME NEW s \in Senders, spec(s).symbol_size_t < U16
    PROVE  /\ meta_spec(meta[s]) = new_spec(spec(s).transfer_length_f, spec(s).symbol_size_t,
                                            spec(s).codec.kind)
           /\ \A esi : coded_id_of(meta_spec(meta[s]), esi) = coded_id_of(spec(s), esi)
<1>1. spec(s).symbol_size_t % U16 = spec(s).symbol_size_t
  <2> DEFINE t == spec(s).symbol_size_t
  <2>1. t \in Nat /\ t < U16 /\ U16 = 65536
    BY JobFacts DEF U16
  <2> HIDE DEF t
  <2>2. t % U16 = t
    BY <2>1
  <2> QED BY <2>2 DEF t
<1>2. meta[s] = [type |-> "SessionMeta", version |-> WIRE_VERSION,
                 session_id |-> Job[s].session_id, codec |-> codec_id(spec(s).codec.kind),
                 transfer_length_f |-> spec(s).transfer_length_f,
                 symbol_size_t |-> spec(s).symbol_size_t]
  BY <1>1 DEF meta, session_meta_from_spec, spec
<1>3. meta_kind(meta[s]) = spec(s).codec.kind
  BY <1>2, JobFacts DEF meta_kind, codec_id, CodecKind
<1>4. meta_spec(meta[s]) = new_spec(spec(s).transfer_length_f, spec(s).symbol_size_t,
                                    spec(s).codec.kind)
  BY <1>2, <1>3 DEF meta_spec
<1> QED
  BY <1>4 DEF new_spec, coded_id_of, num_source

LEMMA SentSpec ==
    ASSUME SenderInv, NEW s \in Senders, NEW i \in 2..Len(sent[s])
    PROVE  /\ announced(s).symbol_size_t = spec(s).symbol_size_t
           /\ \A esi : coded_id_of(announced(s), esi) = coded_id_of(spec(s), esi)
<1>1. sent[s][1] = meta[s] /\ 29 + spec(s).symbol_size_t <= MAX_DATAGRAM
  BY SentPacket
<1>2. spec(s).symbol_size_t < U16
  BY <1>1, JobFacts DEF U16, MAX_DATAGRAM
<1>3. announced(s) = meta_spec(meta[s])
  BY <1>1 DEF announced
<1>4. meta_spec(meta[s]).symbol_size_t = spec(s).symbol_size_t
  <2>1. meta_spec(meta[s]) = new_spec(spec(s).transfer_length_f, spec(s).symbol_size_t,
                                      spec(s).codec.kind)
    BY <1>2, AnnouncedSpec
  <2> QED BY <2>1 DEF new_spec
<1> QED BY <1>2, <1>3, <1>4, AnnouncedSpec

\* No packet follows metadata that truncated the symbol size.
THEOREM TruncationStopsSender == SenderSpec => []NoPacketAfterTruncatedMeta
<1>1. SenderInv => NoPacketAfterTruncatedMeta
  <2> SUFFICES ASSUME SenderInv, NEW s \in Senders, NEW i \in 2..Len(sent[s])
               PROVE  announced(s).symbol_size_t = Job[s].spec.symbol_size_t
    BY DEF NoPacketAfterTruncatedMeta, sent_packets
  <2> QED BY SentSpec DEF spec
<1> QED BY <1>1, SenderInvariance, PTL

\* The ESI of every packet that the u32 does not cut off names, to the decoder of the
\* announced spec, its symbol.
THEOREM EsiNamesItsSymbol == SenderSpec => []EsiNamesSymbol
<1>1. SenderInv => EsiNamesSymbol
  <2> SUFFICES ASSUME SenderInv, NEW s \in Senders, NEW i \in 2..Len(sent[s]),
                      planned(s)[i - 1].esi < U32
               PROVE  coded_id_of(announced(s), sent[s][i].esi) = sent[s][i].symbol.coded_id
    BY DEF EsiNamesSymbol
  <2> DEFINE p == packets[s][i - 1]
  <2>1. sent[s][i] = p /\ encodable(s) /\ i - 1 \in 1..Len(packets[s])
    BY SentPacket
  <2>2. /\ p.symbol = EncodedSymbol(spec(s), Job[s].object, coded_id_at(s, i - 1))
        /\ coded_id_of(spec(s), p.esi) = coded_id_at(s, i - 1)
    BY <2>1, PacketsAsPlanned
  <2>3. p.symbol.coded_id = coded_id_at(s, i - 1)
    BY <2>2 DEF EncodedSymbol
  <2> QED BY <2>1, <2>2, <2>3, SentSpec
<1> QED BY <1>1, SenderInvariance, PTL

\* Two places of the plan have two coded ids: source ids lie below those of repair symbols.
LEMMA CodedIdsOfPlan ==
    ASSUME NEW s \in Senders, encodable(s),
           NEW i \in 1..Len(packets[s]), NEW j \in 1..Len(packets[s]),
           coded_id_at(s, i) = coded_id_at(s, j)
    PROVE  i = j
<1> DEFINE k == source_k(s)
           total == NumTotal(spec(s).codec.kind, source_k(s))
<1>1. k \in Nat /\ total \in Nat /\ k <= total /\ i \in Nat \ {0} /\ j \in Nat \ {0}
  BY BlockFacts, PacketsAsPlanned
<1>2. ASSUME NEW x \in Nat \ {0}
      PROVE  coded_id_at(s, x) = IF x <= k THEN x - 1 ELSE total + (x - k - 1)
  BY DEF coded_id_at, repair_coded_id, source_k
<1> HIDE DEF k, total
<1> QED BY <1>1, <1>2

\* No two packets of a sender carry the same symbol, in whichever rounds they are.
THEOREM SymbolsDistinct == SenderSpec => []EachSymbolOnce
<1>1. SenderInv => EachSymbolOnce
  <2> SUFFICES ASSUME SenderInv, NEW s \in Senders,
                      NEW i \in 2..Len(sent[s]), NEW j \in 2..Len(sent[s]),
                      sent[s][i].symbol = sent[s][j].symbol
               PROVE  i = j
    BY DEF EachSymbolOnce
  <2>1. ASSUME NEW x \in 2..Len(sent[s])
        PROVE  /\ encodable(s) /\ x - 1 \in 1..Len(packets[s])
               /\ sent[s][x].symbol.coded_id = coded_id_at(s, x - 1)
    <3>1. /\ encodable(s) /\ x - 1 \in 1..Len(packets[s])
          /\ sent[s][x] = packets[s][x - 1]
      BY SentPacket
    <3>2. sent[s][x].symbol = EncodedSymbol(spec(s), Job[s].object, coded_id_at(s, x - 1))
      BY <3>1, PacketsAsPlanned
    <3> QED BY <3>1, <3>2 DEF EncodedSymbol
  <2>2. i - 1 = j - 1
    BY <2>1, CodedIdsOfPlan
  <2>3. i \in Int /\ j \in Int
    OBVIOUS
  <2> QED BY <2>2, <2>3
<1> QED BY <1>1, SenderInvariance, PTL

\* A call that returned Ok sent the whole block and every repair symbol configured.
THEOREM NothingLeftUnsent == SenderSpec => []FinishedSentEverything
<1>1. SenderInv => FinishedSentEverything
  <2> SUFFICES ASSUME SenderInv, NEW s \in Senders, phase[s] = "Finished"
               PROVE  LET k == num_source(Job[s].spec)
                          n == Job[s].repair_count * Job[s].repair_rounds
                      IN  {p.symbol.coded_id : p \in sent_packets(s)} =
                             0..(k - 1) \cup {repair_coded_id(Job[s].spec, j) : j \in 0..(n - 1)}
    BY DEF FinishedSentEverything
  <2> DEFINE k == source_k(s)
             n == repairs(s)
             ids == {coded_id_at(s, i) : i \in 1..(k + n)}
  <2>1. encodable(s) /\ Len(sent[s]) = Len(packets[s]) + 1
    BY DEF SenderInv, OnPlan
  <2>2. Len(packets[s]) = k + n /\ k \in Nat /\ n \in Nat
    BY <2>1, PacketsAsPlanned, BlockFacts, JobFacts
  <2>3. n = Job[s].repair_count * Job[s].repair_rounds
    BY JobFacts DEF repairs
  <2>4. ASSUME NEW i \in 2..Len(sent[s])
        PROVE  i - 1 \in 1..(k + n) /\ sent[s][i].symbol.coded_id = coded_id_at(s, i - 1)
    <3>1. i - 1 \in 1..Len(packets[s]) /\ sent[s][i] = packets[s][i - 1]
      BY SentPacket
    <3>2. packets[s][i - 1].symbol
              = EncodedSymbol(spec(s), Job[s].object, coded_id_at(s, i - 1))
      BY <2>1, <3>1, PacketsAsPlanned
    <3> QED BY <2>2, <3>1, <3>2 DEF EncodedSymbol
  <2>5. {p.symbol.coded_id : p \in sent_packets(s)}
            = {sent[s][i].symbol.coded_id : i \in 2..Len(sent[s])}
    BY DEF sent_packets
  <2>6. {sent[s][i].symbol.coded_id : i \in 2..Len(sent[s])} = ids
    <3> HIDE DEF k, n
    <3>1. ASSUME NEW x \in 1..(k + n)
          PROVE  x + 1 \in 2..Len(sent[s]) /\ (x + 1) - 1 = x
      BY <2>1, <2>2
    <3> QED BY <2>4, <3>1
  <2>7. ids = 0..(k - 1) \cup {repair_coded_id(spec(s), j) : j \in 0..(n - 1)}
    <3>1. ASSUME NEW i \in 1..(k + n)
          PROVE  \/ coded_id_at(s, i) \in 0..(k - 1)
                 \/ \E j \in 0..(n - 1) : coded_id_at(s, i) = repair_coded_id(spec(s), j)
      <4>1. CASE i <= k
        BY <2>2, <4>1 DEF coded_id_at
      <4>2. CASE ~(i <= k)
        <5>1. i - k - 1 \in 0..(n - 1)
          BY <2>2, <4>2
        <5> QED BY <4>2, <5>1 DEF coded_id_at
      <4> QED BY <4>1, <4>2
    <3>2. ASSUME NEW x \in 0..(k - 1)
          PROVE  \E i \in 1..(k + n) : x = coded_id_at(s, i)
      <4>1. x + 1 \in 1..(k + n) /\ x + 1 <= k /\ (x + 1) - 1 = x
        BY <2>2
      <4> QED BY <4>1 DEF coded_id_at
    <3>3. ASSUME NEW j \in 0..(n - 1)
          PROVE  \E i \in 1..(k + n) : repair_coded_id(spec(s), j) = coded_id_at(s, i)
      <4>1. /\ k + j + 1 \in 1..(k + n) /\ ~(k + j + 1 <= k)
            /\ (k + j + 1) - k - 1 = j
        BY <2>2
      <4> QED BY <4>1 DEF coded_id_at
    <3> HIDE DEF k, n
    <3> QED BY <3>1, <3>2, <3>3
  <2> QED BY <2>3, <2>5, <2>6, <2>7 DEF spec, source_k
<1> QED BY <1>1, SenderInvariance, PTL

\* The bytes counted never exceed the plan, and are the plan when the call returns Ok.
THEOREM BytesMatchPlan == SenderSpec => []BytesAsPlanned
<1>1. SenderInv => BytesAsPlanned
  <2> SUFFICES ASSUME SenderInv, NEW s \in Senders
               PROVE  /\ bytes_sent[s] <= planned_bytes[s]
                      /\ phase[s] = "Finished" => bytes_sent[s] = planned_bytes[s]
    BY DEF BytesAsPlanned
  <2> DEFINE n == Len(sent[s])
             m == Len(packets[s])
             size == 29 + spec(s).symbol_size_t
  <2>1. OnPlan(s) /\ n \in Nat /\ size \in Nat
    BY JobFacts DEF SenderInv
  <2>2. CASE ~Job[s].progress
    <3>1. bytes_sent[s] = 0 /\ planned_bytes[s] = 0
      BY <2>1, <2>2 DEF OnPlan, planned_bytes
    <3> QED BY <3>1
  <2>3. CASE Job[s].progress /\ sent[s] = <<>>
    <3>1. bytes_sent[s] = 0 /\ phase[s] # "Finished"
      <4>1. n = 0
        BY <2>3
      <4>2. phase[s] = "Finished" => encodable(s) /\ n = m + 1
        BY <2>1 DEF OnPlan
      <4>3. encodable(s) => m \in Nat
        BY PacketsAsPlanned
      <4> QED BY <2>1, <2>3, <4>1, <4>2, <4>3 DEF OnPlan, bytes_of
    <3>2. packet_bytes[s] \in Nat
      <4>1. CASE encodable(s)
        <5>1. packet_bytes[s] = m * size /\ m \in Nat
          BY <4>1, PacketBytes, PacketsAsPlanned
        <5> HIDE DEF m, size
        <5> QED BY <2>1, <5>1
      <4>2. CASE ~encodable(s)
        BY <4>2, NoPacketBytes
      <4> QED BY <4>1, <4>2
    <3>3. planned_bytes[s] = 24 + packet_bytes[s]
      BY <2>3 DEF planned_bytes, meta, session_meta_from_spec, encoded_len
    <3> QED BY <3>1, <3>2, <3>3
  <2>4. CASE Job[s].progress /\ sent[s] # <<>>
    <3>1. encodable(s) /\ n # 0
      BY <2>1, <2>4 DEF OnPlan, SenderInv
    <3>2. m \in Nat /\ n <= m + 1 /\ packet_bytes[s] = m * size
      BY <2>1, <3>1, PacketsAsPlanned, PacketBytes DEF OnPlan
    <3>3. planned_bytes[s] = 24 + m * size
      BY <2>4, <3>2 DEF planned_bytes, meta, session_meta_from_spec, encoded_len
    <3>4. bytes_sent[s] = 24 + (n - 1) * size
      BY <2>1, <2>4, <3>1 DEF OnPlan, bytes_of
    <3>5. phase[s] = "Finished" => n = m + 1
      BY <2>1 DEF OnPlan
    <3> HIDE DEF n, m, size
    <3>6. n - 1 \in Nat /\ n - 1 <= m /\ (n = m + 1 => n - 1 = m)
      BY <2>1, <3>1, <3>2
    <3>7. (n - 1) * size <= m * size
      BY <2>1, <3>2, <3>6, ProductMonotonic
    <3>8. (n - 1) * size \in Nat /\ m * size \in Nat
      BY <2>1, <3>2, <3>6
    <3> QED BY <3>3, <3>4, <3>5, <3>6, <3>7, <3>8
  <2> QED BY <2>2, <2>3, <2>4
<1> QED BY <1>1, SenderInvariance, PTL
===============================================================================
