---------------------------- MODULE FacadeProofs ----------------------------
(***************************************************************************)
(* What a client of the codec facade can rely on, for all transfers, all   *)
(* packets it may offer, all objects and symbol sizes, and every code.     *)
(***************************************************************************)
EXTENDS Facade, CodecProofs

\* The packets a client can ever have, before and after there is an encoder.
all_packets == ForeignPackets \cup encoder_packets

\* A packet the decoder rejects, or one that holds the symbol it is filed under.
Genuine(packet) ==
    \/ packet.sbn # 0
    \/ packet.symbol.len # spec.symbol_size_t
    \/ /\ encodable
       /\ packet.symbol = EncodedSymbol(spec, object, coded_id_of(spec, packet.esi))

\* The slab holds packets of this transfer or others', each where its handle says.
SlabIsGenuine ==
    /\ manager \in [symbol_size : ManagerSizes, packets : Seq(all_packets)]
    /\ \A i \in 1..Len(manager.packets) : Genuine(manager.packets[i])
    /\ \A h \in handles :
          /\ h.handle \in 0..(Len(manager.packets) - 1)
          /\ manager.packets[h.handle + 1] = h.packet

\* The decoder holds only symbols of the object, each under its own coded id.
DecoderIsGenuine ==
    decoder # None =>
        /\ decoder.spec = spec
        /\ validate_spec(spec) = "Ok"
        /\ \A s \in decoder.symbols :
              encodable /\ s.symbol = EncodedSymbol(spec, object, s.coded_id)

\* The transfer is one of the assumptions'.
Chosen == \E transfer \in Transfers : spec = transfer.spec /\ object = transfer.object

FacadeInv ==
    /\ Chosen
    /\ encoder => encodable
    /\ SlabIsGenuine
    /\ DecoderIsGenuine
    /\ RecoverHonest

-----------------------------------------------------------------------------
LEMMA ChosenFacts ==
    ASSUME Chosen
    PROVE  /\ spec \in TransferSpec
           /\ object \in Objects
           /\ object \in Seq(Nat)
           /\ validate_spec(spec) = "Ok" => num_source(spec) \in BlockSizes
           /\ \A packet \in ForeignPackets : Genuine(packet)
<1>1. PICK transfer \in Transfers : spec = transfer.spec /\ object = transfer.object
  BY DEF Chosen
<1> QED
  BY <1>1, FacadeAssumption, ByteObjects DEF Genuine

\* What the checks of the encoder leave: a spec that describes the object.
LEMMA EncodableFacts ==
    ASSUME Chosen, encodable
    PROVE  /\ validate_spec(spec) = "Ok"
           /\ Len(object) = spec.transfer_length_f
           /\ Len(object) \in Nat \ {0}
           /\ spec.symbol_size_t \in Nat \ {0}
           /\ num_source(spec) = calc_k(Len(object), spec.symbol_size_t)
<1>1. validate_spec(spec) = "Ok" /\ Len(object) = spec.transfer_length_f
  BY ChosenFacts, ByteObjects DEF encodable, encoder_error
<1>2. spec.transfer_length_f # 0 /\ spec.symbol_size_t # 0
  BY <1>1 DEF validate_spec, validate_dimensions
<1>3. spec.transfer_length_f \in Nat /\ spec.symbol_size_t \in Nat
  BY ChosenFacts DEF TransferSpec
<1> QED
  BY <1>1, <1>2, <1>3 DEF num_source

\* The bytes assembled from the right source symbols are the object.
LEMMA PayloadIsObject ==
    ASSUME Chosen, encodable
    PROVE  payload(object, num_source(spec), spec.symbol_size_t) = object
<1> DEFINE size == spec.symbol_size_t
<1> DEFINE source_k == calc_k(Len(object), size)
<1>1. /\ object \in Seq(Nat)
      /\ Len(object) > 0
      /\ size \in Nat \ {0}
      /\ num_source(spec) = source_k
  BY ChosenFacts, EncodableFacts
<1>2. assemble_payload_from_symbols(
          split_into_symbols(pad_object_to_k_symbols(object, source_k, size), source_k, size),
          Len(object), size) = object
  BY <1>1, LayoutRoundTrip
<1> QED
  BY <1>1, <1>2 DEF payload

\* Every packet of the encoder holds the symbol its ESI leads the decoder to.
LEMMA EncoderIsGenuine ==
    ASSUME Chosen, encodable
    PROVE  \A packet \in encoder_packets : Genuine(packet)
<1>1. /\ spec \in TransferSpec
      /\ num_source(spec) \in BlockSizes
      /\ num_source(spec) \in Nat
  BY ChosenFacts, EncodableFacts, BlockType
<1>2. ASSUME NEW i \in 1..num_source(spec)
      PROVE  Genuine(source_packets(spec, object)[i])
  <2>1. coded_id_of(spec, i - 1) = i - 1
    BY <1>1 DEF coded_id_of, payload_esi_to_coded_id
  <2> QED
    BY <2>1 DEF source_packets, Genuine
<1>3. ASSUME NEW i \in 1..MaxRepair
      PROVE  Genuine(repair_packets(spec, object, 0, MaxRepair)[i])
  <2> DEFINE j == 0 + i - 1
  <2>1. j \in Nat
    BY FacadeAssumption
  <2>2. coded_id_of(spec, repair_esi(spec, j)) = repair_coded_id(spec, j)
    BY <1>1, <2>1, RepairEsiNamesSymbol
  <2> QED
    BY <2>2 DEF repair_packets, Genuine
<1> QED
  BY <1>2, <1>3 DEF encoder_packets, Range, source_packets, repair_packets

\* A decoder of this transfer that has decoded returns the object: it was given at least
\* one of the object's symbols, and no other object has it.
LEMMA RecoversObject ==
    ASSUME Chosen, DecoderIsGenuine, decoder # None, decode_status(decoder) = "Decoded"
    PROVE  encodable /\ recover_object(decoder) = object
<1> DEFINE explains(o) ==
        /\ ObjectLen[o] = decoder.spec.transfer_length_f
        /\ \A s \in decoder.symbols : s.symbol = EncodedSymbol(decoder.spec, o, s.coded_id)
<1>1. Decodable(num_source(spec), coded_ids(decoder)) # FALSE
  BY DEF decode_status, DecoderIsGenuine
<1>2. num_source(spec) \in BlockSizes
  BY ChosenFacts DEF DecoderIsGenuine
<1>3. coded_ids(decoder) # {}
  BY <1>1, <1>2, EngineAssumption
<1>4. PICK s \in decoder.symbols : TRUE
  BY <1>3 DEF coded_ids
<1>5. encodable
  BY <1>4 DEF DecoderIsGenuine
<1>6. object \in Objects /\ explains(object)
  BY <1>5, ChosenFacts, EncodableFacts, ByteObjects DEF DecoderIsGenuine
<1>7. ASSUME NEW o \in Objects, explains(o)
      PROVE  o = object
  <2>1. EncodedSymbol(spec, o, s.coded_id) = EncodedSymbol(spec, object, s.coded_id)
    BY <1>4, <1>6, <1>7 DEF DecoderIsGenuine
  <2> QED
    BY <2>1 DEF EncodedSymbol
<1>8. (CHOOSE o \in Objects : explains(o)) = object
  BY <1>6, <1>7
<1> QED
  BY <1>5, <1>6, <1>8 DEF recover_object

-----------------------------------------------------------------------------
LEMMA FacadeInvInit == FacadeInit => FacadeInv
<1> SUFFICES ASSUME FacadeInit PROVE FacadeInv
  OBVIOUS
<1>1. Chosen
  BY DEF FacadeInit, Chosen
<1>2. /\ manager \in [symbol_size : ManagerSizes, packets : Seq(all_packets)]
      /\ manager.packets = <<>>
  BY DEF FacadeInit
<1> QED
  BY <1>1, <1>2 DEF FacadeInit, FacadeInv, SlabIsGenuine, DecoderIsGenuine, RecoverHonest,
                    Returned

\* What the client offers is genuine, whether it comes from the encoder or from others.
LEMMA PacketsAreGenuine ==
    ASSUME FacadeInv, NEW packet \in packets
    PROVE  Genuine(packet) /\ packet \in all_packets
BY ChosenFacts, EncoderIsGenuine DEF FacadeInv, packets, all_packets

LEMMA StorePacketStep ==
    ASSUME FacadeInv, NEW packet \in packets, StorePacket(packet)
    PROVE  SlabIsGenuine'
<1> DEFINE slab == manager.packets
<1>1. slab \in Seq(all_packets) /\ packet \in all_packets /\ Genuine(packet)
  BY PacketsAreGenuine DEF FacadeInv, SlabIsGenuine
<1>2. /\ manager' = [manager EXCEPT !.packets = Append(slab, packet)]
      /\ manager'.packets = Append(slab, packet)
      /\ handles' = handles \cup {[handle |-> Len(slab), packet |-> packet]}
      /\ UNCHANGED <<spec, object>>
  BY DEF StorePacket, store_packet_handle, FacadeInv, SlabIsGenuine
<1>3. all_packets' = all_packets /\ encodable' = encodable
  BY <1>2 DEF all_packets, encoder_packets, encodable
<1>4. manager' \in [symbol_size : ManagerSizes, packets : Seq(all_packets')]
  BY <1>1, <1>2, <1>3 DEF FacadeInv, SlabIsGenuine
<1>5. ASSUME NEW i \in 1..Len(manager'.packets)
      PROVE  Genuine(manager.packets[i])'
  <2>1. manager'.packets[i] = IF i = Len(slab) + 1 THEN packet ELSE slab[i]
    BY <1>1, <1>2
  <2>2. Genuine(manager'.packets[i])
    BY <1>1, <1>2, <2>1 DEF FacadeInv, SlabIsGenuine
  <2> QED
    BY <1>2, <1>3, <2>2 DEF Genuine
<1>6. ASSUME NEW h \in handles'
      PROVE  /\ h.handle \in 0..(Len(manager'.packets) - 1)
             /\ manager'.packets[h.handle + 1] = h.packet
  <2>1. CASE h \in handles
    BY <1>1, <1>2, <2>1 DEF FacadeInv, SlabIsGenuine
  <2>2. CASE h = [handle |-> Len(slab), packet |-> packet]
    BY <1>1, <1>2, <2>2
  <2> QED
    BY <1>2, <2>1, <2>2
<1> QED
  BY <1>4, <1>5, <1>6 DEF SlabIsGenuine

\* A genuine packet, taken or rejected, leaves the decoder genuine.
LEMMA FeedStep ==
    ASSUME FacadeInv, NEW packet, Genuine(packet), Feed(packet)
    PROVE  DecoderIsGenuine'
<1>1. /\ decoder # None
      /\ decoder.spec = spec
      /\ validate_spec(spec) = "Ok"
      /\ UNCHANGED <<spec, object>>
  BY DEF Feed, FacadeInv, DecoderIsGenuine
<1>2. CASE add_packet_error(decoder, packet) = "Ok"
  <2>1. encodable /\ packet.symbol = EncodedSymbol(spec, object, coded_id_of(spec, packet.esi))
    BY <1>1, <1>2 DEF add_packet_error, Genuine
  <2>2. decoder' = add_packet(decoder, packet)
    BY <1>2 DEF Feed
  <2>3. /\ decoder'.spec = spec
        /\ decoder'.symbols = decoder.symbols \cup
               {[coded_id |-> coded_id_of(spec, packet.esi), symbol |-> packet.symbol]}
    BY <1>1, <2>2 DEF add_packet
  <2> QED
    BY <1>1, <2>1, <2>3 DEF FacadeInv, DecoderIsGenuine, encodable
<1>3. CASE add_packet_error(decoder, packet) # "Ok"
  BY <1>1, <1>3 DEF Feed, FacadeInv, DecoderIsGenuine, encodable
<1> QED
  BY <1>2, <1>3

\* The answer stays honest: only a decoder that has decoded gives bytes, the object's.
LEMMA RecoverStep ==
    ASSUME FacadeInv, Recover
    PROVE  RecoverHonest'
<1>1. object' = object /\ decoder # None
  BY DEF Recover
<1>2. CASE recover_error # "Ok"
  BY <1>1, <1>2 DEF Recover, RecoverHonest, Returned
<1>3. CASE recover_error = "Ok"
  <2>1. decode_status(decoder) = "Decoded"
    BY <1>3 DEF recover_error
  <2>2. encodable /\ recover_object(decoder) = object
    BY <1>1, <2>1, RecoversObject DEF FacadeInv
  <2>3. object # Garbled
    BY ChosenFacts, ObjectsAssumption DEF FacadeInv
  <2>4. payload(object, num_source(spec), spec.symbol_size_t) = object
    BY <2>2, PayloadIsObject DEF FacadeInv
  <2>5. answer' = Returned("Ok", object)
    BY <1>3, <2>2, <2>3, <2>4 DEF Recover
  <2> QED
    BY <1>1, <2>5 DEF RecoverHonest, Returned
<1> QED
  BY <1>2, <1>3

\* What an action leaves alone.
LEMMA Unchanged ==
    ASSUME FacadeInv, UNCHANGED <<spec, object>>
    PROVE  /\ Chosen'
           /\ encodable' = encodable
           /\ UNCHANGED <<manager, handles>> => SlabIsGenuine'
           /\ UNCHANGED decoder => DecoderIsGenuine'
           /\ UNCHANGED answer => RecoverHonest'
<1>1. Chosen'
  BY DEF FacadeInv, Chosen
<1>2. encodable' = encodable /\ all_packets' = all_packets
  BY DEF encodable, all_packets, encoder_packets
<1>3. ASSUME UNCHANGED <<manager, handles>>
      PROVE  SlabIsGenuine'
  BY <1>2, <1>3 DEF FacadeInv, SlabIsGenuine, Genuine
<1>4. ASSUME UNCHANGED decoder
      PROVE  DecoderIsGenuine'
  BY <1>2, <1>4 DEF FacadeInv, DecoderIsGenuine
<1>5. ASSUME UNCHANGED answer
      PROVE  RecoverHonest'
  BY <1>5 DEF FacadeInv, RecoverHonest
<1> QED
  BY <1>1, <1>2, <1>3, <1>4, <1>5

LEMMA FacadeInvStep == FacadeInv /\ [FacadeNext]_facade_vars => FacadeInv'
<1> SUFFICES ASSUME FacadeInv, [FacadeNext]_facade_vars PROVE FacadeInv'
  OBVIOUS
<1>1. CASE NewEncoder
  <2>1. UNCHANGED <<spec, object, manager, decoder, handles>>
    BY <1>1 DEF NewEncoder
  <2>2. encoder' => encodable
    BY <1>1 DEF NewEncoder, encoder_storage_error, storage_error, encodable
  <2>3. RecoverHonest'
    BY <1>1 DEF NewEncoder, RecoverHonest, Returned
  <2> QED
    BY <2>1, <2>2, <2>3, Unchanged DEF FacadeInv
<1>2. CASE NewDecoder
  <2>1. UNCHANGED <<spec, object, manager, encoder, handles>>
    BY <1>2 DEF NewDecoder
  <2>2. decoder' # None => decoder' = new_decoder(spec) /\ validate_spec(spec) = "Ok"
    BY <1>2 DEF NewDecoder, storage_error
  <2>3. DecoderIsGenuine'
    BY <2>1, <2>2 DEF new_decoder, DecoderIsGenuine
  <2>4. RecoverHonest'
    BY <1>2 DEF NewDecoder, RecoverHonest, Returned
  <2> QED
    BY <2>1, <2>3, <2>4, Unchanged DEF FacadeInv
<1>3. CASE \E packet \in packets : StorePacket(packet)
  <2>1. UNCHANGED <<spec, object, encoder, decoder, answer>> /\ SlabIsGenuine'
    BY <1>3, StorePacketStep DEF StorePacket
  <2> QED
    BY <2>1, Unchanged DEF FacadeInv
<1>4. ASSUME NEW packet, Genuine(packet), Feed(packet)
      PROVE  FacadeInv'
  <2>1. UNCHANGED <<spec, object, manager, encoder, handles, answer>>
    BY <1>4 DEF Feed
  <2>2. DecoderIsGenuine'
    BY <1>4, FeedStep
  <2> QED
    BY <2>1, <2>2, Unchanged DEF FacadeInv
<1>5. CASE \E packet \in packets : Feed(packet)
  BY <1>4, <1>5, PacketsAreGenuine
<1>6. CASE \E h \in handles : Feed(packet_at(h.handle))
  <2>1. PICK h \in handles : Feed(packet_at(h.handle))
    BY <1>6
  <2>2. /\ h.handle \in 0..(Len(manager.packets) - 1)
        /\ Len(manager.packets) \in Nat
        /\ \A i \in 1..Len(manager.packets) : Genuine(manager.packets[i])
    BY DEF FacadeInv, SlabIsGenuine
  <2>3. packet_at(h.handle) = manager.packets[h.handle + 1]
    BY <2>2 DEF packet_at
  <2>4. h.handle + 1 \in 1..Len(manager.packets)
    BY <2>2
  <2>5. Genuine(packet_at(h.handle))
    BY <2>2, <2>3, <2>4
  <2> QED
    BY <1>4, <2>1, <2>5
<1>7. CASE Recover
  <2>1. UNCHANGED <<spec, object, manager, encoder, decoder, handles>>
    BY <1>7 DEF Recover
  <2> QED
    BY <1>7, <2>1, RecoverStep, Unchanged DEF FacadeInv
<1>8. CASE UNCHANGED facade_vars
  BY <1>8, Unchanged DEF facade_vars, FacadeInv
<1> QED
  BY <1>1, <1>2, <1>3, <1>5, <1>6, <1>7, <1>8 DEF FacadeNext

LEMMA FacadeInvariant == FacadeSpec => []FacadeInv
BY FacadeInvInit, FacadeInvStep, PTL DEF FacadeSpec

-----------------------------------------------------------------------------
\* Whenever recover_object returns bytes, they are the object's, for every code, object and
\* symbol size, and whatever packets were stored, fed, repeated or rejected before.
THEOREM RecoversHonestly == FacadeSpec => []RecoverHonest
<1>1. FacadeInv => RecoverHonest
  BY DEF FacadeInv
<1> QED
  BY <1>1, FacadeInvariant, PTL

\* A handle names the packet it was returned for, however many are stored after it.
THEOREM HandlesNamePackets == FacadeSpec => []HandleNamesPacket
<1>1. FacadeInv => HandleNamesPacket
  BY DEF FacadeInv, SlabIsGenuine, HandleNamesPacket, packet_at
<1> QED
  BY <1>1, FacadeInvariant, PTL

\* K is the least number of symbols that hold the object, for every transfer an encoder
\* accepts.
THEOREM BlocksAreTight == FacadeSpec => []BlockIsTight
<1>1. FacadeInv => BlockIsTight
  <2>1. SUFFICES ASSUME FacadeInv, encodable PROVE BlockIsTight
    BY DEF BlockIsTight
  <2> QED
    BY <2>1, EncodableFacts, CalcKTight DEF FacadeInv, BlockIsTight
<1> QED
  BY <1>1, FacadeInvariant, PTL

\* Padding, splitting and assembling lose no byte of any object an encoder accepts, and
\* add none.
THEOREM RoundTripIsExact == FacadeSpec => []RoundTrip
<1>1. FacadeInv => RoundTrip
  BY PayloadIsObject DEF FacadeInv, RoundTrip
<1> QED
  BY <1>1, FacadeInvariant, PTL
=============================================================================
