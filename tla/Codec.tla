-------------------------------- MODULE Codec --------------------------------
(***************************************************************************)
(* The codec facade of fountain_transfer_core: transfer specifications and *)
(* their validation, the packets an encoder produces, and a decoder that   *)
(* accumulates packets.  The codes themselves belong to the external crate *)
(* fountain_engine and appear as the constants NumTotal and Decodable.     *)
(***************************************************************************)
EXTENDS Layout, FiniteSets

CONSTANTS
    Objects,         \* the objects (files) that may be sent
    ObjectLen,       \* ObjectLen[o] is the length of o in bytes
    EnabledCodecs,   \* the codec features this build was compiled with
    Tunings,         \* the values of (dmax, ldpc_type)
    DefaultTuning,   \* (DEFAULT_DMAX, ReversedLDPC)
    BlockSizes,      \* the numbers of source symbols K in use
    NumTotal(_, _),  \* engine: num_total() of the scheme of a kind with K symbols
    Decodable(_, _), \* engine: do these coded ids decode a block of K symbols?
    Garbled          \* the bytes recovered from symbols that belong together in no object

CodecKind == {"RaptorQ", "Raptor10"}

ASSUME ObjectsAssumption == ObjectLen \in [Objects -> Nat] /\ Garbled \notin Objects
ASSUME CodecAssumption == EnabledCodecs \subseteq CodecKind /\ DefaultTuning \in Tunings
ASSUME EngineAssumption ==
    /\ BlockSizes \subseteq Nat
    /\ \A kind \in CodecKind, k \in BlockSizes :
          NumTotal(kind, k) \in Nat /\ NumTotal(kind, k) >= k
    /\ \A k \in BlockSizes : Decodable(k, {}) = FALSE

-----------------------------------------------------------------------------
TransferSpec ==
    [transfer_length_f : Nat, symbol_size_t : Nat,
     codec : [kind : CodecKind, tuning : Tunings]]

\* K of a spec: both codecs derive it with calc_k.
num_source(spec) == calc_k(spec.transfer_length_f, spec.symbol_size_t)

validate_dimensions(transfer_length_f, symbol_size_t) ==
    IF transfer_length_f = 0 THEN "InvalidTransferLength"
    ELSE IF symbol_size_t = 0 THEN "InvalidSymbolSize"
    ELSE "Ok"

ensure_codec_enabled(kind) == IF kind \in EnabledCodecs THEN "Ok" ELSE "CodecNotEnabled"

validate_spec(spec) ==
    LET dimensions == validate_dimensions(spec.transfer_length_f, spec.symbol_size_t)
    IN  IF dimensions # "Ok" THEN dimensions ELSE ensure_codec_enabled(spec.codec.kind)

\* The spec TransferSpec::new builds; validate_spec is its error.
new_spec(transfer_length_f, symbol_size_t, kind) ==
    [transfer_length_f |-> transfer_length_f, symbol_size_t |-> symbol_size_t,
     codec |-> [kind |-> kind, tuning |-> DefaultTuning]]

-----------------------------------------------------------------------------
(* Symbols.  An encoded symbol is named by the object, its coded id and    *)
(* the code that computed it.  Source symbols (coded id below K) are bytes *)
(* of the object whatever the code; repair symbols depend on its tuning.   *)

Systematic == [kind |-> "Systematic", tuning |-> DefaultTuning]

EncodedSymbol(spec, object, coded_id) ==
    [object |-> object, coded_id |-> coded_id, len |-> spec.symbol_size_t,
     code |-> IF coded_id < num_source(spec) THEN Systematic ELSE spec.codec]

Symbol ==
    [object : Objects, coded_id : Nat, len : Nat,
     code : [kind : CodecKind \cup {"Systematic"}, tuning : Tunings]]

repair_payload_esi(source_k, repair_index) == source_k + repair_index

repair_index_from_payload_esi(esi, source_k) == esi - source_k

\* Mutant of payload_esi_to_coded_id: the first repair ESI is taken for a source ESI.
payload_esi_to_coded_id_OffByOne(esi, source_k, num_total) ==
    IF esi <= source_k THEN esi
    ELSE num_total + repair_index_from_payload_esi(esi, source_k)

payload_esi_to_coded_id(esi, source_k, num_total) ==
    IF esi < source_k THEN esi
    ELSE num_total + repair_index_from_payload_esi(esi, source_k)

\* The coded id of the repair_index-th repair symbol.
repair_coded_id(spec, repair_index) ==
    NumTotal(spec.codec.kind, num_source(spec)) + repair_index

\* Mutant of repair_esi: RFC numbering for both codecs, as the decoder does not expect.
repair_esi_Rfc(spec, repair_index) == repair_payload_esi(num_source(spec), repair_index)

\* The ESI it is sent under: RFC numbering for RaptorQ, the coded id for Raptor10.
repair_esi(spec, repair_index) ==
    IF spec.codec.kind = "RaptorQ"
    THEN repair_payload_esi(num_source(spec), repair_index)
    ELSE repair_coded_id(spec, repair_index)

\* The coded id under which a decoder files a payload ESI.
coded_id_of(spec, esi) ==
    IF spec.codec.kind = "RaptorQ"
    THEN payload_esi_to_coded_id(esi, num_source(spec),
                                 NumTotal("RaptorQ", num_source(spec)))
    ELSE esi

-----------------------------------------------------------------------------
(* The encoder: TransferEncoderImpl. *)

encoder_error(spec, object) ==
    IF validate_spec(spec) # "Ok" THEN validate_spec(spec)
    ELSE IF ObjectLen[object] # spec.transfer_length_f THEN "InvalidObjectLength"
    ELSE "Ok"

source_packets(spec, object) ==
    [i \in 1..num_source(spec) |->
        [sbn |-> 0, esi |-> i - 1, symbol |-> EncodedSymbol(spec, object, i - 1)]]

repair_packets(spec, object, start_repair_index, count) ==
    [i \in 1..count |->
        LET repair_index == start_repair_index + i - 1
        IN  [sbn |-> 0, esi |-> repair_esi(spec, repair_index),
             symbol |-> EncodedSymbol(spec, object, repair_coded_id(spec, repair_index))]]

-----------------------------------------------------------------------------
(* The decoder: TransferDecoderImpl, as the coded vectors it was given. *)

Decoder == [spec : TransferSpec, symbols : SUBSET [coded_id : Nat, symbol : Symbol]]

new_decoder(spec) == [spec |-> spec, symbols |-> {}]

coded_ids(dec) == {s.coded_id : s \in dec.symbols}

add_packet_error(dec, packet) ==
    IF packet.sbn # 0 THEN "UnsupportedSourceBlock"
    ELSE IF packet.symbol.len # dec.spec.symbol_size_t THEN "SymbolLengthMismatch"
    ELSE "Ok"

\* Mutant of add_packet: a symbol replaces the one stored under the same coded id.
add_packet_Overwrites(dec, packet) ==
    LET id == coded_id_of(dec.spec, packet.esi)
    IN  [dec EXCEPT !.symbols = {s \in @ : s.coded_id # id} \cup
            {[coded_id |-> id, symbol |-> packet.symbol]}]

add_packet(dec, packet) ==
    [dec EXCEPT !.symbols = @ \cup
        {[coded_id |-> coded_id_of(dec.spec, packet.esi), symbol |-> packet.symbol]}]

\* Mutant of decode_status: K symbols are taken to be enough.
decode_status_ByCount(dec) ==
    IF Cardinality(dec.symbols) >= num_source(dec.spec) THEN "Decoded" ELSE "NotDecoded"

\* Mutant of decode_status: repair symbols do not make up for missing source symbols.
decode_status_SourceOnly(dec) ==
    IF 0..(num_source(dec.spec) - 1) \subseteq coded_ids(dec) THEN "Decoded" ELSE "NotDecoded"

decode_status(dec) ==
    IF Decodable(num_source(dec.spec), coded_ids(dec)) THEN "Decoded" ELSE "NotDecoded"

\* Solving for the source symbols gives an object exactly when every symbol is
\* the one this code computes from it; symbols that disagree solve to other bytes.
recover_object(dec) ==
    LET explains(o) ==
            /\ ObjectLen[o] = dec.spec.transfer_length_f
            /\ \A s \in dec.symbols : s.symbol = EncodedSymbol(dec.spec, o, s.coded_id)
    IN  IF \E o \in Objects : explains(o) THEN CHOOSE o \in Objects : explains(o) ELSE Garbled
=============================================================================
