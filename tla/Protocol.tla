------------------------------- MODULE Protocol -------------------------------
(***************************************************************************)
(* The wire messages of protocol.rs and the conversions between them and   *)
(* the values of the codec facade.  A message is a record; its length is   *)
(* that of its bincode encoding (fixed-width integers, 4-byte variant tag, *)
(* 8-byte vector length).                                                  *)
(***************************************************************************)
EXTENDS Codec

CONSTANTS
    SessionIds,  \* the u64 session identifiers in use
    U32          \* 2^32, the number of values of the packet's u32 fields

ASSUME WidthAssumption == U32 \in Nat \ {0}

WIRE_VERSION == 1
U16 == 65536
MAX_DATAGRAM == 65507

codec_id(kind) == IF kind = "RaptorQ" THEN 0 ELSE 1

-----------------------------------------------------------------------------
SessionMeta ==
    [type : {"SessionMeta"}, version : 0..255, session_id : SessionIds, codec : 0..255,
     transfer_length_f : Nat, symbol_size_t : 0..(U16 - 1)]

Packet ==
    [type : {"Packet"}, version : 0..255, session_id : SessionIds,
     sbn : 0..(U32 - 1), esi : 0..(U32 - 1), symbol : Symbol]

\* A datagram that bincode rejects.
Malformed == [type |-> "Malformed"]

WireMessage == SessionMeta \cup Packet
Datagram == WireMessage \cup {Malformed}

encoded_len(message) ==
    IF message.type = "SessionMeta" THEN 24 ELSE 29 + message.symbol.len

-----------------------------------------------------------------------------
(* The sender's side.  The metadata has no field for the codec's tuning;   *)
(* the symbol size and the ESI are narrowed with `as'.                     *)

session_meta_from_spec(session_id, spec) ==
    [type |-> "SessionMeta", version |-> WIRE_VERSION, session_id |-> session_id,
     codec |-> codec_id(spec.codec.kind),
     transfer_length_f |-> spec.transfer_length_f,
     symbol_size_t |-> spec.symbol_size_t % U16]

\* Mutant of packet_message: the ESI is not narrowed to u32.
packet_message_Wide(session_id, packet) ==
    [type |-> "Packet", version |-> WIRE_VERSION, session_id |-> session_id,
     sbn |-> packet.sbn, esi |-> packet.esi, symbol |-> packet.symbol]

packet_message(session_id, packet) ==
    [type |-> "Packet", version |-> WIRE_VERSION, session_id |-> session_id,
     sbn |-> packet.sbn, esi |-> packet.esi % U32, symbol |-> packet.symbol]

-----------------------------------------------------------------------------
(* The receiver's side. *)

\* Mutant of meta_kind: the two codec ids are swapped on the way in.
meta_kind_Swapped(meta) == IF meta.codec = codec_id("Raptor10") THEN "RaptorQ" ELSE "Raptor10"
meta_kind(meta) == IF meta.codec = codec_id("RaptorQ") THEN "RaptorQ" ELSE "Raptor10"

\* The transfer length, a u64, becomes a usize: on the 64-bit targets modelled here, itself.
meta_spec(meta) == new_spec(meta.transfer_length_f, meta.symbol_size_t, meta_kind(meta))

spec_from_session_meta_error(meta) ==
    IF meta.version # WIRE_VERSION THEN "UnsupportedVersion"
    ELSE IF meta.codec \notin {codec_id(kind) : kind \in CodecKind} THEN "UnknownCodec"
    ELSE IF validate_spec(meta_spec(meta)) # "Ok" THEN "TransferCore"
    ELSE "Ok"

transfer_packet_from_message_error(message, expected_session, symbol_size) ==
    IF message.version # WIRE_VERSION \/ message.session_id # expected_session
    THEN "UnsupportedVersion"
    ELSE IF message.symbol.len # symbol_size THEN "SymbolLengthMismatch"
    ELSE "Ok"

transfer_packet_from_message(message) ==
    [sbn |-> message.sbn, esi |-> message.esi, symbol |-> message.symbol]
=============================================================================
