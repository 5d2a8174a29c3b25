-------------------------------- MODULE Facade --------------------------------
(***************************************************************************)
(* A program using fountain_transfer_core as a library: it builds encoder  *)
(* and decoder of one transfer, with or without a storage manager, keeps   *)
(* packets in the manager's slab under the handles it was given, feeds     *)
(* packets to the decoder directly or by handle, and asks for the object   *)
(* whenever it likes.  The objects are sequences of bytes here.            *)
(***************************************************************************)
EXTENDS Codec, Functions

CONSTANTS
    None,             \* Option::None
    Transfers,        \* the transfers: a spec and the object given to the encoder
    ManagerSizes,     \* the symbol sizes managers are created with
    ForeignPackets,   \* packets of other source blocks and symbol sizes
    MaxPlayed,        \* bound on the length of the objects that are transferred
    MaxRepair,        \* bound on the repair symbols
    MaxStored         \* bound on the packets stored

ASSUME ByteObjects == \A o \in Objects : o \in Seq(Nat) /\ ObjectLen[o] = Len(o)
ASSUME FacadeAssumption ==
    /\ None \notin Decoder
    /\ MaxRepair \in Nat
    /\ \A transfer \in Transfers :
          /\ transfer.spec \in TransferSpec /\ transfer.object \in Objects
          /\ validate_spec(transfer.spec) = "Ok" => num_source(transfer.spec) \in BlockSizes
          /\ \A packet \in ForeignPackets :
                packet.sbn # 0 \/ packet.symbol.len # transfer.spec.symbol_size_t

VARIABLES
    spec, object,  \* the transfer: chosen once
    manager,       \* SlabStorageManager: [symbol_size, packets]
    encoder,       \* whether there is an encoder
    decoder,       \* the decoder, or None
    handles,       \* the handles the client holds, with the packet each was given for
    answer         \* what the last call of a constructor or of recover_object returned

facade_vars == <<spec, object, manager, encoder, decoder, handles, answer>>

Returned(error, bytes) == [error |-> error, bytes |-> bytes]

FacadeInit ==
    /\ \E transfer \in Transfers : spec = transfer.spec /\ object = transfer.object
    /\ \E size \in ManagerSizes : manager = [symbol_size |-> size, packets |-> <<>>]
    /\ encoder = FALSE
    /\ decoder = None
    /\ handles = {}
    /\ answer = Returned("Ok", None)

-----------------------------------------------------------------------------
\* The check both new_with_storage_manager constructors make before anything else.
storage_error ==
    IF validate_spec(spec) # "Ok" THEN validate_spec(spec)
    ELSE IF manager.symbol_size # spec.symbol_size_t THEN "SymbolLengthMismatch"
    ELSE "Ok"

encoder_storage_error ==
    IF storage_error # "Ok" THEN storage_error ELSE encoder_error(spec, object)

\* new, or new_with_storage_manager, of the encoder.
NewEncoder ==
    /\ ~encoder
    /\ \E error \in {encoder_error(spec, object), encoder_storage_error} :
          /\ encoder' = (error = "Ok")
          /\ answer' = Returned(error, None)
    /\ UNCHANGED <<spec, object, manager, decoder, handles>>

\* new, or new_with_storage_manager, of the decoder.
NewDecoder ==
    /\ decoder = None
    /\ \E error \in {validate_spec(spec), storage_error} :
          /\ decoder' = IF error = "Ok" THEN new_decoder(spec) ELSE None
          /\ answer' = Returned(error, None)
    /\ UNCHANGED <<spec, object, manager, encoder, handles>>

encoder_packets ==
    Range(source_packets(spec, object)) \cup Range(repair_packets(spec, object, 0, MaxRepair))

\* The packets the client can have: the encoder's, once there is one, and others'.
packets ==
    ForeignPackets \cup (IF encoder THEN encoder_packets ELSE {})

\* Mutant of store_packet_handle: the length after the push.
store_packet_handle_AfterPush(slab) == Len(slab) + 1

\* The handle of the packet pushed onto a slab: an index from zero.
store_packet_handle(slab) == Len(slab)

\* SlabStorageManager::packet; the client only asks for handles it was given.
packet_at(handle) == IF handle < Len(manager.packets) THEN manager.packets[handle + 1] ELSE None

StorePacket(packet) ==
    /\ Len(manager.packets) < MaxStored
    /\ manager' = [manager EXCEPT !.packets = Append(@, packet)]
    /\ handles' = handles \cup
          {[handle |-> store_packet_handle(manager.packets), packet |-> packet]}
    /\ UNCHANGED <<spec, object, encoder, decoder, answer>>

\* add_packet, which either rejects the packet or takes it.
Feed(packet) ==
    /\ decoder # None
    /\ packet # None
    /\ decoder' = IF add_packet_error(decoder, packet) = "Ok"
                  THEN add_packet(decoder, packet) ELSE decoder
    /\ UNCHANGED <<spec, object, manager, encoder, handles, answer>>

\* What recover_object assembles from the solved source symbols of object o.
payload(o, k, symbol_size) ==
    assemble_payload_from_symbols(
        split_into_symbols(pad_object_to_k_symbols(o, k, symbol_size), k, symbol_size),
        Len(o), symbol_size)

\* Mutant of recover_error: the status is not looked at.
recover_error_Unchecked == "Ok"

recover_error == IF decode_status(decoder) # "Decoded" THEN "DecodeNotComplete" ELSE "Ok"

Recover ==
    /\ decoder # None
    /\ answer' =
          IF recover_error # "Ok" THEN Returned(recover_error, None)
          ELSE LET o == recover_object(decoder)
               IN  Returned("Ok", IF o = Garbled THEN Garbled
                                  ELSE payload(o, num_source(spec), spec.symbol_size_t))
    /\ UNCHANGED <<spec, object, manager, encoder, decoder, handles>>

FacadeNext ==
    /\ Len(object) <= MaxPlayed
    /\ \/ NewEncoder
       \/ NewDecoder
       \/ \E packet \in packets : StorePacket(packet) \/ Feed(packet)
       \/ \E h \in handles : Feed(packet_at(h.handle))
       \/ Recover

FacadeSpec == FacadeInit /\ [][FacadeNext]_facade_vars

-----------------------------------------------------------------------------
\* The transfers an encoder accepts: their spec describes the object.
encodable == encoder_error(spec, object) = "Ok"

\* K is the least number of symbols that hold the object, whenever the encoder takes it.
BlockIsTight ==
    encodable =>
        /\ num_source(spec) * spec.symbol_size_t >= Len(object)
        /\ (num_source(spec) - 1) * spec.symbol_size_t < Len(object)

\* What recover_object assembles from the source symbols is the object that was encoded,
\* for every tail length, trailing zeroes of the object itself included.
RoundTrip == encodable => payload(object, num_source(spec), spec.symbol_size_t) = object

\* A handle keeps naming the packet it was returned for, whatever is stored later.
HandleNamesPacket == \A h \in handles : packet_at(h.handle) = h.packet

\* "Recover the original object once decoding is complete": whenever recover_object returns
\* bytes, they are those the encoder was given, whatever packets of other blocks or
\* symbol sizes, duplicates and repetitions were offered, and however early it is called.
RecoverHonest == answer.bytes \in {None, object}
=============================================================================
