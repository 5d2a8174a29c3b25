---------------------------- MODULE TransferProofs ----------------------------
(***************************************************************************)
(* Theorems about Transfer, for every set of senders, jobs, strays and     *)
(* datagrams that satisfies what a transfer relies on.                     *)
(***************************************************************************)
EXTENDS Transfer, ReceiverProofs, SenderProofs

-----------------------------------------------------------------------------
(* The inductive invariant.  Whatever is in flight is a stray or a message *)
(* of a sender's plan; what the receiver made of such messages names a     *)
(* sender, and each symbol it holds is the one that sender's code gives    *)
(* the coded id it is filed under.                                         *)

Plain(s) == encodable(s) /\ Job[s].spec.codec.tuning = DefaultTuning

OfSender(m, s) ==
    /\ Plain(s)
    /\ \E i \in 1..(Len(packets[s]) + 1) : m = message(s, i) /\ fits(message(s, i))

NetInv == \A d \in in_flight : d \in Strays \/ (d.src \in Senders /\ OfSender(d.msg, d.src))

SessionInv ==
    session # None =>
        \E s \in Senders :
            /\ Plain(s)
            /\ session = [session_id |-> Job[s].session_id, spec |-> meta_spec(meta[s])]

SymbolsInv ==
    session # None =>
        \A x \in decoder.symbols : \E s \in own_senders :
            /\ encodable(s)
            /\ decoder.spec = Job[s].spec
            /\ x.symbol = EncodedSymbol(Job[s].spec, Job[s].object, x.coded_id)

ReceptionInv == SessionInv /\ SymbolsInv /\ OutcomeIntegrity

SystemInv == IInv /\ SenderInv /\ NetInv /\ ReceptionInv

LEMMA InitSystemInv == SystemInit => SystemInv
<1> SUFFICES ASSUME SystemInit PROVE SystemInv
  OBVIOUS
<1>1. IInv /\ SenderInv
  BY InitIInv, InitSenderInv DEF SystemInit
<1>2. NetInv
  BY DEF SystemInit, NetInit, NetInv
<1>3. ReceptionInv
  BY DEF SystemInit, ReceiverInit, ReceptionInv, SessionInv, SymbolsInv, OutcomeIntegrity, Pending
<1> QED BY <1>1, <1>2, <1>3 DEF SystemInv

-----------------------------------------------------------------------------
(* What arrives. *)

LEMMA ArrivalType ==
    ASSUME NetInv, NEW d \in in_flight
    PROVE  d.msg \in Datagrams /\ d.src \in Peers
<1>1. CASE d \in Strays
  BY <1>1, NetworkAssumption
<1>2. CASE d.src \in Senders /\ OfSender(d.msg, d.src)
  <2> DEFINE s == d.src
  <2>1. PICK i \in 1..(Len(packets[s]) + 1) : d.msg = message(s, i)
    BY <1>2 DEF OfSender
  <2>2. encodable(s) /\ s \in Senders
    BY <1>2 DEF OfSender, Plain
  <2>3. packets[s] \in Seq(Packet)
    BY <2>2, PacketsAsPlanned
  <2>4. i # 1 => i - 1 \in DOMAIN packets[s]
    BY <2>1, <2>3
  <2> QED BY <2>1, <2>2, <2>4, NetworkAssumption DEF message
<1> QED BY <1>1, <1>2 DEF NetInv

\* No stray is accepted: it brings no session, and no symbol to one of a sender.
LEMMA StrayIgnored ==
    ASSUME StraysUnrelated, SessionInv, NEW d \in Strays
    PROVE  verdict(d.msg) # "Accepted"
<1> DEFINE m == d.msg
<1>1. m \in Datagrams
  BY NetworkAssumption
<1>2. CASE m.type = "Malformed"
  BY <1>2 DEF verdict
<1>3. CASE m.type = "SessionMeta"
  <2>1. m.version # WIRE_VERSION \/ foreign(m.session_id)
    BY <1>3 DEF StraysUnrelated, foreign
  <2>2. m.version # WIRE_VERSION => spec_from_session_meta_error(m) = "UnsupportedVersion"
    BY DEF spec_from_session_meta_error
  <2>3. meta_verdict(m) # "Accepted"
    BY <2>1, <2>2 DEF meta_verdict, reason_for_protocol_error
  <2> QED BY <1>3, <2>3 DEF verdict
<1>4. CASE m.type = "Packet"
  <2>1. session # None =>
           \/ m.version # WIRE_VERSION
           \/ foreign(m.session_id)
    BY <1>4 DEF StraysUnrelated, SessionInv, foreign
  <2>2. m.version # WIRE_VERSION =>
           \A id, t : transfer_packet_from_message_error(m, id, t) = "UnsupportedVersion"
    BY DEF transfer_packet_from_message_error
  <2>3. packet_verdict(m) # "Accepted"
    BY <2>1, <2>2 DEF packet_verdict, reason_for_protocol_error
  <2> QED BY <1>4, <2>3 DEF verdict
<1> QED BY <1>1, <1>2, <1>3, <1>4, DatagramKinds

\* Every accepted datagram is its source's metadata, or a packet of its plan that fits.
LEMMA AcceptedIsPlanned ==
    ASSUME StraysUnrelated, NetInv, SessionInv, NEW d \in in_flight,
           verdict(d.msg) = "Accepted"
    PROVE  /\ d.src \in Senders /\ Plain(d.src)
           /\ d.msg.type = "SessionMeta" => d.msg = meta[d.src]
           /\ d.msg.type = "Packet" =>
                 /\ spec(d.src).symbol_size_t < U16
                 /\ \E i \in 1..Len(packets[d.src]) : d.msg = packets[d.src][i]
<1> DEFINE s == d.src
<1>1. s \in Senders /\ OfSender(d.msg, s)
  BY StrayIgnored DEF NetInv
<1>2. PICK i \in 1..(Len(packets[s]) + 1) : d.msg = message(s, i) /\ fits(message(s, i))
  BY <1>1 DEF OfSender
<1>3. Plain(s) /\ encodable(s)
  BY <1>1 DEF OfSender, Plain
<1>4. Len(packets[s]) \in Nat
  BY <1>1, <1>3, PacketsAsPlanned
<1>5. CASE i = 1
  <2>1. d.msg = meta[s] /\ meta[s].type = "SessionMeta"
    BY <1>1, <1>2, <1>5 DEF message, meta, session_meta_from_spec
  <2> QED BY <1>1, <1>3, <2>1
<1>6. CASE i # 1
  <2>1. i - 1 \in 1..Len(packets[s]) /\ d.msg = packets[s][i - 1] /\ fits(packets[s][i - 1])
    BY <1>2, <1>4, <1>6 DEF message
  <2>2. packets[s][i - 1].type = "Packet"
    BY <1>1, <1>3, <2>1, PacketsAsPlanned
  <2>3. 29 + spec(s).symbol_size_t <= MAX_DATAGRAM
    BY <1>1, <1>3, <2>1, PacketBytes DEF fits
  <2>4. spec(s).symbol_size_t < U16
    BY <1>1, <2>3, JobFacts DEF U16, MAX_DATAGRAM
  <2> QED BY <1>1, <1>3, <2>1, <2>2, <2>4
<1> QED BY <1>5, <1>6

\* Metadata that is not truncated announces the very spec, if its tuning is the default.
LEMMA PlainSpec ==
    ASSUME NEW s \in Senders, Plain(s), spec(s).symbol_size_t < U16
    PROVE  meta_spec(meta[s]) = spec(s)
<1>1. meta_spec(meta[s]) = new_spec(spec(s).transfer_length_f, spec(s).symbol_size_t,
                                    spec(s).codec.kind)
  BY AnnouncedSpec
<1>2. spec(s) \in TransferSpec /\ spec(s).codec.tuning = DefaultTuning
  BY JobFacts DEF Plain, spec
<1> QED BY <1>1, <1>2 DEF new_spec, TransferSpec

-----------------------------------------------------------------------------
(* What the receiver makes of it. *)

LEMMA UnchangedReception ==
    ASSUME ReceptionInv, UNCHANGED <<session, decoder>>,
           result' = result \/ result'.status # "Ok"
    PROVE  ReceptionInv'
<1>1. own_senders' = own_senders
  BY DEF own_senders
<1> QED
  BY <1>1 DEF ReceptionInv, SessionInv, SymbolsInv, OutcomeIntegrity, own_senders

LEMMA EstablishReception ==
    ASSUME StraysUnrelated, NetInv, ReceptionInv, NEW d \in in_flight,
           result = Pending, EstablishSession(d.msg)
    PROVE  ReceptionInv'
<1> DEFINE s == d.src
<1>1. s \in Senders /\ Plain(s) /\ d.msg = meta[s]
  BY AcceptedIsPlanned DEF EstablishSession, ReceptionInv
<1>2. session' = [session_id |-> d.msg.session_id, spec |-> meta_spec(d.msg)]
  BY DEF EstablishSession
<1>3. d.msg.session_id = Job[s].session_id
  BY <1>1 DEF meta, session_meta_from_spec
<1>4. SessionInv'
  BY <1>1, <1>2, <1>3 DEF SessionInv
<1>5. SymbolsInv'
  BY DEF EstablishSession, new_decoder, SymbolsInv
<1>6. OutcomeIntegrity'
  BY DEF EstablishSession, OutcomeIntegrity, Pending
<1> QED BY <1>4, <1>5, <1>6 DEF ReceptionInv

\* Every symbol the decoder then holds is of one object, the one of the session's senders.
LEMMA AddReception ==
    ASSUME SessionsAgree, EsisFit, StraysUnrelated, IInv, NetInv, ReceptionInv,
           NEW d \in in_flight, AddPacket(d.msg)
    PROVE  SessionInv' /\ SymbolsInv'
<1> DEFINE m == d.msg
           s == d.src
           x == [coded_id |-> coded_id_of(decoder.spec, m.esi), symbol |-> m.symbol]
<1>1. m \in Datagrams /\ m.type = "Packet" /\ verdict(m) = "Accepted"
  BY ArrivalType DEF AddPacket
<1>2. s \in Senders /\ Plain(s) /\ encodable(s) /\ spec(s).symbol_size_t < U16
  BY <1>1, AcceptedIsPlanned DEF ReceptionInv, Plain
<1>3. PICK i \in 1..Len(packets[s]) : m = packets[s][i]
  BY <1>1, AcceptedIsPlanned DEF ReceptionInv
<1>4. session # None /\ session.session_id = Job[s].session_id
  BY <1>1, <1>2, <1>3, AcceptedPacket, PacketsAsPlanned
<1>5. PICK q \in Senders : /\ Plain(q)
                           /\ session.session_id = Job[q].session_id
                           /\ session.spec = meta_spec(meta[q])
  BY <1>4 DEF ReceptionInv, SessionInv
<1>6. spec(q) = spec(s) /\ meta_spec(meta[q]) = meta_spec(meta[s])
  BY <1>2, <1>4, <1>5 DEF SessionsAgree, spec, meta, session_meta_from_spec, meta_spec, meta_kind
<1>7. session.spec = spec(s)
  BY <1>2, <1>5, <1>6, PlainSpec
<1>8. /\ session' = session /\ decoder \in Decoder
      /\ decoder.spec = session.spec /\ decoder'.spec = decoder.spec
      /\ decoder'.symbols = decoder.symbols \cup {x}
  <2>1. decoder' = [decoder EXCEPT !.symbols = @ \cup {x}]
    BY DEF AddPacket, add_packet, transfer_packet_from_message
  <2>2. decoder \in Decoder /\ decoder.spec = session.spec /\ session' = session
    BY <1>1, AddPacketStep
  <2> HIDE DEF x
  <2> QED BY <2>1, <2>2 DEF Decoder
<1>9. x.symbol = EncodedSymbol(spec(s), Job[s].object, x.coded_id)
  <2>1. coded_id_of(spec(s), m.esi) = coded_id_at(s, i)
    <3>1. packets[s] \in Seq(Packet)
      BY <1>2, PacketsAsPlanned
    <3>2. planned(s)[i].esi < U32
      BY <1>2, <3>1 DEF EsisFit
    <3> QED BY <1>2, <1>3, <3>2, PacketsAsPlanned
  <2>2. m.symbol = EncodedSymbol(spec(s), Job[s].object, coded_id_at(s, i))
    BY <1>2, <1>3, PacketsAsPlanned
  <2> QED BY <1>7, <1>8, <2>1, <2>2
<1> HIDE DEF x
<1>10. own_senders' = own_senders /\ s \in own_senders
  BY <1>2, <1>4, <1>8 DEF own_senders
<1>11. ASSUME NEW y \in decoder'.symbols
       PROVE  \E w \in own_senders' :
                 /\ encodable(w)
                 /\ decoder'.spec = Job[w].spec
                 /\ y.symbol = EncodedSymbol(Job[w].spec, Job[w].object, y.coded_id)
  <2>1. CASE y = x
    BY <1>2, <1>7, <1>8, <1>9, <1>10, <2>1 DEF spec
  <2>2. CASE y \in decoder.symbols
    BY <1>4, <1>8, <1>10, <2>2 DEF ReceptionInv, SymbolsInv
  <2> QED BY <1>8, <2>1, <2>2
<1>12. SymbolsInv'
  BY <1>11 DEF SymbolsInv
<1>13. SessionInv'
  BY <1>8 DEF ReceptionInv, SessionInv
<1> QED BY <1>12, <1>13

\* The symbols of one object solve to that object.
LEMMA RecoversSentObject ==
    ASSUME SessionsAgree, SymbolsInv, session # None, decoder.symbols # {}
    PROVE  \E s \in own_senders : recover_object(decoder) = Job[s].object
<1>1. PICK x \in decoder.symbols, s \in own_senders :
         /\ encodable(s)
         /\ decoder.spec = Job[s].spec
         /\ x.symbol = EncodedSymbol(Job[s].spec, Job[s].object, x.coded_id)
  BY DEF SymbolsInv
<1> DEFINE o == Job[s].object
           explains(c) ==
              /\ ObjectLen[c] = decoder.spec.transfer_length_f
              /\ \A y \in decoder.symbols :
                    y.symbol = EncodedSymbol(decoder.spec, c, y.coded_id)
<1>2. s \in Senders /\ o \in Objects
  BY JobFacts DEF own_senders
<1>3. ObjectLen[o] = decoder.spec.transfer_length_f
  BY <1>1, <1>2, BlockFacts DEF spec
<1>4. ASSUME NEW y \in decoder.symbols
      PROVE  y.symbol = EncodedSymbol(decoder.spec, o, y.coded_id)
  <2>1. PICK w \in own_senders :
           y.symbol = EncodedSymbol(Job[w].spec, Job[w].object, y.coded_id)
    BY DEF SymbolsInv
  <2>2. Job[w].spec = Job[s].spec /\ Job[w].object = o
    BY <2>1 DEF SessionsAgree, own_senders
  <2> QED BY <1>1, <2>1, <2>2
<1>5. explains(o)
  BY <1>3, <1>4
<1>6. ASSUME NEW c \in Objects, explains(c) PROVE c = o
  <2>1. EncodedSymbol(decoder.spec, c, x.coded_id) = EncodedSymbol(decoder.spec, o, x.coded_id)
    BY <1>4, <1>6
  <2>2. ASSUME NEW e PROVE EncodedSymbol(decoder.spec, e, x.coded_id).object = e
    BY DEF EncodedSymbol
  <2> QED BY <2>1, <2>2
<1>7. recover_object(decoder) =
         IF \E c \in Objects : explains(c) THEN CHOOSE c \in Objects : explains(c) ELSE Garbled
  BY DEF recover_object
<1> HIDE DEF explains
<1> QED BY <1>2, <1>5, <1>6, <1>7

LEMMA CompleteReception ==
    ASSUME SessionsAgree, EsisFit, StraysUnrelated, IInv, NetInv, ReceptionInv,
           NEW d \in in_flight, CompleteTransfer(d.msg, d.src)
    PROVE  /\ ReceptionInv'
           /\ result'.status = "Ok"
           /\ session # None /\ session' = session
           /\ \E s \in own_senders : result'.object = Job[s].object
<1>1. AddPacket(d.msg) /\ d.msg \in Datagrams
  BY ArrivalType DEF CompleteTransfer
<1>2. SessionInv' /\ SymbolsInv'
  BY <1>1, AddReception
<1>3. session # None /\ session' = session /\ decoder'.symbols # {}
  <2>1. decoder \in Decoder /\ session # None /\ session' = session
    BY <1>1, AddPacketStep
  <2> QED BY <1>1, <2>1 DEF AddPacket, add_packet, Decoder
<1>4. own_senders' = own_senders
  BY <1>3 DEF own_senders
<1>5. \E s \in own_senders' : recover_object(decoder') = Job[s].object
  <2>1. (SessionsAgree /\ SymbolsInv /\ session # None /\ decoder.symbols # {}
           => \E s \in own_senders : recover_object(decoder) = Job[s].object)'
    BY RecoversSentObject, PTL
  <2>2. SessionsAgree'
    BY DEF SessionsAgree
  <2> QED BY <1>2, <1>3, <2>1, <2>2 DEF recover_object
<1>6. result'.status = "Ok" /\ result'.object = recover_object(decoder')
  BY DEF CompleteTransfer, Outcome
<1>7. OutcomeIntegrity'
  BY <1>5, <1>6 DEF OutcomeIntegrity
<1> QED BY <1>2, <1>3, <1>4, <1>5, <1>6, <1>7 DEF ReceptionInv

LEMMA DeliverReception ==
    ASSUME SessionsAgree, EsisFit, StraysUnrelated, IInv, NetInv, ReceptionInv,
           NEW d \in in_flight, Receive(d.msg, d.src)
    PROVE  IInv' /\ ReceptionInv'
<1>1. d.msg \in Datagrams /\ d.src \in Peers /\ result = Pending
  BY ArrivalType DEF Receive
<1>2. IInv'
  BY <1>1, ReceiveIInv
<1>3. CASE IgnoreDatagram(d.msg)
  BY <1>2, <1>3, UnchangedReception DEF IgnoreDatagram
<1>4. CASE EstablishSession(d.msg)
  BY <1>1, <1>2, <1>4, EstablishReception
<1>5. CASE AcceptPacket(d.msg)
  <2>1. SessionInv' /\ SymbolsInv'
    BY <1>5, AddReception DEF AcceptPacket
  <2>2. OutcomeIntegrity'
    BY <1>1, <1>5 DEF AcceptPacket, OutcomeIntegrity, Pending
  <2> QED BY <1>2, <2>1, <2>2 DEF ReceptionInv
<1>6. CASE CompleteTransfer(d.msg, d.src)
  BY <1>2, <1>6, CompleteReception
<1> QED BY <1>3, <1>4, <1>5, <1>6 DEF Receive

-----------------------------------------------------------------------------
(* Each kind of step of the system preserves the invariant. *)

LEMMA SendOnWireInv ==
    ASSUME SystemInv, NEW s \in Senders, Job[s].spec.codec.tuning = DefaultTuning, SendOnWire(s)
    PROVE  SystemInv'
<1>1. /\ SenderInv' /\ encodable(s)
      /\ \E i \in 1..(Len(packets[s]) + 1) :
            next_message(s) = message(s, i) /\ fits(message(s, i))
  BY SendStep DEF SendOnWire, SystemInv
<1>2. OfSender(next_message(s), s)
  BY <1>1 DEF OfSender, Plain
<1>3. in_flight' = in_flight \cup {[msg |-> next_message(s), src |-> s]}
  BY DEF SendOnWire, Put
<1>4. NetInv'
  BY <1>2, <1>3 DEF NetInv, SystemInv, OfSender, Plain, encodable
<1>5. UNCHANGED receiver_vars
  BY DEF SendOnWire
<1>6. IInv'
  BY <1>5, StutterIInv DEF SystemInv
<1>7. ReceptionInv'
  BY <1>5, UnchangedReception DEF SystemInv, receiver_vars
<1> QED BY <1>1, <1>4, <1>6, <1>7 DEF SystemInv

LEMMA SenderOnlyInv ==
    ASSUME SystemInv, SenderInv', UNCHANGED <<receiver_vars, net_vars>>
    PROVE  SystemInv'
<1>1. IInv'
  BY StutterIInv DEF SystemInv
<1>2. ReceptionInv'
  BY UnchangedReception DEF SystemInv, receiver_vars
<1>3. NetInv'
  BY DEF SystemInv, NetInv, net_vars, OfSender, Plain, encodable
<1> QED BY <1>1, <1>2, <1>3 DEF SystemInv

LEMMA DeliverInv ==
    ASSUME SessionsAgree, EsisFit, StraysUnrelated, SystemInv, NEW d \in in_flight, Deliver(d)
    PROVE  SystemInv'
<1>1. IInv' /\ ReceptionInv'
  BY DeliverReception DEF Deliver, SystemInv
<1>2. in_flight' \subseteq in_flight
  BY DEF Deliver, Take
<1>3. NetInv'
  BY <1>2 DEF SystemInv, NetInv, OfSender, Plain, encodable
<1>4. SenderInv'
  BY StutterSenderInv DEF SystemInv, Deliver
<1> QED BY <1>1, <1>3, <1>4 DEF SystemInv

\* A datagram is lost, whether or not the budget of the network allows for it.
LEMMA LossInv ==
    ASSUME SystemInv, in_flight' \subseteq in_flight, UNCHANGED <<receiver_vars, sender_vars>>
    PROVE  SystemInv'
<1>1. IInv' /\ SenderInv'
  BY StutterIInv, StutterSenderInv DEF SystemInv
<1>2. ReceptionInv'
  BY UnchangedReception DEF SystemInv, receiver_vars
<1>3. NetInv'
  BY DEF SystemInv, NetInv, OfSender, Plain, encodable
<1> QED BY <1>1, <1>2, <1>3 DEF SystemInv

LEMMA CallFailsInv ==
    ASSUME SystemInv, Timeout \/ IoError
    PROVE  SystemInv'
<1>1. IInv'
  BY FailIInv DEF Timeout, IoError, SystemInv
<1>2. SenderInv' /\ NetInv'
  BY StutterSenderInv DEF Timeout, IoError, SystemInv, NetInv, net_vars, OfSender, Plain, encodable
<1>3. result'.status # "Ok" /\ UNCHANGED <<session, decoder>>
  BY DEF Timeout, IoError, ReceiveTimeout, ReceiveIoError, Failed
<1>4. ReceptionInv'
  BY <1>3, UnchangedReception DEF SystemInv
<1> QED BY <1>1, <1>2, <1>4 DEF SystemInv

LEMMA NextSystemInv ==
    ASSUME SessionsAgree, DefaultTunings, EsisFit, StraysUnrelated
    PROVE  SystemInv /\ [SystemNext]_system_vars => SystemInv'
<1> SUFFICES ASSUME SystemInv, [SystemNext]_system_vars PROVE SystemInv'
  OBVIOUS
<1>1. ASSUME NEW s \in Senders, SendOnWire(s) PROVE SystemInv'
  BY <1>1, SendOnWireInv DEF DefaultTunings
<1>2. ASSUME NEW s \in Senders, SenderLocal(s) \/ SenderCrash(s) PROVE SystemInv'
  <2>1. SenderInv' /\ UNCHANGED <<receiver_vars, net_vars>>
    BY <1>2, LocalStepInv DEF SenderLocal, SenderCrash, SystemInv
  <2> QED BY <2>1, SenderOnlyInv
<1>3. ASSUME NEW d \in in_flight, Deliver(d) PROVE SystemInv'
  BY <1>3, DeliverInv
<1>4. ASSUME NEW d \in in_flight, LoseDatagram(d) PROVE SystemInv'
  BY <1>4, LossInv DEF LoseDatagram, Lose
<1>5. CASE Timeout \/ IoError
  BY <1>5, CallFailsInv
<1>6. CASE UNCHANGED system_vars
  BY <1>6, LossInv DEF system_vars, net_vars
<1> QED BY <1>1, <1>2, <1>3, <1>4, <1>5, <1>6 DEF SystemNext

THEOREM SystemInvariance ==
    ASSUME SessionsAgree, DefaultTunings, EsisFit, StraysUnrelated
    PROVE  SystemSpec => []SystemInv
<1>1. SystemInit => SystemInv
  BY InitSystemInv
<1>2. SystemInv /\ [SystemNext]_system_vars => SystemInv'
  BY NextSystemInv
<1> QED BY <1>1, <1>2, PTL DEF SystemSpec

\* Whatever is lost, duplicated, reordered or sent by others, and whichever sender fails:
\* an object that is returned is the object of the adopted session's senders.
THEOREM OutcomeIsSound ==
    ASSUME SessionsAgree, DefaultTunings, EsisFit, StraysUnrelated
    PROVE  SystemSpec => []OutcomeIntegrity
<1>1. SystemInv => OutcomeIntegrity
  BY DEF SystemInv, ReceptionInv
<1> QED BY <1>1, SystemInvariance, PTL

\* Symbols are only ever accumulated under the spec, tuning included, they were encoded with.
THEOREM SpecsAgree ==
    ASSUME SessionsAgree, DefaultTunings, EsisFit, StraysUnrelated
    PROVE  SystemSpec => []SpecAgreement
<1>1. SystemInv => SpecAgreement
  BY DEF SystemInv, ReceptionInv, SymbolsInv, SpecAgreement
<1> QED BY <1>1, SystemInvariance, PTL

-----------------------------------------------------------------------------
(* The system implements TransferAbstract. *)

ids == {Job[s].session_id : s \in Senders}
object_of ==
    [id \in ids |-> CHOOSE o \in Objects : \E s \in Senders :
        Job[s].session_id = id /\ Job[s].object = o]
adopted_id == IF session = None THEN None ELSE session.session_id
outcome_of ==
    CASE result.status = "Pending" -> Pending
      [] result.status = "Ok" -> [status |-> "Ok", object |-> result.object]
      [] OTHER -> [status |-> "Failed"]

LEMMA ObjectOfSession ==
    ASSUME SessionsAgree, NEW s \in Senders
    PROVE  object_of[Job[s].session_id] = Job[s].object
<1> DEFINE fit(o) == \E q \in Senders : Job[q].session_id = Job[s].session_id /\ Job[q].object = o
<1>1. Job[s].session_id \in ids
  BY DEF ids
<1>2. object_of[Job[s].session_id] = CHOOSE o \in Objects : fit(o)
  BY <1>1 DEF object_of
<1>3. Job[s].object \in Objects /\ fit(Job[s].object)
  BY JobFacts
<1>4. ASSUME NEW o, fit(o) PROVE o = Job[s].object
  BY <1>4 DEF SessionsAgree
<1> HIDE DEF fit
<1> QED BY <1>2, <1>3, <1>4

\* What the refinement mapping substitutes.
LEMMA Mapping ==
    /\ Abstract!AInit <=> adopted_id = None /\ outcome_of = Pending
    /\ Abstract!ANext <=>
          \/ \E id \in ids :
                /\ outcome_of = Pending /\ adopted_id = None
                /\ adopted_id' = id /\ outcome_of' = outcome_of
          \/ /\ outcome_of = Pending /\ adopted_id # None
             /\ outcome_of' = [status |-> "Ok", object |-> object_of[adopted_id]]
             /\ adopted_id' = adopted_id
          \/ /\ outcome_of = Pending
             /\ outcome_of' = [status |-> "Failed"]
             /\ adopted_id' = adopted_id
    /\ UNCHANGED Abstract!avars <=> adopted_id' = adopted_id /\ outcome_of' = outcome_of
BY DEF Abstract!AInit, Abstract!ANext, Abstract!avars, Abstract!Adopt, Abstract!Return,
       Abstract!GiveUp, Abstract!Waiting, ids, object_of, adopted_id, outcome_of, Pending

LEMMA AbstractInit == SystemInit => Abstract!AInit
<1>1. SystemInit => adopted_id = None /\ outcome_of = Pending
  BY DEF SystemInit, ReceiverInit, adopted_id, outcome_of, Pending
<1> QED BY <1>1, Mapping

\* A step that leaves the session and the result alone is not seen.
LEMMA UnseenStep ==
    ASSUME UNCHANGED <<session, result>>
    PROVE  UNCHANGED Abstract!avars
<1>1. adopted_id' = adopted_id /\ outcome_of' = outcome_of
  BY DEF adopted_id, outcome_of
<1> QED BY <1>1, Mapping

LEMMA FailureStep ==
    ASSUME Timeout \/ IoError
    PROVE  Abstract!ANext
<1>1. /\ result = Pending /\ session' = session
      /\ result' = Failed("Timeout") \/ result' = Failed("Io")
  BY DEF Timeout, IoError, ReceiveTimeout, ReceiveIoError
<1>2. outcome_of = Pending /\ outcome_of' = [status |-> "Failed"]
  BY <1>1 DEF outcome_of, Pending, Failed
<1>3. adopted_id' = adopted_id
  BY <1>1 DEF adopted_id
<1> QED BY <1>2, <1>3, Mapping

\* Metadata of a first session adopts it; metadata of the active one only restarts it.
LEMMA EstablishStep ==
    ASSUME StraysUnrelated, SystemInv, NEW d \in in_flight, result = Pending,
           EstablishSession(d.msg)
    PROVE  [Abstract!ANext]_(Abstract!avars)
<1>1. d.src \in Senders /\ d.msg = meta[d.src]
  BY AcceptedIsPlanned DEF EstablishSession, SystemInv, ReceptionInv
<1>2. /\ session' = [session_id |-> d.msg.session_id, spec |-> meta_spec(d.msg)]
      /\ result' = result
  BY DEF EstablishSession
<1>3. d.msg.session_id \in ids
  BY <1>1 DEF meta, session_meta_from_spec, ids
<1>4. d.msg \in Datagrams /\ d.src \in Peers
  BY ArrivalType DEF SystemInv
<1>5. session' # None
  <2>1. IInv' /\ decoder' = new_decoder(meta_spec(d.msg))
    BY <1>4, EstablishIInv DEF SystemInv, EstablishSession
  <2>2. meta_spec(d.msg) \in TransferSpec /\ d.msg \in SessionMeta
    BY <1>4, AcceptedMeta DEF EstablishSession
  <2>3. session' \in Session
    BY <1>2, <2>2 DEF Session, SessionMeta
  <2> QED BY <2>3, ReceiverAssumption
<1>6. adopted_id' = d.msg.session_id
  BY <1>2, <1>5 DEF adopted_id
<1>7. outcome_of = Pending /\ outcome_of' = outcome_of
  BY <1>2 DEF outcome_of, Pending
<1>8. CASE session = None
  BY <1>3, <1>6, <1>7, <1>8, Mapping DEF adopted_id
<1>9. CASE session # None
  <2>1. d.msg.session_id = session.session_id
    BY <1>4, <1>9, AcceptedMeta DEF EstablishSession, foreign
  <2> QED BY <1>6, <1>7, <1>9, <2>1, Mapping DEF adopted_id
<1> QED BY <1>8, <1>9

\* The packet that completes decoding returns the object sent under the adopted id.
LEMMA CompletionStep ==
    ASSUME SessionsAgree, EsisFit, StraysUnrelated, SystemInv, NEW d \in in_flight,
           result = Pending, CompleteTransfer(d.msg, d.src)
    PROVE  Abstract!ANext
<1>1. PICK s \in own_senders : result'.object = Job[s].object
  BY CompleteReception DEF SystemInv
<1>2. session # None /\ session' = session /\ result'.status = "Ok"
  BY CompleteReception DEF SystemInv
<1>3. s \in Senders /\ session.session_id = Job[s].session_id
  BY <1>1 DEF own_senders
<1>4. object_of[session.session_id] = Job[s].object
  BY <1>3, ObjectOfSession
<1>5. outcome_of = Pending
  BY DEF outcome_of, Pending
<1>6. outcome_of' = [status |-> "Ok", object |-> result'.object]
  BY <1>2 DEF outcome_of
<1>7. adopted_id' = adopted_id /\ adopted_id = session.session_id
  BY <1>2 DEF adopted_id
<1>8. adopted_id # None
  BY <1>2, <1>3, <1>7, JobFacts, ReceiverAssumption
<1> QED BY <1>1, <1>4, <1>5, <1>6, <1>7, <1>8, Mapping

LEMMA AbstractStep ==
    ASSUME SessionsAgree, EsisFit, StraysUnrelated, SystemInv, [SystemNext]_system_vars
    PROVE  [Abstract!ANext]_(Abstract!avars)
<1>1. ASSUME NEW d \in in_flight, Deliver(d)
      PROVE  [Abstract!ANext]_(Abstract!avars)
  <2>1. result = Pending /\ Receive(d.msg, d.src)
    BY <1>1 DEF Deliver, Receive
  <2>2. CASE EstablishSession(d.msg)
    BY <2>1, <2>2, EstablishStep
  <2>3. CASE CompleteTransfer(d.msg, d.src)
    BY <2>1, <2>3, CompletionStep
  <2>4. CASE IgnoreDatagram(d.msg) \/ AcceptPacket(d.msg)
    <3>1. UNCHANGED <<session, result>>
      BY <2>4 DEF IgnoreDatagram, AcceptPacket, AddPacket
    <3> QED BY <3>1, UnseenStep
  <2> QED BY <2>1, <2>2, <2>3, <2>4 DEF Receive
<1>2. CASE Timeout \/ IoError
  BY <1>2, FailureStep
<1>3. \/ \E d \in in_flight : Deliver(d)
      \/ Timeout \/ IoError
      \/ UNCHANGED receiver_vars
  BY DEF SystemNext, SendOnWire, SenderLocal, SenderCrash, LoseDatagram, system_vars
<1>4. CASE UNCHANGED receiver_vars
  BY <1>4, UnseenStep DEF receiver_vars
<1> QED BY <1>1, <1>2, <1>3, <1>4

\* The receive call among its senders refines the abstract receiver: one session, kept,
\* and its object or an error, once.
THEOREM SystemRefinesAbstract ==
    ASSUME SessionsAgree, DefaultTunings, EsisFit, StraysUnrelated
    PROVE  SystemSpec => ImplementsAbstract
<1>1. SystemInit => Abstract!AInit
  BY AbstractInit
<1>2. SystemInv /\ [SystemNext]_system_vars => [Abstract!ANext]_(Abstract!avars)
  BY AbstractStep
<1> QED
  BY <1>1, <1>2, SystemInvariance, PTL DEF SystemSpec, ImplementsAbstract, Abstract!ASpec
===============================================================================
