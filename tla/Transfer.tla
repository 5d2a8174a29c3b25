------------------------------- MODULE Transfer -------------------------------
(***************************************************************************)
(* A receiver and the senders that address it, over the network: the       *)
(* composition of Sender, Network and Receiver.                            *)
(***************************************************************************)
EXTENDS Receiver, Sender, Network

\* The datagrams and addresses that may arrive include those of the senders and the strays.
ASSUME NetworkAssumption ==
    /\ Senders \subseteq Peers
    /\ \A s \in Senders : encodable(s) =>
          /\ meta[s] \in Datagrams
          /\ \A i \in DOMAIN packets[s] : packets[s][i] \in Datagrams
    /\ \A d \in Strays : d.msg \in Datagrams /\ d.src \in Peers

system_vars == <<receiver_vars, sender_vars, net_vars>>

SystemInit == ReceiverInit /\ SenderInit /\ NetInit

-----------------------------------------------------------------------------
SendOnWire(s) ==
    /\ Send(s)
    /\ Put(next_message(s), s)
    /\ UNCHANGED receiver_vars

SenderLocal(s) ==
    /\ LocalStep(s)
    /\ UNCHANGED <<receiver_vars, net_vars>>

SenderCrash(s) ==
    /\ SendIoError(s)
    /\ UNCHANGED <<receiver_vars, net_vars>>

Deliver(d) ==
    /\ Take(d)
    /\ Receive(d.msg, d.src)
    /\ UNCHANGED sender_vars

LoseDatagram(d) ==
    /\ result = Pending
    /\ Lose(d)
    /\ UNCHANGED <<receiver_vars, sender_vars>>

\* Nothing is on its way and nothing will be sent any more.
Silent ==
    /\ in_flight = {}
    /\ \A s \in Senders : phase[s] \in {"Finished", "Failed"}

Timeout == ReceiveTimeout /\ UNCHANGED <<sender_vars, net_vars>>
IoError == ReceiveIoError /\ UNCHANGED <<sender_vars, net_vars>>

SystemNext ==
    \/ \E s \in Senders : SendOnWire(s) \/ SenderLocal(s) \/ SenderCrash(s)
    \/ \E d \in in_flight : Deliver(d) \/ LoseDatagram(d)
    \/ Timeout
    \/ IoError

\* Safety: the idle timeout may be short against the network's delays.
SystemSpec == SystemInit /\ [][SystemNext]_system_vars

\* Liveness: no I/O errors, and an idle timeout above every gap between datagrams.
Undisturbed ==
    \/ \E s \in Senders : SendOnWire(s) \/ SenderLocal(s)
    \/ \E d \in in_flight : Deliver(d) \/ LoseDatagram(d)
    \/ Silent /\ Timeout

\* The senders run; what is not lost is delivered; the timer of tokio's timeout fires.
FairSystemSpec ==
    /\ SystemInit /\ [][Undisturbed]_system_vars
    /\ \A s \in Senders : WF_system_vars(SendOnWire(s) \/ SenderLocal(s))
    /\ WF_system_vars(\E d \in in_flight : Deliver(d))
    /\ WF_system_vars(Silent /\ Timeout)

-----------------------------------------------------------------------------
(* What the transfer relies on and the wire format cannot check.           *)

\* Senders that use one session id send the same object under the same spec.
SessionsAgree ==
    \A s, q \in Senders : Job[s].session_id = Job[q].session_id =>
        Job[s].object = Job[q].object /\ Job[s].spec = Job[q].spec

\* The codec settings the metadata has no field for are the defaults.
DefaultTunings == \A s \in Senders : Job[s].spec.codec.tuning = DefaultTuning

\* The ESIs fit their 32 bits: a sender holds all its packets in memory.
EsisFit == \A s \in Senders : \A i \in DOMAIN packets[s] : planned(s)[i].esi < U32

\* Other programs' metadata cannot be adopted, and their packets are of no session here.
StraysUnrelated ==
    \A m \in {d.msg : d \in Strays} :
        /\ m.type = "SessionMeta" =>
              \/ m.version # WIRE_VERSION
              \/ expected_session_id # None /\ m.session_id # expected_session_id
        /\ m.type = "Packet" =>
              \/ m.version # WIRE_VERSION
              \/ m.session_id \notin {Job[s].session_id : s \in Senders}

-----------------------------------------------------------------------------
\* The senders of the session the receiver has adopted.
own_senders == {s \in Senders : session # None /\ Job[s].session_id = session.session_id}

\* A call that returns an object returns what a sender of the adopted session was given:
\* never bytes decoded from a mixture, through loss, duplication, reordering, strays,
\* foreign senders and early timeouts.
OutcomeIntegrity ==
    result.status = "Ok" => \E s \in own_senders : result.object = Job[s].object

\* Sender and receiver share the transfer parameters (session.rs:1): symbols are only
\* accumulated under the spec, codec settings included, they were encoded with.
SpecAgreement ==
    session # None /\ decoder.symbols # {} => \E s \in own_senders : decoder.spec = Job[s].spec

\* The system implements TransferAbstract, whose object of a session is that of its senders.
Abstract ==
    INSTANCE TransferAbstract WITH
        Ids <- {Job[s].session_id : s \in Senders},
        Sent <- [id \in {Job[s].session_id : s \in Senders} |->
                    CHOOSE o \in Objects : \E s \in Senders :
                        Job[s].session_id = id /\ Job[s].object = o],
        NoSession <- None,
        adopted <- IF session = None THEN None ELSE session.session_id,
        outcome <- CASE result.status = "Pending" -> Pending
                     [] result.status = "Ok" -> [status |-> "Ok", object |-> result.object]
                     [] OTHER -> [status |-> "Failed"]

\* One session is adopted and kept, and its object is returned at most once: the receive
\* call refines the abstract receiver.
ImplementsAbstract == Abstract!ASpec

\* The coded ids of packets that can still reach the decoder.
remaining ==
    LET unsent(s) ==
            IF phase[s] \in {"Idle", "Sending"}
            THEN {packets[s][i] : i \in {j \in DOMAIN packets[s] : j > packets_sent(s)}}
            ELSE {}
        coming == {d.msg : d \in in_flight} \cup UNION {unsent(s) : s \in own_senders}
    IN  {coded_id_of(session.spec, m.esi) :
            m \in {x \in coming : x.type = "Packet" /\ x.session_id = session.session_id}}

\* Nothing will restart the accumulation, and whatever the network may still lose,
\* the decoder's symbols and the packets to come decode.
EnoughRemains ==
    /\ session # None
    /\ \A s \in own_senders : sent[s] # <<>>
    /\ ~\E d \in in_flight : d.msg.type = "SessionMeta" /\ d.msg.session_id = session.session_id
    /\ \A gone \in SUBSET remaining :
          Cardinality(gone) + lost <= MaxLost =>
              Decodable(num_source(session.spec), coded_ids(decoder) \cup (remaining \ gone))

\* The point of a fountain code: once the session stands, losses within the repair budget,
\* duplicates, reordering and other senders' traffic cannot stop the transfer.
CompletesIfEnoughRemains == (result = Pending /\ EnoughRemains) ~> (result.status = "Ok")

\* The receive call returns, whatever was lost, the metadata included.
ReceiverReturns == <>(result # Pending)
=============================================================================
