--------------------------- MODULE TransferRestarts ---------------------------
(***************************************************************************)
(* Transfer with a history of the receiver's accumulations, to tell the    *)
(* datagrams that a restart has made stale from the others.  Nothing in    *)
(* the program holds this history, and no step depends on it.              *)
(***************************************************************************)
EXTENDS Transfer

VARIABLE
    accumulations  \* one entry per accepted SessionMeta: its sender, and what was in
                   \* flight when it started the accumulation

restarts_vars == <<system_vars, accumulations>>

RestartsInit == SystemInit /\ accumulations = <<>>

\* Metadata that the receiver accepts starts an accumulation.
starts_over(d) == d.msg.type = "SessionMeta" /\ verdict(d.msg) = "Accepted"

RecordDelivery(d) ==
    /\ Deliver(d)
    /\ accumulations' =
          IF starts_over(d)
          THEN Append(accumulations, [src |-> d.src, overtaken |-> in_flight'])
          ELSE accumulations

RestartsNext ==
    \/ \E d \in in_flight : RecordDelivery(d)
    \/ /\ \/ \E s \in Senders : SendOnWire(s) \/ SenderLocal(s) \/ SenderCrash(s)
          \/ \E d \in in_flight : LoseDatagram(d)
          \/ Timeout
          \/ IoError
       /\ UNCHANGED accumulations

RestartsSpec == RestartsInit /\ [][RestartsNext]_restarts_vars

-----------------------------------------------------------------------------
\* The datagrams a restart has overtaken: sent, before the metadata that started the
\* present accumulation was accepted, by the sender of an earlier one of another object.
stale ==
    IF accumulations = <<>> THEN {}
    ELSE LET present == Last(accumulations)
             earlier == {accumulations[i].src : i \in 1..(Len(accumulations) - 1)}
         IN  {d \in present.overtaken :
                 d.src \in earlier /\ Job[d.src].object # Job[present.src].object}

\* "Malformed, stale, and foreign datagrams are ignored ...  A new SessionMeta with the
\* same session id intentionally resets the decoder and starts accumulation over"
\* (README.md:91-95): no symbol the decoder holds came with a datagram that the restart
\* has made stale.
StaleDatagramsIgnored ==
    session # None =>
        \A x \in decoder.symbols, d \in stale :
            d.msg.type = "Packet" => d.msg.symbol # x.symbol
=============================================================================
