----------------------------- MODULE PrintedSender -----------------------------
(***************************************************************************)
(* `fountain send --progress': Sender with the printer as its progress     *)
(* callback.                                                               *)
(***************************************************************************)
EXTENDS Sender, ProgressPrinter

VARIABLE screen  \* screen[s]: the lines sender s has printed

printed_sender_vars == <<sender_vars, screen>>

PrintedSenderInit == SenderInit /\ screen = [s \in Senders |-> <<>>]

\* Every event of s is handed to emit; no sender event depends on the band.
PrintedSenderStep(s) ==
    /\ SenderStep(s)
    /\ screen' = IF report'[s] # report[s] /\ emits_line(0, report'[s])
                 THEN [screen EXCEPT ![s] = Append(@, report'[s])] ELSE screen

PrintedSenderNext == \E s \in Senders : PrintedSenderStep(s)

\* Nothing in a sender blocks forever: UDP sends and the pacing sleep complete.  That
\* a socket fails is possible and never relied on.
PrintedSenderSpec ==
    /\ PrintedSenderInit /\ [][PrintedSenderNext]_printed_sender_vars
    /\ \A s \in Senders :
          WF_printed_sender_vars((LocalStep(s) \/ Send(s)) /\ PrintedSenderStep(s))

-----------------------------------------------------------------------------
\* The packets of a kind that the last line about it reports.
reported(lines, kind) ==
    LET of_kind == {i \in DOMAIN lines : lines[i].type = kind}
    IN  IF of_kind = {} THEN 0 ELSE lines[Max(of_kind)].sent

\* "Throttled to every 100 packets, with start and finish events always reported": the
\* screen lags behind the socket by less than a sample, shows each part in full once it is
\* out, and ends with the completion line exactly if the call returned Ok.
SenderScreenIsFresh ==
    \A s \in Senders : Job[s].progress /\ sent[s] # <<>> =>
        LET source_sent == IF packets_sent(s) < Len(source[s]) THEN packets_sent(s) ELSE Len(source[s])
            repair_sent == packets_sent(s) - source_sent
            fresh(kind, n, total) ==
                /\ n - reported(screen[s], kind) \in 0..(SampleEvery - 1)
                /\ n = total => reported(screen[s], kind) = total
        IN  /\ fresh("SenderSourcePacketSent", source_sent, Len(source[s]))
            /\ fresh("SenderRepairPacketSent", repair_sent, Len(repair[s]))
            /\ screen[s][Len(screen[s])].type = "SenderFinished" <=> phase[s] = "Finished"
=============================================================================
