---------------------------- MODULE TimedReceiver ----------------------------
(***************************************************************************)
(* Receiver with the clock of recv_datagram_timeout (net.rs): every call   *)
(* of it waits at most recv_timeout for a datagram, any datagram, and the  *)
(* loop of Receiver calls it anew for each.  A datagram that arrives in    *)
(* the very tick of the deadline may still win against it.                 *)
(***************************************************************************)
EXTENDS Receiver

CONSTANT recv_timeout  \* in ticks

ASSUME TimeoutAssumption == recv_timeout \in Nat \ {0}

VARIABLES
    waiting,  \* ticks since the present wait for a datagram began
    quiet     \* ticks since the receiver last accepted a datagram, or started

timed_vars == <<receiver_vars, waiting, quiet>>

TimedInit == ReceiverInit /\ waiting = 0 /\ quiet = 0

\* An accepted datagram: not one that emit_ignored counts.
matching == ignored_datagrams' = ignored_datagrams

\* Mutant of TimedReceive: one deadline for the whole call.
TimedReceive_OneDeadline(m, peer) ==
    /\ Receive(m, peer)
    /\ UNCHANGED waiting
    /\ quiet' = IF matching THEN 0 ELSE quiet

\* An iteration of the loop; the next one waits afresh.
TimedReceive(m, peer) ==
    /\ Receive(m, peer)
    /\ waiting' = 0
    /\ quiet' = IF matching THEN 0 ELSE quiet

\* Time passes, up to the deadline; quiet is only counted a little beyond recv_timeout.
Tick ==
    /\ result = Pending
    /\ waiting < recv_timeout
    /\ waiting' = waiting + 1
    /\ quiet' = IF quiet > recv_timeout THEN quiet ELSE quiet + 1
    /\ UNCHANGED receiver_vars

TimedTimeout ==
    /\ waiting = recv_timeout
    /\ ReceiveTimeout
    /\ UNCHANGED <<waiting, quiet>>

\* The socket's error is passed on at once, however long the wait has been.
TimedIoError ==
    /\ ReceiveIoError
    /\ UNCHANGED <<waiting, quiet>>

TimedNext ==
    \/ \E m \in Datagrams, peer \in Peers :
          /\ ignored_datagrams < MaxIgnored
          /\ packets_received < MaxAccepted
          /\ TimedReceive(m, peer)
    \/ Tick
    \/ TimedTimeout
    \/ TimedIoError

TimedSpec == TimedInit /\ [][TimedNext]_timed_vars

\* Time passes and a timer that is due fires; that datagrams arrive is not assumed.
FairTimedSpec == TimedSpec /\ WF_timed_vars(Tick) /\ WF_timed_vars(TimedTimeout)

-----------------------------------------------------------------------------
\* No transfer is given up while matching datagrams keep arriving: a timeout is only
\* reported after recv_timeout without an accepted one.
TimeoutOnlyAfterSilence == result.status = "Timeout" => quiet >= recv_timeout

\* Either the call returns or datagrams never stop arriving.
ReturnsOrKeepsReceiving ==
    \/ <>(result # Pending)
    \/ []<><<\E m \in Datagrams, peer \in Peers : TimedReceive(m, peer)>>_timed_vars

\* "Exit if no matching datagram arrives for this many seconds" (main.rs:96): the wait
\* for a matching datagram never exceeds the timeout.
ExitsWithoutMatchingDatagram == result = Pending => quiet <= recv_timeout
=============================================================================
