------------------------------- MODULE Network -------------------------------
(***************************************************************************)
(* The UDP network between the senders' sockets and the receiver's: an     *)
(* unordered set of datagrams in flight that may lose a datagram or        *)
(* deliver it more than once.  It is not part of this repository; budgets  *)
(* bound the two faults.                                                   *)
(***************************************************************************)
EXTENDS Naturals

CONSTANTS
    Strays,        \* datagrams in flight from the start, from other programs or runs
    MaxLost,       \* bound on losses
    MaxDuplicated  \* bound on duplications

VARIABLES
    in_flight,  \* datagrams [msg, src] not yet delivered
    lost,
    duplicated

net_vars == <<in_flight, lost, duplicated>>

NetInit ==
    /\ in_flight = Strays
    /\ lost = 0
    /\ duplicated = 0

Put(msg, src) ==
    /\ in_flight' = in_flight \cup {[msg |-> msg, src |-> src]}
    /\ UNCHANGED <<lost, duplicated>>

\* Delivery takes the datagram out, or leaves a copy behind.
Take(d) ==
    /\ d \in in_flight
    /\ \/ /\ in_flight' = in_flight \ {d}
          /\ UNCHANGED <<lost, duplicated>>
       \/ /\ duplicated < MaxDuplicated
          /\ duplicated' = duplicated + 1
          /\ UNCHANGED <<in_flight, lost>>

Lose(d) ==
    /\ d \in in_flight
    /\ lost < MaxLost
    /\ lost' = lost + 1
    /\ in_flight' = in_flight \ {d}
    /\ UNCHANGED duplicated
=============================================================================
