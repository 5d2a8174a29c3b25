------------------------------ MODULE MCRestarts ------------------------------
(***************************************************************************)
(* A session id used again, for another object of the same length, while   *)
(* packets of the first are still in flight.                               *)
(***************************************************************************)
EXTENDS MCTransfer, TransferRestarts

SessionReused ==
    [s \in {"first", "again"} |-> IF s = "first" THEN BaseJob ELSE [BaseJob EXCEPT !.object = b]]
=============================================================================
