--------------------------- MODULE TransferAbstract ---------------------------
(***************************************************************************)
(* What a receive_object call promises its caller: it adopts at most one   *)
(* session, and returns the object of that session or an error, once.      *)
(***************************************************************************)
CONSTANTS
    Ids,       \* session identifiers
    Sent,      \* Sent[id]: the object sent under id
    NoSession

VARIABLES
    adopted,  \* the session adopted, or NoSession
    outcome   \* Pending, Failed, or Ok with the object returned

avars == <<adopted, outcome>>

Waiting == [status |-> "Pending"]

AInit == adopted = NoSession /\ outcome = Waiting

Adopt(id) ==
    /\ outcome = Waiting
    /\ adopted = NoSession
    /\ adopted' = id
    /\ UNCHANGED outcome

Return ==
    /\ outcome = Waiting
    /\ adopted # NoSession
    /\ outcome' = [status |-> "Ok", object |-> Sent[adopted]]
    /\ UNCHANGED adopted

GiveUp ==
    /\ outcome = Waiting
    /\ outcome' = [status |-> "Failed"]
    /\ UNCHANGED adopted

ANext == (\E id \in Ids : Adopt(id)) \/ Return \/ GiveUp

ASpec == AInit /\ [][ANext]_avars
=============================================================================
