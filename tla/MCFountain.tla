------------------------------ MODULE MCFountain ------------------------------
(***************************************************************************)
(* One file of one symbol, sent with two repair symbols and then once more *)
(* to make up for a receiver that was away, under one session id, and a    *)
(* command whose codec is misspelt.                                        *)
(***************************************************************************)
EXTENDS MCTransfer, Fountain

CONSTANTS missing, oldfile, torn

MCCommand ==
    LET base == [path |-> c, resolves |-> TRUE, codec |-> "raptorq", symbol_size |-> 2,
                 repair_count |-> 2, repair_rounds |-> 1, session_id |-> id1, progress |-> FALSE]
    IN  [s \in {"first", "again", "typo"} |->
            CASE s = "first" -> base
              [] s = "again" -> [base EXCEPT !.repair_count = 0]
              [] s = "typo" -> [base EXCEPT !.codec = "raptor", !.session_id = id2]]
MCJob ==
    [s \in DOMAIN MCCommand |->
        IF s = "typo" THEN job([MCCommand[s] EXCEPT !.codec = "raptorq"]) ELSE job(MCCommand[s])]

\* The hypotheses of the theorems about Fountain hold of these commands.
ASSUME HypothesesHold == SessionsAgree /\ DefaultTunings /\ EsisFit /\ StraysUnrelated
=============================================================================
