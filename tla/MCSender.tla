------------------------------- MODULE MCSender -------------------------------
(***************************************************************************)
(* Five independent senders, one per kind of job: RaptorQ with two repair  *)
(* rounds, Raptor10 with ESIs on both sides of U32, a symbol size whose    *)
(* metadata fits and whose packets do not, one that does not fit the       *)
(* metadata's u16, and an object whose length is not that of the spec.     *)
(***************************************************************************)
EXTENDS PrintedSender

CONSTANTS a, b, sid, dflt, garbled

MCObjects == {a, b}
MCObjectLen == [o \in MCObjects |-> IF o = a THEN 4 ELSE 65538]
MCTunings == {dflt}
MCBlockSizes == 1..2
MCNumTotal(kind, k) == k + 3
MCDecodable(k, ids) == Cardinality(ids) >= k

Spec(f, t, kind) == new_spec(f, t, kind)
MCJob ==
    [s \in {"rounds", "raptor10", "too_large", "truncated", "wrong_length"} |->
        LET base == [session_id |-> sid, spec |-> Spec(4, 2, "RaptorQ"), object |-> a,
                     repair_count |-> 2, repair_rounds |-> 2, progress |-> TRUE]
        IN CASE s = "rounds" -> base
             [] s = "raptor10" -> [base EXCEPT !.spec = Spec(4, 2, "Raptor10"), !.progress = FALSE]
             [] s = "too_large" -> [base EXCEPT !.spec = Spec(65538, 65500, "RaptorQ"), !.object = b]
             [] s = "truncated" -> [base EXCEPT !.spec = Spec(65538, 65538, "RaptorQ"), !.object = b]
             [] s = "wrong_length" -> [base EXCEPT !.spec = Spec(5, 2, "RaptorQ")]]
MCSenders == DOMAIN MCJob
MCRaptor10Senders == {"raptor10"}
MCRaptor10Job == [s \in MCRaptor10Senders |-> MCJob[s]]
=============================================================================
