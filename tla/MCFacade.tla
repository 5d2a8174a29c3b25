------------------------------- MODULE MCFacade -------------------------------
(***************************************************************************)
(* All objects over two byte values and all symbol sizes, up to a bound.   *)
(* The transfers of the short ones are played out, in both codecs, as are  *)
(* those of a spec with a length of zero, another length than the object's *)
(* or a symbol size of zero.                                               *)
(***************************************************************************)
EXTENDS Facade

CONSTANTS
    MaxLength,  \* bound on the objects' length
    MaxSymbol,  \* bound on the symbol size
    dflt

Bytes == {0, 1}
MCObjects == UNION {[1..n -> Bytes] : n \in 1..MaxLength}
MCObjectLen == [o \in MCObjects |-> Len(o)]
MCTunings == {dflt}
MCBlockSizes == 0..MaxLength
MCNumTotal(kind, kk) == kk + 2
MCDecodable(kk, ids) == ids # {} /\ (0..(kk - 1) \subseteq ids \/ Cardinality(ids) > kk)
MCGarbled == <<>>

MCTransfers ==
    {[spec |-> new_spec(Len(o), t, "RaptorQ"), object |-> o] : o \in MCObjects, t \in 1..MaxSymbol}
    \cup {[spec |-> new_spec(3, 2, "Raptor10"), object |-> o] : o \in [1..3 -> Bytes]}
    \cup {[spec |-> new_spec(n, 2, "RaptorQ"), object |-> <<1, 1>>] : n \in {0, 3}}
    \cup {[spec |-> new_spec(2, 0, "RaptorQ"), object |-> <<1, 1>>]}

\* A symbol of another source block, and one of a symbol size no transfer uses.
MCForeignPackets ==
    LET symbol(t) == EncodedSymbol(new_spec(3, t, "RaptorQ"), <<0, 1, 0>>, 0)
    IN  {[sbn |-> 1, esi |-> 0, symbol |-> symbol(2)], [sbn |-> 0, esi |-> 0, symbol |-> symbol(MaxSymbol + 1)]}
=============================================================================
