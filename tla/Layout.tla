------------------------------- MODULE Layout -------------------------------
(***************************************************************************)
(* How an object is laid out as the K source symbols of its single source  *)
(* block, and put together again (rfc6330_layout.rs; rfc5053_layout.rs is  *)
(* the same code).  Bytes are values of any kind: only 0, the byte used    *)
(* for padding, is named.  The asserts of the source are the domains on    *)
(* which these operators are applied.                                      *)
(***************************************************************************)
EXTENDS Integers, Sequences

\* Mutant of calc_k: an incomplete last symbol is not counted.
calc_k_Floor(transfer_length_f, symbol_size_t) == transfer_length_f \div symbol_size_t

\* usize::div_ceil
calc_k(transfer_length_f, symbol_size_t) ==
    (transfer_length_f + symbol_size_t - 1) \div symbol_size_t

\* Mutant of pad_object_to_k_symbols: the zeroes come first.
pad_object_to_k_symbols_Front(object, k, symbol_size) ==
    [i \in 1..(k * symbol_size - Len(object)) |-> 0] \o object

\* `object' followed by zeroes up to k * symbol_size bytes.
pad_object_to_k_symbols(object, k, symbol_size) ==
    object \o [i \in 1..(k * symbol_size - Len(object)) |-> 0]

\* The byte ranges the encoders insert as source symbols.
split_into_symbols(padded, k, symbol_size) ==
    [i \in 1..k |-> SubSeq(padded, (i - 1) * symbol_size + 1, i * symbol_size)]

\* Concatenation of fixed-size symbols, truncated to the object's length.
assemble_payload_from_symbols(symbols, transfer_length_f, symbol_size) ==
    LET total == Len(symbols) * symbol_size
        length == IF transfer_length_f < total THEN transfer_length_f ELSE total
    IN  [i \in 1..length |->
            symbols[(i - 1) \div symbol_size + 1][((i - 1) % symbol_size) + 1]]
=============================================================================
