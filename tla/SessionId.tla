------------------------------- MODULE SessionId -------------------------------
(***************************************************************************)
(* random_session_id of session.rs: the clock, in nanoseconds since 1970,  *)
(* xored with itself shifted right by half an identifier.  Numbers are     *)
(* functions from bit positions to BOOLEAN, so that xor is #.              *)
(***************************************************************************)
EXTENDS Integers, TLAPS

CONSTANT Half  \* bits shifted by: 32

\* as_nanos() is a u128, and zero on a clock before 1970; a session id is a u64.
Nanos == [0..(4 * Half - 1) -> BOOLEAN]
Id == [0..(2 * Half - 1) -> BOOLEAN]

random_session_id(nanos) == [i \in 0..(2 * Half - 1) |-> nanos[i] # nanos[i + Half]]

\* The reading fits in a u64, as it does until the year 2554.
fits_u64(nanos) == \A i \in (2 * Half)..(4 * Half - 1) : nanos[i] = FALSE

-----------------------------------------------------------------------------
\* An identifier is a u64, for every reading of the clock.
LEMMA IdType ==
    ASSUME Half \in Nat, NEW n \in Nanos
    PROVE  random_session_id(n) \in Id
BY DEF random_session_id, Id, Nanos

\* The upper half of an identifier is that half of the reading.
LEMMA UpperHalf ==
    ASSUME Half \in Nat, NEW n \in Nanos, fits_u64(n), NEW i \in Half..(2 * Half - 1)
    PROVE  random_session_id(n)[i] = n[i]
<1>1. i \in 0..(2 * Half - 1) /\ i \in 0..(4 * Half - 1) /\ i + Half \in (2 * Half)..(4 * Half - 1)
  OBVIOUS
<1>2. n[i + Half] = FALSE
  BY <1>1 DEF fits_u64
<1>3. random_session_id(n)[i] = (n[i] # n[i + Half])
  BY <1>1 DEF random_session_id
<1>4. n[i] \in BOOLEAN
  BY <1>1 DEF Nanos
<1> QED BY <1>2, <1>3, <1>4

\* The fold loses nothing: two senders draw the same session id only if they read the
\* same nanosecond (or both have a clock set before 1970).
THEOREM SessionIdsDistinct ==
    ASSUME Half \in Nat, NEW a \in Nanos, NEW b \in Nanos, fits_u64(a), fits_u64(b),
           random_session_id(a) = random_session_id(b)
    PROVE  a = b
<1>1. SUFFICES ASSUME NEW i \in 0..(4 * Half - 1) PROVE a[i] = b[i]
  BY DEF Nanos
<1>2. CASE i >= 2 * Half
  <2>1. i \in (2 * Half)..(4 * Half - 1)
    BY <1>2
  <2> QED BY <2>1 DEF fits_u64
<1>3. CASE i >= Half /\ i < 2 * Half
  <2>1. i \in Half..(2 * Half - 1)
    BY <1>3
  <2> QED BY <2>1, UpperHalf
<1>4. CASE i < Half
  <2>1. i \in 0..(2 * Half - 1) /\ i + Half \in Half..(2 * Half - 1)
        /\ i + Half \in 0..(4 * Half - 1)
    BY <1>4
  <2>2. a[i + Half] = b[i + Half]
    BY <2>1, UpperHalf
  <2>3. (a[i] # a[i + Half]) = (b[i] # b[i + Half])
    <3>1. /\ random_session_id(a)[i] = (a[i] # a[i + Half])
          /\ random_session_id(b)[i] = (b[i] # b[i + Half])
      BY <2>1 DEF random_session_id
    <3> QED BY <3>1
  <2>4. /\ a[i] \in BOOLEAN /\ a[i + Half] \in BOOLEAN
        /\ b[i] \in BOOLEAN /\ b[i + Half] \in BOOLEAN
    BY <2>1 DEF Nanos
  <2> QED BY <2>2, <2>3, <2>4
<1> QED BY <1>2, <1>3, <1>4
=============================================================================
