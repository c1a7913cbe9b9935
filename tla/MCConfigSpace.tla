---------------------------- MODULE MCConfigSpace ----------------------------
(* ConfigSpace for TLC: bytes of five bits, and room for three capabilities:  *)
(* without writable bits, with a writable byte, with one writable bit.       *)
EXTENDS ConfigSpace

\* A capability of n bytes whose last byte has the writable bits w.
Cap(id, n, w) ==
  [id |-> {id}, size |-> n,
   registers |-> [i \in 0 .. n - 1 |-> IF i = n - 1 THEN {0} ELSE {}],
   writable |-> [i \in 0 .. n - 1 |-> IF i = n - 1 THEN w ELSE {}]]

MCCapabilities == {Cap(0, 1, {}), Cap(0, 3, {2}), Cap(1, 2, Ones)}
MCValues == {{}, Ones}
=============================================================================
