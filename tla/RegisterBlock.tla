---------------------------- MODULE RegisterBlock ----------------------------
(***************************************************************************)
(* Arrays of registers (greens-pci/src/utils/register_block.rs and         *)
(* utils/mod.rs): what the device stores with "set" is taken as it is, what *)
(* the guest stores with "write" goes through a mask of writable bits.     *)
(*                                                                         *)
(* A byte is the set of its bits that are 1; an array and the data of an   *)
(* access are functions from 0 .. size - 1 to bytes.                       *)
(***************************************************************************)
EXTENDS Integers

CONSTANT Width  \* bits of a byte (8)

ASSUME WidthAssumption == Width \in Nat \ {0}

Bits == 0 .. Width - 1
Byte == SUBSET Bits
Ones == Bits

\* Arrays of n bytes.
Bytes(n) == [0 .. n - 1 -> Byte]

\* validate_bounds, for an array of len bytes.
InBounds(len, offset, size) == offset + size <= len

\* read
Read(arr, offset, size) == [i \in 0 .. size - 1 |-> arr[offset + i]]

\* set: the data of the device replaces what was there.
Set(arr, offset, data) ==
  [o \in DOMAIN arr |->
     IF o - offset \in DOMAIN data THEN data[o - offset] ELSE arr[o]]

UpdateRegisterInverted(current, new, writable) ==
  (current \cap writable) \cup (new \ writable)

\* update_register: the writable bits of new, the other bits of current.
UpdateRegister(current, new, writable) == (current \ writable) \cup (new \cap writable)

\* write: the data of the guest, under the mask.
Write(arr, mask, offset, data) ==
  [o \in DOMAIN arr |->
     IF o - offset \in DOMAIN data
       THEN UpdateRegister(arr[o], data[o - offset], mask[o]) ELSE arr[o]]

=============================================================================
