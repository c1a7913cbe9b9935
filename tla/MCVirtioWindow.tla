--------------------------- MODULE MCVirtioWindow ---------------------------
(* VirtioWindow for TLC: structures eight bytes apart in a BAR of 64.  The    *)
(* driver selects the common configuration with a length it can and one it   *)
(* cannot be read with, the ISR byte, the byte and the gap behind it, an     *)
(* access beyond the end of the BAR, a length that is too large, and a BAR   *)
(* that does not exist.                                                      *)
EXTENDS VirtioWindow

Selection(bar, offset, length) == [bar |-> bar, offset |-> offset, length |-> length]

MCSelections ==
  {Selection(0, 0, 1), Selection(0, 0, 3), Selection(0, 8, 1), Selection(0, 8, 3),
   Selection(0, 63, 3), Selection(0, 8, 5), Selection(1, 8, 1)}
=============================================================================
