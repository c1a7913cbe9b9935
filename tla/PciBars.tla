------------------------------ MODULE PciBars ------------------------------
(***************************************************************************)
(* The Base Address Registers of a PCI function                            *)
(* (greens-pci/src/configuration_space.rs and bar.rs) and what the rest of *)
(* the function makes of them: the events of write_config and the search   *)
(* for the BAR of an access (function.rs).                                 *)
(*                                                                         *)
(* Addresses and sizes are counted in units of the smallest BAR, so the    *)
(* type bits at the bottom of a register are left out; a register holds a  *)
(* value below Dword, a 64-bit BAR spans two registers.  A write of a part *)
(* of a register is a write of the value that results.                     *)
(***************************************************************************)
EXTENDS Integers

CONSTANTS
  NumBarRegs,  \* BAR registers (6)
  HeaderBars,  \* registers the header type offers (6 for type 0)
  Dword,       \* values of a register (2^32)
  MaxSize,     \* by type, the largest BAR (256, 2^31 and 2^63 bytes)
  None         \* no BAR, no address

Types == {"Io", "Memory32Bit", "Memory64Bit"}

ASSUME NumBarRegsAssumption == NumBarRegs \in Nat \ {0}
ASSUME HeaderBarsAssumption == HeaderBars \in 0 .. NumBarRegs
ASSUME DwordAssumption == Dword \in Nat \ {0}
ASSUME MaxSizeAssumption ==
  /\ MaxSize \in [Types -> Nat]
  /\ MaxSize["Io"] <= Dword /\ MaxSize["Memory32Bit"] <= Dword
ASSUME NoneAssumption == None \notin Nat

VARIABLES
  building,  \* the function is being put together
  bars,      \* by register, the BAR that starts there
  reg,       \* by register, its value
  writable,  \* the space bits of the command register the guest may set
  space,     \* the space bits that are set
  known,     \* by BAR, the address the device heard of last
  torn,      \* history: 64-bit BARs whose lower half is news to the device
  ones       \* history: registers to which the guest wrote all ones last

barVars == <<building, bars, reg, writable, space, known, torn, ones>>

Regs == 0 .. NumBarRegs - 1
Qword == Dword * Dword
Is64(b) == b.type = "Memory64Bit"
SpaceOf(b) == IF b.type = "Io" THEN "io" ELSE "mem"

\* The registers of the BAR at i.
RegsOf(i) == IF Is64(bars[i]) THEN {i, i + 1} ELSE {i}

-----------------------------------------------------------------------------
(***************************************************************************)
(* add_bar.                                                                *)
(***************************************************************************)

\* A multiple of s no larger than v: what is left of v when the bits below s
\* are not writable.
AlignDown(v, s) == v - (v % s)

IsPowerOfTwo(n) == \E k \in 0 .. n - 1 : n = 2 ^ k

\* Dword is a power of two itself, so of it and another the larger is a
\* multiple of the smaller; and Qword, its square, is one of every size.
ASSUME PowersOfTwoAssumption ==
  \A s \in 1 .. Qword - 1 : IsPowerOfTwo(s) =>
    IF s <= Dword THEN Dword % s = 0
    ELSE s % Dword = 0 /\ Dword % (s \div Dword) = 0

\* validate_bar_size, validate_bar_region
ValidBar(b, a) ==
  /\ IsPowerOfTwo(b.size)
  /\ b.size <= MaxSize[b.type]
  /\ a # None => /\ a # 0 /\ a % b.size = 0
                 /\ a + b.size < (IF Is64(b) THEN Qword ELSE Dword)

AvailableIgnoresPrevious(i, b) ==
  /\ bars[i] = None
  /\ Is64(b) => i + 1 \in Regs /\ bars[i + 1] = None

\* The registers b would take at i are free.
Available(i, b) ==
  /\ bars[i] = None
  /\ i > 0 /\ bars[i - 1] # None => ~Is64(bars[i - 1])
  /\ Is64(b) => i + 1 \in Regs /\ bars[i + 1] = None

\* The two halves of an address.
Low(a) == a % Dword
High(a) == a \div Dword

AddBar(i, b, a) ==
  /\ building
  /\ i < HeaderBars
  /\ ValidBar(b, a)
  /\ Available(i, b)
  /\ LET address == IF a = None THEN 0 ELSE a IN
     reg' = [r \in Regs |-> IF r = i THEN Low(address)
                            ELSE IF r = i + 1 /\ Is64(b) THEN High(address)
                            ELSE reg[r]]
  /\ bars' = [bars EXCEPT ![i] = b]
  /\ writable' = writable \cup {SpaceOf(b)}
  /\ UNCHANGED <<building, space, known, torn, ones>>

\* The function is complete; its guest starts.
Build ==
  /\ building
  /\ building' = FALSE
  /\ UNCHANGED <<bars, reg, writable, space, known, torn, ones>>

-----------------------------------------------------------------------------
(***************************************************************************)
(* get_bar and the events of a write.                                      *)
(***************************************************************************)

\* The address in the registers of the BAR at i, for register values f.
AddressIn(f, i) == IF Is64(bars[i]) THEN f[i] + Dword * f[i + 1] ELSE f[i]

\* The address of a BAR of which the guest wrote ones to the lower register:
\* only the lower 32 bits are looked at.
ProbeOf(b) == AlignDown(Dword - 1, b.size)

GetBarNoProbe(f, s, i) ==
  IF bars[i] # None /\ SpaceOf(bars[i]) \in s /\ AddressIn(f, i) # 0
    THEN AddressIn(f, i) ELSE None

\* get_bar(i), with register values f and the space bits s: the BAR's address
\* when it is decoded, programmed and not being sized.
GetBar(f, s, i) ==
  IF /\ bars[i] # None
     /\ SpaceOf(bars[i]) \in s
     /\ AddressIn(f, i) \notin {0, ProbeOf(bars[i])}
    THEN AddressIn(f, i) ELSE None

\* Register r is the upper half of the 64-bit BAR before it.
IsUpper(r) ==
  bars[r] = None /\ r > 0 /\ bars[r - 1] # None /\ Is64(bars[r - 1])

WriteUpperWhole(r, v) ==
  IF bars[r] # None THEN AlignDown(v, bars[r].size)
  ELSE IF IsUpper(r) THEN v ELSE reg[r]

\* write_register: what the guest's v leaves in register r.
Write(r, v) ==
  CASE bars[r] # None -> AlignDown(v, bars[r].size)
    [] IsUpper(r) -> IF bars[r - 1].size <= Dword
                       THEN v ELSE AlignDown(v, bars[r - 1].size \div Dword)
    [] OTHER -> reg[r]

UpdatedBarOwnOnly(r) == IF bars[r] # None /\ ~Is64(bars[r]) THEN r ELSE None

\* bar_update_for_write: the BAR a write to register r may have moved, to be
\* told to the device.  A 64-bit BAR moves with its upper half.
UpdatedBar(r) ==
  IF bars[r] # None /\ ~Is64(bars[r]) THEN r
  ELSE IF IsUpper(r) THEN r - 1
  ELSE None

\* The guest writes register r: the device hears of a BAR that is decoded
\* after the write (Bar event).
WriteBar(r, v) ==
  /\ ~building
  /\ LET f == [reg EXCEPT ![r] = Write(r, v)]
         i == UpdatedBar(r) IN
     /\ reg' = f
     /\ known' = [j \in Regs |-> IF j = i /\ GetBar(f, space, j) # None
                                   THEN GetBar(f, space, j) ELSE known[j]]
     /\ torn' = IF bars[r] # None /\ Is64(bars[r]) THEN torn \cup {r}
                ELSE torn \ {i}
  /\ ones' = IF v = Dword - 1 THEN ones \cup {r} ELSE ones \ {r}
  /\ UNCHANGED <<building, bars, writable, space>>

\* The guest writes the command register.  When a space bit changes, the
\* device looks its BARs up (SpaceChanged event, as on_space_changed does).
WriteCommand(s) ==
  /\ ~building
  /\ space' = s \cap writable
  /\ IF space' # space
       THEN /\ known' = [j \in Regs |-> IF GetBar(reg, space', j) # None
                                         THEN GetBar(reg, space', j) ELSE known[j]]
            /\ torn' = {j \in torn : GetBar(reg, space', j) = None}
       ELSE UNCHANGED <<known, torn>>
  /\ UNCHANGED <<building, bars, reg, writable, ones>>

-----------------------------------------------------------------------------
(***************************************************************************)
(* The BAR of an access.                                                   *)
(***************************************************************************)

\* range_contains, in 64-bit arithmetic: a range whose end overflows contains
\* nothing and is contained in nothing.
RangeContains(start1, size1, start2, size2) ==
  /\ size1 # 0 /\ size2 # 0
  /\ start1 + size1 < Qword /\ start2 + size2 < Qword
  /\ start2 >= start1 /\ start2 + size2 <= start1 + size1

\* get_matching_bar_address
Matches(i, address, size, sp) ==
  /\ bars[i] # None /\ SpaceOf(bars[i]) = sp
  /\ GetBar(reg, space, i) # None
  /\ RangeContains(GetBar(reg, space, i), bars[i].size, address, size)

\* find_bar_and_offset returns i: the first BAR that matches.
Finds(i, address, size, sp) ==
  /\ Matches(i, address, size, sp)
  /\ \A j \in 0 .. i - 1 : ~Matches(j, address, size, sp)

-----------------------------------------------------------------------------
BarsInit ==
  /\ building = TRUE
  /\ bars = [r \in Regs |-> None]
  /\ reg = [r \in Regs |-> 0]
  /\ writable = {} /\ space = {}
  /\ known = [r \in Regs |-> None]
  /\ torn = {} /\ ones = {}

BarsNext ==
  \/ \E i \in Regs, t \in Types, s \in 1 .. Qword - 1, a \in {None} \cup 0 .. Qword - 1 :
       AddBar(i, [type |-> t, size |-> s], a)
  \/ Build
  \/ \E r \in Regs, v \in 0 .. Dword - 1 : WriteBar(r, v)
  \/ \E s \in SUBSET {"io", "mem"} : WriteCommand(s)

BarsSpec == BarsInit /\ [][BarsNext]_barVars

-----------------------------------------------------------------------------
\* In whatever order BARs are added, no register belongs to two of them and
\* none lies beyond the registers there are.
BarsDisjoint ==
  \A i \in Regs : bars[i] # None =>
    /\ RegsOf(i) \subseteq Regs
    /\ \A j \in Regs : j # i /\ bars[j] # None => RegsOf(i) \cap RegsOf(j) = {}

\* The BAR at i is being sized: the guest wrote ones to all of it.
Sized(i) == bars[i] # None /\ RegsOf(i) \subseteq ones

\* "The driver determines BAR size by" writing ones, reading back, negating
\* and adding one: what it then reads, whatever the size and over both halves,
\* is the largest address at which the BAR fits.
SizeProbe ==
  \A i \in Regs : Sized(i) =>
    AddressIn(reg, i) + bars[i].size = IF Is64(bars[i]) THEN Qword ELSE Dword

\* No access reaches a BAR while it is being sized, decoded or not: a 32-bit
\* one is not mapped then, and a 64-bit one, which get_bar does return, ends
\* where 64-bit addresses do.
SizingUnreachable ==
  \A i \in Regs : Sized(i) =>
    \A address \in 0 .. Qword - 1 : ~Finds(i, address, 1, SpaceOf(bars[i]))

\* The device knows the address of every BAR that is decoded, however the
\* writes to BARs and space bits interleave, except while only the lower half
\* of a 64-bit BAR was written.
KnownCurrent ==
  \A i \in Regs \ torn :
    GetBar(reg, space, i) # None => known[i] = GetBar(reg, space, i)

=============================================================================
