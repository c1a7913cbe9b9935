--------------------------- MODULE PciBarsProofs ---------------------------
(***************************************************************************)
(* Proofs about the Base Address Registers, for any number of registers,   *)
(* any register width and any sequence of BARs.                            *)
(***************************************************************************)
EXTENDS PciBars, TLAPS

\* A BAR: its type and its size.
BarRecords == [type : Types, size : Nat]

\* The functions over the registers, and no space enabled before the guest
\* starts: a BAR that is added is not decoded yet.
BarTypes ==
  /\ bars \in [Regs -> BarRecords \cup {None}]
  /\ DOMAIN reg = Regs /\ DOMAIN known = Regs
  /\ building \in BOOLEAN
  /\ building => space = {}

\* The registers and the space bits keep their types.
LEMMA BarTypesInvariant == BarsSpec => []BarTypes
<1>1. BarsInit => BarTypes
  BY DEF BarsInit, BarTypes
<1>2. ASSUME BarTypes, [BarsNext]_barVars
      PROVE  BarTypes'
  <2>1. ASSUME NEW i \in Regs, NEW t \in Types, NEW s \in 1 .. Qword - 1,
               NEW a \in {None} \cup 0 .. Qword - 1,
               AddBar(i, [type |-> t, size |-> s], a)
        PROVE  BarTypes'
    <3>1. [type |-> t, size |-> s] \in BarRecords
      BY DEF BarRecords
    <3>2. bars' \in [Regs -> BarRecords \cup {None}]
      BY <1>2, <2>1, <3>1 DEF AddBar, BarTypes
    <3> QED
      BY <1>2, <2>1, <3>2 DEF AddBar, BarTypes
  <2>2. CASE Build
    BY <1>2, <2>2 DEF Build, BarTypes
  <2>3. ASSUME NEW r \in Regs, NEW v \in 0 .. Dword - 1, WriteBar(r, v)
        PROVE  BarTypes'
    BY <1>2, <2>3 DEF WriteBar, BarTypes
  <2>4. ASSUME NEW s \in SUBSET {"io", "mem"}, WriteCommand(s)
        PROVE  BarTypes'
    BY <1>2, <2>4 DEF WriteCommand, BarTypes
  <2>5. CASE UNCHANGED barVars
    BY <1>2, <2>5 DEF barVars, BarTypes
  <2> QED
    BY <1>2, <2>1, <2>2, <2>3, <2>4, <2>5 DEF BarsNext
<1> QED
  BY <1>1, <1>2, PTL DEF BarsSpec

-----------------------------------------------------------------------------
\* A new BAR takes registers that belong to no other (add_bar's three checks:
\* its own register, a 64-bit BAR before it, the register after it).
LEMMA AddBarDisjoint ==
  ASSUME BarTypes, BarsDisjoint,
         NEW i \in Regs, NEW b \in BarRecords, Available(i, b),
         bars' = [bars EXCEPT ![i] = b]
  PROVE  BarsDisjoint'
<1>1. /\ bars'[i] = b
      /\ \A j \in Regs \ {i} : bars'[j] = bars[j]
  BY DEF BarTypes
<1>2. \A j \in Regs \ {i} : RegsOf(j)' = RegsOf(j)
  BY <1>1 DEF RegsOf
<1>3. RegsOf(i)' = IF Is64(b) THEN {i, i + 1} ELSE {i}
  BY <1>1 DEF RegsOf
<1>4. RegsOf(i)' \subseteq Regs
  BY <1>3 DEF Available
<1>5. ASSUME NEW j \in Regs, j # i, bars[j] # None
      PROVE  RegsOf(j) \cap RegsOf(i)' = {}
  <2>1. i \notin RegsOf(j)
    <3>1. CASE i = j + 1
      <4>1. i > 0 /\ i - 1 = j
        BY <3>1, NumBarRegsAssumption DEF Regs
      <4> QED
        BY <4>1, <1>5 DEF Available, RegsOf
    <3>2. CASE i # j + 1
      BY <3>2, <1>5 DEF RegsOf
    <3> QED
      BY <3>1, <3>2
  <2>2. Is64(b) => i + 1 \notin RegsOf(j)
    <3>1. i + 1 # j + 1
      BY <1>5, NumBarRegsAssumption DEF Regs
    <3> QED
      BY <3>1, <1>5 DEF Available, RegsOf
  <2> QED
    BY <2>1, <2>2, <1>3
<1> QED
  BY <1>1, <1>2, <1>4, <1>5 DEF BarsDisjoint

\* No register belongs to two BARs, whatever is added in which order (add_bar).
THEOREM BarsDisjointInvariant == BarsSpec => []BarsDisjoint
<1>1. BarsInit => BarsDisjoint
  BY DEF BarsInit, BarsDisjoint
<1>2. ASSUME BarTypes, BarsDisjoint, [BarsNext]_barVars
      PROVE  BarsDisjoint'
  <2>1. ASSUME NEW i \in Regs, NEW t \in Types, NEW s \in 1 .. Qword - 1,
               NEW a \in {None} \cup 0 .. Qword - 1,
               AddBar(i, [type |-> t, size |-> s], a)
        PROVE  BarsDisjoint'
    <3>1. [type |-> t, size |-> s] \in BarRecords
      BY DEF BarRecords
    <3> QED
      BY <1>2, <2>1, <3>1, AddBarDisjoint DEF AddBar
  <2>2. CASE UNCHANGED bars
    BY <1>2, <2>2 DEF BarsDisjoint, RegsOf
  <2> QED
    BY <1>2, <2>1, <2>2 DEF BarsNext, Build, WriteBar, WriteCommand, barVars
<1> QED
  BY <1>1, <1>2, BarTypesInvariant, PTL DEF BarsSpec

-----------------------------------------------------------------------------
\* A write to register r moves no BAR but the one bar_update_for_write names,
\* or the 64-bit BAR whose lower half r is.
LEMMA OtherBarsStay ==
  ASSUME BarTypes, BarsDisjoint, NEW r \in Regs, NEW x,
         NEW j \in Regs, bars[j] # None, j # UpdatedBar(r),
         ~(j = r /\ Is64(bars[r]))
  PROVE  AddressIn([reg EXCEPT ![r] = x], j) = AddressIn(reg, j)
<1>1. r \notin RegsOf(j)
  <2>1. CASE r = j
    BY <2>1 DEF UpdatedBar
  <2>2. CASE r # j /\ r = j + 1 /\ Is64(bars[j])
    <3>1. r > 0 /\ r - 1 = j
      BY <2>2, NumBarRegsAssumption DEF Regs
    <3>2. bars[r] = None
      BY <2>2 DEF BarsDisjoint, RegsOf
    <3> QED
      BY <2>2, <3>1, <3>2 DEF UpdatedBar, IsUpper
  <2> QED
    BY <2>1, <2>2 DEF RegsOf
<1>2. r # j
  BY <1>1 DEF RegsOf
<1>3. Is64(bars[j]) => r # j + 1
  BY <1>1 DEF RegsOf
<1>4. Is64(bars[j]) => j + 1 \in Regs
  BY DEF BarsDisjoint, RegsOf
<1> QED
  BY <1>2, <1>3, <1>4 DEF AddressIn, BarTypes

\* The device knows where every decoded BAR is (bar_update_for_write and the
\* SpaceChanged event of write_config leave no gap), half-written 64-bit BARs
\* apart.
THEOREM KnownCurrentInvariant == BarsSpec => []KnownCurrent
<1>1. BarsInit => KnownCurrent
  BY DEF BarsInit, KnownCurrent, GetBar
<1>2. ASSUME BarTypes, BarsDisjoint, KnownCurrent, [BarsNext]_barVars
      PROVE  KnownCurrent'
  <2>1. ASSUME building, UNCHANGED <<space, known, torn>>
        PROVE  KnownCurrent'
    BY <1>2, <2>1 DEF BarTypes, KnownCurrent, GetBar
  <2>2. ASSUME NEW r \in Regs, NEW v \in 0 .. Dword - 1, WriteBar(r, v)
        PROVE  KnownCurrent'
    <3> DEFINE f == [reg EXCEPT ![r] = Write(r, v)]
    <3>1. reg' = f /\ bars' = bars /\ space' = space
      BY <2>2 DEF WriteBar
    <3> SUFFICES ASSUME NEW j \in Regs, j \notin torn', GetBar(f, space, j) # None
                 PROVE  known'[j] = GetBar(f, space, j)
      BY <3>1 DEF KnownCurrent, GetBar, AddressIn, ProbeOf
    <3>2. bars[j] # None
      BY DEF GetBar
    <3>3. CASE j = UpdatedBar(r)
      BY <2>2, <3>3 DEF WriteBar
    <3>4. CASE j # UpdatedBar(r)
      <4>1. ~(j = r /\ Is64(bars[r]))
        BY <2>2, <3>2 DEF WriteBar
      <4>2. j \notin torn
        BY <2>2, <3>4, <4>1 DEF WriteBar
      <4>3. GetBar(f, space, j) = GetBar(reg, space, j)
        BY <1>2, <3>2, <3>4, <4>1, OtherBarsStay DEF GetBar
      <4>4. known'[j] = known[j]
        BY <2>2, <3>4 DEF WriteBar
      <4> QED
        BY <1>2, <4>2, <4>3, <4>4 DEF KnownCurrent
    <3> QED
      BY <3>3, <3>4
  <2>3. ASSUME NEW s \in SUBSET {"io", "mem"}, WriteCommand(s)
        PROVE  KnownCurrent'
    BY <1>2, <2>3 DEF WriteCommand, KnownCurrent, GetBar, AddressIn, ProbeOf
  <2>4. CASE UNCHANGED barVars
    BY <1>2, <2>4 DEF barVars, KnownCurrent, GetBar, AddressIn, ProbeOf
  <2> QED
    BY <1>2, <2>1, <2>2, <2>3, <2>4 DEF BarsNext, AddBar, Build
<1> QED
  BY <1>1, <1>2, BarTypesInvariant, BarsDisjointInvariant, PTL DEF BarsSpec

-----------------------------------------------------------------------------
(***************************************************************************)
(* Sizing a BAR.                                                           *)
(***************************************************************************)

\* What all ones leave above the s lowest values, when s divides n: the last
\* multiple of s below n.
LEMMA OnesAboveSize ==
  ASSUME NEW n \in Nat \ {0}, NEW s \in Nat \ {0}, n % s = 0
  PROVE  AlignDown(n - 1, s) = n - s
<1>1. PICK k \in Int : n = s * k
  OBVIOUS
<1>2. n - 1 = s * (k - 1) + (s - 1)
  BY <1>1
<1>3. (n - 1) % s = s - 1
  BY <1>2
<1> QED
  BY <1>3 DEF AlignDown

\* ... and nothing when s is larger than n.
LEMMA OnesBelowSize ==
  ASSUME NEW n \in Nat \ {0}, NEW s \in Nat, n <= s
  PROVE  AlignDown(n - 1, s) = 0
<1>1. (n - 1) % s = n - 1
  OBVIOUS
<1> QED
  BY <1>1 DEF AlignDown

\* A BAR that add_bar accepted.
SizeOK(b) ==
  /\ IsPowerOfTwo(b.size)
  /\ b.size \in 1 .. Qword - 1
  /\ ~Is64(b) => b.size <= Dword

\* Every BAR has a size add_bar accepts, nothing is sized before the guest
\* starts, and a register to which the guest wrote all ones last still holds
\* what write_register made of them.
OnesInv ==
  /\ \A i \in Regs : bars[i] # None => SizeOK(bars[i])
  /\ building => ones = {}
  /\ \A r \in Regs : r \in ones => reg[r] = Write(r, Dword - 1)

\* It holds, whatever the guest writes in whatever order.
LEMMA OnesInvariant == BarsSpec => []OnesInv
<1>1. BarsInit => OnesInv
  BY DEF BarsInit, OnesInv
<1>2. ASSUME BarTypes, OnesInv, [BarsNext]_barVars
      PROVE  OnesInv'
  <2>1. ASSUME NEW i \in Regs, NEW t \in Types, NEW s \in 1 .. Qword - 1,
               NEW a \in {None} \cup 0 .. Qword - 1,
               AddBar(i, [type |-> t, size |-> s], a)
        PROVE  OnesInv'
    <3> DEFINE b == [type |-> t, size |-> s]
    <3>1. SizeOK(b)
      <4>1. IsPowerOfTwo(s) /\ s <= MaxSize[t]
        BY <2>1 DEF AddBar, ValidBar
      <4>2. t # "Memory64Bit" => s <= Dword
        BY <4>1, MaxSizeAssumption, DwordAssumption DEF Types, Qword
      <4> QED
        BY <4>1, <4>2 DEF SizeOK, Is64
    <3>2. \A j \in Regs : bars'[j] = IF j = i THEN b ELSE bars[j]
      BY <1>2, <2>1 DEF AddBar, BarTypes
    <3>3. building' = building /\ ones' = {}
      BY <1>2, <2>1 DEF AddBar, OnesInv
    <3> HIDE DEF b
    <3> QED
      BY <1>2, <3>1, <3>2, <3>3 DEF OnesInv
  <2>2. CASE Build
    BY <1>2, <2>2 DEF Build, OnesInv
  <2>3. ASSUME NEW r \in Regs, NEW v \in 0 .. Dword - 1, WriteBar(r, v)
        PROVE  OnesInv'
    <3>1. /\ bars' = bars /\ ~building'
          /\ reg' = [reg EXCEPT ![r] = Write(r, v)]
          /\ ones' = IF v = Dword - 1 THEN ones \cup {r} ELSE ones \ {r}
      BY <2>3 DEF WriteBar
    <3>2. ASSUME NEW q \in Regs, q \in ones'
          PROVE  reg'[q] = Write(q, Dword - 1)'
      <4>1. CASE q = r
        <5>1. v = Dword - 1 /\ reg'[q] = Write(q, Dword - 1)
          BY <1>2, <3>1, <3>2, <4>1 DEF BarTypes
        <5> QED
          BY <3>1, <5>1 DEF Write, IsUpper
      <4>2. CASE q # r
        <5>1. q \in ones /\ reg'[q] = reg[q]
          BY <1>2, <3>1, <3>2, <4>2 DEF BarTypes
        <5> QED
          BY <1>2, <3>1, <5>1 DEF OnesInv, Write, IsUpper
      <4> QED
        BY <4>1, <4>2
    <3> QED
      BY <1>2, <3>1, <3>2 DEF OnesInv
  <2>4. ASSUME NEW s \in SUBSET {"io", "mem"}, WriteCommand(s)
        PROVE  OnesInv'
    BY <1>2, <2>4 DEF WriteCommand, OnesInv, Write, IsUpper
  <2>5. CASE UNCHANGED barVars
    BY <1>2, <2>5 DEF barVars, OnesInv, Write, IsUpper
  <2> QED
    BY <1>2, <2>1, <2>2, <2>3, <2>4, <2>5 DEF BarsNext
<1> QED
  BY <1>1, <1>2, BarTypesInvariant, PTL DEF BarsSpec

\* What the registers of a BAR hold when the guest wrote ones to all of them.
LEMMA SizedRegisters ==
  ASSUME BarTypes, BarsDisjoint, OnesInv, NEW i \in Regs, Sized(i)
  PROVE  /\ reg[i] = ProbeOf(bars[i])
         /\ Is64(bars[i]) =>
              reg[i + 1] = IF bars[i].size <= Dword THEN Dword - 1
                           ELSE AlignDown(Dword - 1, bars[i].size \div Dword)
<1>1. reg[i] = ProbeOf(bars[i])
  BY DEF OnesInv, Sized, RegsOf, Write, IsUpper, ProbeOf
<1>2. ASSUME Is64(bars[i])
      PROVE  reg[i + 1] = IF bars[i].size <= Dword THEN Dword - 1
                          ELSE AlignDown(Dword - 1, bars[i].size \div Dword)
  <2>1. i + 1 \in Regs /\ i + 1 \in ones
    BY <1>2 DEF Sized, RegsOf, BarsDisjoint
  <2>2. bars[i + 1] = None
    <3>1. i + 1 # i /\ i + 1 \in RegsOf(i) /\ i + 1 \in RegsOf(i + 1)
      BY <1>2, NumBarRegsAssumption DEF RegsOf, Regs
    <3> QED
      BY <2>1, <3>1 DEF BarsDisjoint, Sized
  <2>3. i + 1 > 0 /\ (i + 1) - 1 = i
    BY NumBarRegsAssumption DEF Regs
  <2>4. IsUpper(i + 1)
    BY <1>2, <2>2, <2>3 DEF IsUpper, Sized
  <2> QED
    BY <2>1, <2>2, <2>3, <2>4 DEF OnesInv, Write
<1> QED
  BY <1>1, <1>2

\* Sizing works (write_register's masks), for any register width and sizes: the
\* ones the guest reads back are an address at the very end of the BAR's space.
LEMMA SizeProbeStep ==
  ASSUME BarTypes, BarsDisjoint, OnesInv
  PROVE  SizeProbe
<1> SUFFICES ASSUME NEW i \in Regs, Sized(i)
             PROVE  AddressIn(reg, i) + bars[i].size
                      = IF Is64(bars[i]) THEN Qword ELSE Dword
  BY DEF SizeProbe
<1> DEFINE s == bars[i].size
<1>1. /\ s \in Nat \ {0} /\ IsPowerOfTwo(s) /\ s \in 1 .. Qword - 1
      /\ ~Is64(bars[i]) => s <= Dword
  BY DwordAssumption DEF OnesInv, SizeOK, Sized, Qword
<1>2. IF s <= Dword THEN Dword % s = 0
      ELSE s % Dword = 0 /\ Dword % (s \div Dword) = 0
  BY <1>1, PowersOfTwoAssumption
<1>3. s <= Dword => ProbeOf(bars[i]) = Dword - s
  BY <1>1, <1>2, DwordAssumption, OnesAboveSize DEF ProbeOf
<1>4. CASE ~Is64(bars[i])
  BY <1>1, <1>3, <1>4, SizedRegisters, DwordAssumption DEF AddressIn
<1>5. CASE Is64(bars[i]) /\ s <= Dword
  <2>1. reg[i] = Dword - s /\ reg[i + 1] = Dword - 1
    BY <1>3, <1>5, SizedRegisters
  <2> QED
    BY <1>1, <1>5, <2>1, DwordAssumption DEF AddressIn, Qword
<1>6. CASE Is64(bars[i]) /\ ~(s <= Dword)
  <2> DEFINE q == s \div Dword
  <2>1. s = Dword * q /\ q \in Nat \ {0}
    BY <1>1, <1>2, <1>6, DwordAssumption
  <2>2. AlignDown(Dword - 1, q) = Dword - q
    BY <1>2, <1>6, <2>1, DwordAssumption, OnesAboveSize
  <2>3. ProbeOf(bars[i]) = 0
    BY <1>1, <1>6, DwordAssumption, OnesBelowSize DEF ProbeOf
  <2>4. reg[i] = 0 /\ reg[i + 1] = Dword - q
    BY <1>6, <2>2, <2>3, SizedRegisters
  <2>5. AddressIn(reg, i) = Dword * (Dword - q)
    BY <1>6, <2>1, <2>4, DwordAssumption DEF AddressIn
  <2> QED
    BY <1>6, <2>1, <2>5, DwordAssumption DEF Qword
<1> QED
  BY <1>4, <1>5, <1>6

\* A driver that writes ones to all of a BAR reads its size back (the writable
\* bits add_bar gives the BAR's registers), whatever else it wrote before.
THEOREM SizeProbeInvariant == BarsSpec => []SizeProbe
BY BarTypesInvariant, BarsDisjointInvariant, OnesInvariant, SizeProbeStep, PTL

\* No access reaches a BAR that is being sized (get_bar, range_contains),
\* whatever spaces are decoded.
THEOREM SizingUnreachableInvariant == BarsSpec => []SizingUnreachable
<1>1. ASSUME BarTypes, BarsDisjoint, OnesInv
      PROVE  SizingUnreachable
  <2> SUFFICES ASSUME NEW i \in Regs, Sized(i),
                      NEW address, NEW sp, Matches(i, address, 1, sp)
               PROVE  FALSE
    BY DEF SizingUnreachable, Finds
  <2>1. CASE ~Is64(bars[i])
    <3>1. AddressIn(reg, i) = ProbeOf(bars[i])
      BY <1>1, <2>1, SizedRegisters DEF AddressIn
    <3> QED
      BY <3>1 DEF Matches, GetBar
  <2>2. CASE Is64(bars[i])
    <3>1. AddressIn(reg, i) + bars[i].size = Qword
      BY <1>1, <2>2, SizeProbeStep DEF SizeProbe
    <3>2. GetBar(reg, space, i) = AddressIn(reg, i)
      BY DEF Matches, GetBar
    <3>3. AddressIn(reg, i) + bars[i].size < Qword
      BY <3>2 DEF Matches, RangeContains
    <3> QED
      BY <3>1, <3>3, DwordAssumption DEF Qword
  <2> QED
    BY <2>1, <2>2
<1> QED
  BY <1>1, BarTypesInvariant, BarsDisjointInvariant, OnesInvariant, PTL

=============================================================================
