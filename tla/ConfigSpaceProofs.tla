-------------------------- MODULE ConfigSpaceProofs --------------------------
(***************************************************************************)
(* Proofs about ConfigSpace, for any configuration space, any set of       *)
(* capabilities and any sequence of calls and guest writes.                *)
(*                                                                         *)
(* The list exists only in registers, among bytes that the guest writes.   *)
(* The invariant says where it is: capability k of the history starts two  *)
(* bytes before its data, the register that points to it holds that        *)
(* offset, and no bit of these registers is writable.  The walk then reads *)
(* the history back.                                                       *)
(***************************************************************************)
EXTENDS ConfigSpace, TLAPS

\* The register that points to the capability behind the k-th, and what is
\* written there.
Link(k) == IF k = 0 THEN CapPointer ELSE added[k].data - 1
Target(k) == IF k = Len(added) THEN 0 ELSE added[k + 1].data - 2

Chain ==
  \A k \in 0 .. Len(added) : registers[Link(k)] = Encode(Target(k)) /\ writable_bits[Link(k)] = {}

Identities ==
  \A k \in 1 .. Len(added) :
    /\ registers[added[k].data - 2] = added[k].cap.id
    /\ writable_bits[added[k].data - 2] = {}

CapListBit ==
  /\ writable_bits[Status] = {}
  /\ added # <<>> <=> CapList \in registers[Status]

DataKept ==
  \A k \in 1 .. Len(added) :
    /\ added[k].cap.size <= added[k].room
    /\ \A i \in 0 .. added[k].cap.size - 1 :
         /\ registers[added[k].data + i] \ added[k].cap.writable[i]
              = added[k].cap.registers[i] \ added[k].cap.writable[i]
         /\ writable_bits[added[k].data + i] = added[k].cap.writable[i]

\* The state of the iterator, in the middle of a walk.
WalkState ==
  call # Idle =>
    /\ ~overrun
    /\ Len(seen) <= Len(added)
    /\ \A k \in 1 .. Len(seen) : seen[k] = <<added[k].cap.id, added[k].data>>
    /\ next_pointer = Link(Len(seen))

\* No bit is writable where the next capability will go.
AreaEnd ==
  IF added = <<>> THEN Start ELSE added[Len(added)].data + added[Len(added)].room
FreeReadOnly == \A o \in Offsets : o >= AreaEnd => writable_bits[o] = {}

LastSize == added # <<>> => last_cap_size = added[Len(added)].room

Registers == ~overrun => Chain /\ Identities /\ CapListBit /\ DataKept /\ FreeReadOnly

ConfigInv ==
  /\ ConfigTypeOK /\ CapabilitiesDisjoint /\ LastSize
  /\ Registers /\ WalkState

-----------------------------------------------------------------------------
(***************************************************************************)
(* Pointers and the layout.                                                *)
(***************************************************************************)

\* A pointer is read back as it was written.
LEMMA DecodeEncode ==
  ASSUME NEW n \in Pointers
  PROVE  Decode(Encode(n)) = n
<1>1. Decode(Encode(n)) \in Pointers /\ Encode(Decode(Encode(n))) = Encode(n)
  BY DEF Decode
<1> QED
  BY <1>1, EncodingAssumption

\* A pointer is written into one register.
LEMMA EncodeType == \A n \in Pointers : Encode(n) \in Byte
  BY DEF Encode, Byte

\* The pointer that ends a list is one the registers can hold.
LEMMA ZeroIsAPointer == 0 \in Pointers
  BY SizeAssumption, AreaAssumption DEF Pointers

\* A function over the first n numbers is a sequence.
LEMMA FunctionIsSeq ==
  ASSUME NEW S, NEW n \in Nat, NEW f \in [1 .. n -> S]
  PROVE  f \in Seq(S) /\ Len(f) = n
  OBVIOUS

\* AlignUp moves to the next dword.
LEMMA AlignUpDword ==
  ASSUME NEW n \in Nat
  PROVE  AlignUp(n) \in Nat /\ n <= AlignUp(n) /\ AlignUp(n) % 4 = 0
  BY DEF AlignUp

\* What the layout says of one capability and of two.
LEMMA Placed ==
  ASSUME ConfigTypeOK, CapabilitiesDisjoint
  PROVE  /\ Len(added) \in Nat
         /\ \A k \in 1 .. Len(added) :
              /\ added[k] \in [cap : Capabilities, data : Offsets, room : Nat]
              /\ added[k].data \in Nat /\ added[k].room \in Nat /\ added[k].cap.size \in Nat
              /\ added[k].data - 2 \in Pointers /\ added[k].data - 1 \in Pointers
              /\ Start <= added[k].data - 2 /\ (added[k].data - 2) % 4 = 0
              /\ added[k].data + added[k].room <= End
         /\ \A j, k \in 1 .. Len(added) : j < k =>
              added[j].data + added[j].room <= added[k].data - 2
         /\ \A j, k \in 1 .. Len(added) : added[j].data = added[k].data => j = k
<1>1. Len(added) \in Nat
  BY DEF ConfigTypeOK
<1>2. \A k \in 1 .. Len(added) : added[k] \in [cap : Capabilities, data : Offsets, room : Nat]
  <2> DEFINE S == [cap : Capabilities, data : Offsets, room : Nat]
  <2>1. added \in Seq(S)
    BY DEF ConfigTypeOK
  <2> HIDE DEF S
  <2>2. \A k \in 1 .. Len(added) : added[k] \in S
    BY <2>1
  <2> QED
    BY <2>2 DEF S
<1>3. \A k \in 1 .. Len(added) : added[k].data \in Nat /\ added[k].room \in Nat
  BY <1>2, SizeAssumption DEF Offsets
<1>4. \A k \in 1 .. Len(added) : added[k].cap.size \in Nat
  BY <1>2, CapabilitiesAssumption DEF IsCapability
<1>5. \A k \in 1 .. Len(added) :
        /\ Start <= added[k].data - 2 /\ (added[k].data - 2) % 4 = 0
        /\ added[k].data + added[k].room <= End
  BY <1>1, <1>3, AreaAssumption DEF CapabilitiesDisjoint
<1>6. \A k \in 1 .. Len(added) : added[k].data - 2 \in Pointers /\ added[k].data - 1 \in Pointers
  BY <1>2, <1>3, <1>5, AreaAssumption, SizeAssumption DEF Pointers, Offsets
<1>7. \A j, k \in 1 .. Len(added) : j < k =>
        added[j].data + added[j].room <= added[k].data - 2
  BY <1>1 DEF CapabilitiesDisjoint
<1>8. \A j, k \in 1 .. Len(added) : added[j].data = added[k].data => j = k
  <2> SUFFICES ASSUME NEW j \in 1 .. Len(added), NEW k \in 1 .. Len(added), j < k
               PROVE  added[j].data # added[k].data
    BY <1>1
  <2> QED
    BY <1>3, <1>7
<1> QED
  BY <1>1, <1>2, <1>3, <1>4, <1>5, <1>6, <1>7, <1>8

\* No capability reaches beyond the end of the last.
LEMMA AreaEndType ==
  ASSUME ConfigTypeOK, CapabilitiesDisjoint
  PROVE  /\ AreaEnd \in Nat /\ Start <= AreaEnd
         /\ \A k \in 1 .. Len(added) : added[k].data + added[k].room <= AreaEnd
<1>1. CASE added = <<>>
  BY <1>1, AreaAssumption DEF AreaEnd
<1>2. CASE added # <<>>
  <2>1. Len(added) \in Nat /\ Len(added) \in 1 .. Len(added)
    BY <1>2 DEF ConfigTypeOK
  <2>2. /\ added[Len(added)].data \in Nat /\ added[Len(added)].room \in Nat
        /\ Start <= added[Len(added)].data - 2
    BY <2>1, Placed
  <2>3. ASSUME NEW k \in 1 .. Len(added)
        PROVE  added[k].data + added[k].room <= AreaEnd
    <3>1. CASE k = Len(added)
      BY <1>2, <2>2, <3>1 DEF AreaEnd
    <3>2. CASE k < Len(added)
      <4>1. /\ added[k].data + added[k].room <= added[Len(added)].data - 2
            /\ added[k].data \in Nat /\ added[k].room \in Nat
        BY <2>1, <3>2, Placed
      <4> QED
        BY <1>2, <2>2, <4>1 DEF AreaEnd
    <3> QED
      BY <2>1, <3>1, <3>2
  <2> QED
    BY <1>2, <2>2, <2>3, AreaAssumption DEF AreaEnd
<1> QED
  BY <1>1, <1>2

-----------------------------------------------------------------------------
(***************************************************************************)
(* The walk.                                                               *)
(***************************************************************************)

\* The iterator goes from one capability to the next and stops behind the
\* last: it follows the links, none of which leads back.
LEMMA WalkReads ==
  ASSUME ConfigInv, call # Idle
  PROVE  /\ IterationEnds <=> Len(seen) = Len(added)
         /\ Len(seen) < Len(added) =>
              /\ NextCap(next_pointer) = added[Len(seen) + 1].data - 2
              /\ Item = <<added[Len(seen) + 1].cap.id, added[Len(seen) + 1].data>>
<1> DEFINE j == Len(seen)
           N == Len(added)
<1>1. /\ ConfigTypeOK /\ CapabilitiesDisjoint /\ Chain /\ Identities
      /\ j \in Nat /\ N \in Nat /\ j <= N /\ next_pointer = Link(j)
  BY DEF ConfigInv, Registers, WalkState, ConfigTypeOK
<1>2. \A k \in 0 .. N : Target(k) \in Pointers
  BY <1>1, Placed, ZeroIsAPointer DEF Target
<1>3. \A k \in 0 .. N : Decode(registers[Link(k)]) = Target(k)
  BY <1>1, <1>2, DecodeEncode DEF Chain
<1>4. Decode(registers[next_pointer]) = Target(j)
  BY <1>1, <1>3
<1> HIDE DEF j, N
<1>5. CASE j = N
  <2>1. NextCap(next_pointer) = 0
    BY <1>1, <1>4, <1>5, AreaAssumption DEF NextCap, AlignDown, Target, j, N
  <2> QED
    BY <1>1, <1>5, <2>1 DEF IterationEnds, j, N
<1>6. CASE j < N
  <2> DEFINE h == added[j + 1].data - 2
  <2>1. j + 1 \in 1 .. N /\ j + 1 \in 0 .. N
    BY <1>1, <1>6
  <2>2. /\ h \in Nat /\ Start <= h /\ h % 4 = 0 /\ added[j + 1].data \in Nat
        /\ added[j + 1].data = h + 2
    BY <1>1, <2>1, Placed, AreaAssumption DEF N, Pointers
  <2>3. Target(j) = h
    BY <1>6 DEF Target, N
  <2>4. registers[h] = added[j + 1].cap.id
    BY <1>1, <2>1 DEF Identities, N
  <2>5. Link(j + 1) = h + 1
    BY <1>1, <2>2 DEF Link
  <2>6. Decode(registers[h + 1]) = Target(j + 1)
    BY <1>3, <2>1, <2>5
  <2>7. Target(j + 1) + 1 # Link(j)
    <3>1. CASE j + 1 = N
      <4>1. Target(j + 1) = 0
        BY <3>1 DEF Target, N
      <4>2. Link(j) # 1
        BY <1>1, <1>6, Placed, HeaderAssumption, AreaAssumption DEF Link, N
      <4> QED
        BY <4>1, <4>2
    <3>2. CASE j + 1 # N
      <4>1. j + 2 \in 1 .. N /\ Target(j + 1) = added[j + 2].data - 2
        BY <1>1, <1>6, <3>2 DEF Target, N
      <4>2. added[j + 2].data \in Nat /\ Start <= added[j + 2].data - 2
        BY <1>1, <4>1, Placed DEF N
      <4>3. CASE j = 0
        BY <4>1, <4>2, <4>3, HeaderAssumption, AreaAssumption DEF Link
      <4>4. CASE j # 0
        <5>1. j \in 1 .. N /\ j < j + 2
          BY <1>1, <4>4
        <5>2. /\ added[j].data + added[j].room <= added[j + 2].data - 2
              /\ added[j].data \in Nat /\ added[j].room \in Nat
          BY <1>1, <4>1, <5>1, Placed DEF N
        <5> QED
          BY <4>1, <4>2, <4>4, <5>2 DEF Link
      <4> QED
        BY <4>3, <4>4
    <3> QED
      BY <3>1, <3>2
  <2> HIDE DEF h
  <2>8. NextCap(next_pointer) = h
    BY <1>4, <2>2, <2>3, AreaAssumption DEF NextCap, AlignDown
  <2>9. ~IterationEnds
    BY <1>1, <2>2, <2>6, <2>7, <2>8, AreaAssumption DEF IterationEnds
  <2>10. Item = <<added[j + 1].cap.id, added[j + 1].data>>
    BY <2>2, <2>4, <2>8 DEF Item
  <2> QED
    BY <1>1, <1>6, <2>8, <2>9, <2>10 DEF h, j, N
<1> QED
  BY <1>1, <1>5, <1>6 DEF j, N

-----------------------------------------------------------------------------
(***************************************************************************)
(* Steps that leave the list alone.                                        *)
(***************************************************************************)

\* The registers the list is made of are registers there are.
LEMMA LinksInBounds ==
  ASSUME ConfigTypeOK, CapabilitiesDisjoint
  PROVE  /\ \A k \in 0 .. Len(added) : Link(k) \in Offsets
         /\ \A k \in 1 .. Len(added) : added[k].data - 2 \in Offsets
         /\ Status \in Offsets
<1>1. Pointers = Offsets
  BY DEF Pointers, Offsets
<1>2. CapPointer \in Offsets /\ Status \in Offsets
  BY HeaderAssumption, AreaAssumption, SizeAssumption DEF Offsets
<1> QED
  BY <1>1, <1>2, Placed DEF Link

\* Nothing but the walk changes.
LEMMA ListUnchanged ==
  ASSUME ConfigInv, UNCHANGED <<registers, writable_bits, last_cap_size, added, overrun>>
  PROVE  CapabilitiesDisjoint' /\ LastSize' /\ Registers'
<1>1. CapabilitiesDisjoint' /\ LastSize'
  BY DEF ConfigInv, CapabilitiesDisjoint, LastSize
<1>2. ASSUME ~overrun
      PROVE  Chain' /\ Identities' /\ CapListBit' /\ DataKept' /\ FreeReadOnly'
  <2>1. Chain /\ Identities /\ CapListBit /\ DataKept /\ FreeReadOnly
    BY <1>2 DEF ConfigInv, Registers
  <2>2. Chain' /\ Identities' /\ CapListBit'
    BY <2>1 DEF Chain, Identities, CapListBit, Link, Target
  <2>3. DataKept' /\ FreeReadOnly'
    BY <2>1 DEF DataKept, FreeReadOnly, AreaEnd
  <2> QED
    BY <2>2, <2>3
<1> QED
  BY <1>1, <1>2 DEF Registers

\* A call begins its walk at the capabilities pointer.
LEMMA StartWalkStep ==
  ASSUME ConfigInv, NEW c, StartWalk(c), c # Idle,
         \/ c \in [op : {"add"}, cap : Capabilities]
         \/ c \in [op : {"update"}, cap : Capabilities, data : Offsets]
  PROVE  ConfigInv'
<1>1. CapPointer \in Offsets
  BY HeaderAssumption, AreaAssumption, SizeAssumption DEF Offsets
<1>2. ConfigTypeOK'
  BY <1>1 DEF ConfigInv, ConfigTypeOK, StartWalk
<1>3. WalkState'
  BY DEF ConfigInv, WalkState, StartWalk, Link, ConfigTypeOK
<1> QED
  BY <1>2, <1>3, ListUnchanged DEF ConfigInv, StartWalk

\* An operation that returns without having done anything.
LEMMA FailStep ==
  ASSUME ConfigInv, Return,
         UNCHANGED <<registers, writable_bits, last_cap_size, added, overrun>>
  PROVE  ConfigInv'
<1>1. CapPointer \in Offsets
  BY HeaderAssumption, AreaAssumption, SizeAssumption DEF Offsets
<1>2. ConfigTypeOK'
  BY <1>1 DEF ConfigInv, ConfigTypeOK, Return
<1>3. WalkState'
  BY DEF WalkState, Return
<1> QED
  BY <1>2, <1>3, ListUnchanged DEF ConfigInv

\* The iterator returns an item.
LEMMA ItemStep ==
  ASSUME ConfigInv, call # Idle, ~IterationEnds,
         seen' = Append(seen, Item), next_pointer' = NextCap(next_pointer) + 1,
         UNCHANGED <<registers, writable_bits, last_cap_size, call, added, overrun>>
  PROVE  ConfigInv'
<1> DEFINE j == Len(seen)
           a == added[j + 1]
<1>1. /\ ConfigTypeOK /\ CapabilitiesDisjoint /\ ~overrun
      /\ j \in Nat /\ Len(added) \in Nat /\ j <= Len(added)
      /\ seen \in Seq(Byte \X Nat)
      /\ \A k \in 1 .. j : seen[k] = <<added[k].cap.id, added[k].data>>
  BY DEF ConfigInv, WalkState, ConfigTypeOK
<1>2. j < Len(added) /\ j + 1 \in 1 .. Len(added)
  BY <1>1, WalkReads
<1>3. next_pointer' = a.data - 1 /\ Item = <<a.cap.id, a.data>>
  BY <1>1, <1>2, WalkReads, Placed
<1>4. /\ a.cap \in Capabilities /\ a.data \in Nat
      /\ a.data - 1 \in Offsets /\ a.cap.id \in Byte
  <2>1. a.cap \in Capabilities /\ a.data \in Nat /\ a.data - 1 \in Pointers
    BY <1>1, <1>2, Placed
  <2> QED
    BY <2>1, CapabilitiesAssumption DEF IsCapability, Pointers, Offsets
<1> HIDE DEF a, j
<1>5. /\ seen' \in Seq(Byte \X Nat) /\ Len(seen') = j + 1 /\ seen'[j + 1] = Item
      /\ \A k \in 1 .. j : seen'[k] = seen[k]
  BY <1>1, <1>3, <1>4 DEF j
<1>6. ConfigTypeOK'
  BY <1>1, <1>3, <1>4, <1>5 DEF ConfigTypeOK
<1>7. WalkState'
  <2>1. next_pointer' = Link(Len(seen))'
    BY <1>1, <1>3, <1>5 DEF Link, a
  <2>2. \A k \in 1 .. j + 1 : seen'[k] = <<added[k].cap.id, added[k].data>>
    BY <1>1, <1>3, <1>5 DEF a
  <2> QED
    BY <1>1, <1>2, <1>3, <1>5, <2>1, <2>2 DEF WalkState
<1> QED
  BY <1>6, <1>7, ListUnchanged DEF ConfigInv

-----------------------------------------------------------------------------
(***************************************************************************)
(* Accesses.                                                               *)
(***************************************************************************)

\* A guest write changes no bit that is not writable.
LEMMA WriteKeepsReadOnly ==
  ASSUME ConfigTypeOK, NEW offset \in Offsets, NEW size \in 1 .. 4,
         NEW data \in [0 .. size - 1 -> Values],
         registers' = Write(registers, writable_bits, offset, data)
  PROVE  /\ registers' \in [Offsets -> Byte]
         /\ \A o \in Offsets :
              registers'[o] \ writable_bits[o] = registers[o] \ writable_bits[o]
<1>1. registers \in [Offsets -> Byte] /\ writable_bits \in [Offsets -> Byte]
  BY DEF ConfigTypeOK
<1>2. \A o \in Offsets :
        \/ registers'[o] = registers[o]
        \/ \E v \in Byte : registers'[o] = UpdateRegister(registers[o], v, writable_bits[o])
  BY <1>1, ValuesAssumption DEF Write
<1>3. \A r, v, w \in Byte : /\ UpdateRegister(r, v, w) \in Byte
                            /\ UpdateRegister(r, v, w) \ w = r \ w
  BY DEF UpdateRegister, Byte
<1>4. \A o \in Offsets :
        /\ registers'[o] \in Byte
        /\ registers'[o] \ writable_bits[o] = registers[o] \ writable_bits[o]
  BY <1>1, <1>2, <1>3
<1>5. registers' = [o \in Offsets |-> registers'[o]]
  BY <1>1 DEF Write
<1> QED
  BY <1>4, <1>5

\* The bytes of a capability that has room for them lie in the device specific
\* area.
LEMMA DataInArea ==
  ASSUME NEW data \in Nat, NEW room \in Nat, NEW size \in Nat, NEW i \in 0 .. size - 1,
         Start <= data - 2, data + room <= End, size <= room
  PROVE  data + i \in Nat /\ Start <= data + i /\ data + i < Size
  BY AreaAssumption, SizeAssumption

\* The list survives whatever keeps the read-only bits, and the writable bits
\* of the registers it is made of.
LEMMA ReadOnlyListKept ==
  ASSUME ConfigInv, ConfigTypeOK',
         \A o \in Offsets :
           registers'[o] \ writable_bits[o] = registers[o] \ writable_bits[o],
         \A o \in Offsets \ HeaderRegs : writable_bits'[o] = writable_bits[o],
         UNCHANGED <<last_cap_size, call, next_pointer, seen, added, overrun>>
  PROVE  ConfigInv'
<1>1. ConfigTypeOK /\ CapabilitiesDisjoint
  BY DEF ConfigInv
<1>2. Len(added) \in Nat
  BY <1>1, Placed
<1>3. CapabilitiesDisjoint' /\ LastSize' /\ WalkState'
  BY DEF ConfigInv, CapabilitiesDisjoint, LastSize, WalkState, Link
<1>4. \A o \in Offsets \ HeaderRegs : writable_bits[o] = {} =>
        registers'[o] = registers[o] /\ writable_bits'[o] = {}
  OBVIOUS
<1>5. /\ \A k \in 0 .. Len(added) : Link(k) \in Offsets \ HeaderRegs
      /\ \A k \in 1 .. Len(added) : added[k].data - 2 \in Offsets \ HeaderRegs
      /\ Status \in Offsets \ HeaderRegs
  <2>1. \A o \in HeaderRegs : o < Start /\ o # CapPointer /\ o # Status
    BY HeaderAssumption, AreaAssumption
  <2>2. \A k \in 1 .. Len(added) :
          added[k].data - 2 \notin HeaderRegs /\ added[k].data - 1 \notin HeaderRegs
    BY <1>1, <2>1, Placed, AreaAssumption
  <2>3. \A k \in 0 .. Len(added) : Link(k) \notin HeaderRegs
    BY <1>2, <2>1, <2>2 DEF Link
  <2> QED
    BY <1>1, <2>1, <2>2, <2>3, LinksInBounds
<1>6. ASSUME ~overrun
      PROVE  Chain' /\ Identities' /\ CapListBit' /\ DataKept' /\ FreeReadOnly'
  <2>1. Chain /\ Identities /\ CapListBit /\ DataKept /\ FreeReadOnly
    BY <1>6 DEF ConfigInv, Registers
  <2>2. Chain'
    <3>1. \A k \in 0 .. Len(added) : Link(k)' = Link(k) /\ Target(k)' = Target(k)
      BY DEF Link, Target
    <3> QED
      BY <1>4, <1>5, <2>1, <3>1 DEF Chain
  <2>3. Identities'
    BY <1>4, <1>5, <2>1 DEF Identities
  <2>4. CapListBit'
    BY <1>4, <1>5, <2>1 DEF CapListBit
  <2>5. DataKept'
    <3> SUFFICES ASSUME NEW k \in 1 .. Len(added)
                 PROVE  /\ added[k].cap.size <= added[k].room
                        /\ \A i \in 0 .. added[k].cap.size - 1 :
                             /\ registers'[added[k].data + i] \ added[k].cap.writable[i]
                                  = added[k].cap.registers[i] \ added[k].cap.writable[i]
                             /\ writable_bits'[added[k].data + i] = added[k].cap.writable[i]
      BY DEF DataKept
    <3>1. /\ added[k].data \in Nat /\ added[k].room \in Nat /\ added[k].cap.size \in Nat
          /\ Start <= added[k].data - 2 /\ added[k].data + added[k].room <= End
          /\ added[k].cap.size <= added[k].room
      BY <1>1, <2>1, Placed DEF DataKept
    <3>2. ASSUME NEW i \in 0 .. added[k].cap.size - 1
          PROVE  /\ registers'[added[k].data + i] \ added[k].cap.writable[i]
                      = added[k].cap.registers[i] \ added[k].cap.writable[i]
                 /\ writable_bits'[added[k].data + i] = added[k].cap.writable[i]
      <4> DEFINE o == added[k].data + i
      <4>1. o \in Nat /\ Start <= o /\ o < Size
        BY <3>1, DataInArea
      <4>2. o \in Offsets
        BY <4>1, SizeAssumption DEF Offsets
      <4>3. o \notin HeaderRegs
        BY <4>1, HeaderAssumption, AreaAssumption
      <4>4. /\ registers[o] \ added[k].cap.writable[i]
                 = added[k].cap.registers[i] \ added[k].cap.writable[i]
            /\ writable_bits[o] = added[k].cap.writable[i]
        BY <2>1 DEF DataKept
      <4> HIDE DEF o
      <4>5. registers'[o] \ writable_bits[o] = registers[o] \ writable_bits[o]
        BY <4>2
      <4>6. writable_bits'[o] = writable_bits[o]
        BY <4>2, <4>3
      <4>7. /\ registers'[o] \ added[k].cap.writable[i]
                 = added[k].cap.registers[i] \ added[k].cap.writable[i]
            /\ writable_bits'[o] = added[k].cap.writable[i]
        BY <4>4, <4>5, <4>6, Zenon
      <4> QED
        BY <4>7 DEF o
    <3> QED
      BY <3>1, <3>2
  <2>6. FreeReadOnly'
    <3>1. AreaEnd \in Nat /\ Start <= AreaEnd
      BY <1>1, AreaEndType
    <3>2. \A o \in Offsets : o >= AreaEnd => o \notin HeaderRegs
      BY <3>1, HeaderAssumption, AreaAssumption, SizeAssumption DEF Offsets
    <3>3. AreaEnd' = AreaEnd
      BY DEF AreaEnd
    <3> QED
      BY <2>1, <3>2, <3>3 DEF FreeReadOnly
  <2> QED
    BY <2>2, <2>3, <2>4, <2>5, <2>6
<1>7. Registers'
  BY <1>6 DEF Registers
<1> QED
  BY <1>3, <1>7 DEF ConfigInv

\* A guest write leaves the list alone: its bits are not writable (write_config).
LEMMA WriteConfigStep ==
  ASSUME ConfigInv, NEW offset \in Offsets, NEW size \in 1 .. 4,
         NEW data \in [0 .. size - 1 -> Values], WriteConfig(offset, size, data)
  PROVE  ConfigInv'
<1>1. /\ registers' \in [Offsets -> Byte]
      /\ \A o \in Offsets :
           registers'[o] \ writable_bits[o] = registers[o] \ writable_bits[o]
  BY WriteKeepsReadOnly DEF ConfigInv, WriteConfig
<1>2. ConfigTypeOK'
  BY <1>1 DEF ConfigInv, ConfigTypeOK, WriteConfig
<1> QED
  BY <1>1, <1>2, ReadOnlyListKept DEF WriteConfig

\* Bits of the header made writable are none of the list's (add_writable_bits).
LEMMA AddWritableBitsStep ==
  ASSUME ConfigInv, NEW o \in HeaderRegs, NEW bits \in Values, AddWritableBits(o, bits)
  PROVE  ConfigInv'
<1>1. o \in Offsets
  BY HeaderAssumption, AreaAssumption, SizeAssumption DEF Offsets
<1>2. writable_bits \in [Offsets -> Byte]
  BY DEF ConfigInv, ConfigTypeOK
<1>3. writable_bits[o] \cup bits \in Byte
  BY <1>1, <1>2, ValuesAssumption DEF Byte
<1>4. writable_bits' = [writable_bits EXCEPT ![o] = writable_bits[o] \cup bits]
  BY DEF AddWritableBits
<1>5. writable_bits' \in [Offsets -> Byte]
  BY <1>2, <1>3, <1>4
<1>6. ConfigTypeOK'
  BY <1>5 DEF ConfigInv, ConfigTypeOK, AddWritableBits
<1>7. \A p \in Offsets \ HeaderRegs : writable_bits'[p] = writable_bits[p]
  BY <1>2, <1>4
<1> QED
  BY <1>6, <1>7, ReadOnlyListKept DEF AddWritableBits

-----------------------------------------------------------------------------
(***************************************************************************)
(* add_capability.                                                         *)
(***************************************************************************)

\* The last link comes after the others and before the new capability; none
\* is the status register.
LEMMA LinksOrdered ==
  ASSUME ConfigTypeOK, CapabilitiesDisjoint
  PROVE  \A k \in 0 .. Len(added) :
           /\ Link(k) \in Nat /\ Link(k) < AreaEnd /\ Link(k) # Status
           /\ k # Len(added) => Link(k) # Link(Len(added))
<1>1. Len(added) \in Nat
  BY Placed
<1>2. ASSUME NEW k \in 1 .. Len(added)
      PROVE  /\ Link(k) = added[k].data - 1 /\ added[k].data \in Nat /\ added[k].room \in Nat
             /\ Start <= added[k].data - 2 /\ added[k].data + added[k].room <= AreaEnd
    BY <1>1, Placed, AreaEndType DEF Link
<1>3. AreaEnd \in Nat /\ Start <= AreaEnd
  BY AreaEndType
<1>4. Link(0) = CapPointer
  BY DEF Link
<1>5. \A j, k \in 1 .. Len(added) : j < k => added[j].data + added[j].room <= added[k].data - 2
  BY Placed
<1> SUFFICES ASSUME NEW k \in 0 .. Len(added)
             PROVE  /\ Link(k) \in Nat /\ Link(k) < AreaEnd /\ Link(k) # Status
                    /\ k # Len(added) => Link(k) # Link(Len(added))
  OBVIOUS
<1>6. CASE k = 0
  <2>1. Link(k) \in Nat /\ Link(k) < AreaEnd /\ Link(k) # Status /\ Link(k) < Start
    BY <1>3, <1>4, <1>6, HeaderAssumption, AreaAssumption
  <2>2. ASSUME k # Len(added)
        PROVE  Link(k) # Link(Len(added))
    BY <1>1, <1>2, <1>6, <2>1, <2>2, AreaAssumption
  <2> QED
    BY <2>1, <2>2
<1>7. CASE k \in 1 .. Len(added)
  <2> DEFINE d == added[k].data
             r == added[k].room
  <2>0. /\ Link(k) = d - 1 /\ d \in Nat /\ r \in Nat
        /\ Start <= d - 2 /\ d + r <= AreaEnd
    BY <1>2, <1>7
  <2> HIDE DEF d, r
  <2>1. Link(k) \in Nat /\ Link(k) < AreaEnd /\ Link(k) # Status
    BY <1>3, <2>0, HeaderAssumption, AreaAssumption
  <2>2. ASSUME k # Len(added)
        PROVE  Link(k) # Link(Len(added))
    <3>1. k < Len(added) /\ Len(added) \in 1 .. Len(added)
      BY <1>1, <1>7, <2>2
    <3> DEFINE e == added[Len(added)].data
    <3>2. d + r <= e - 2 /\ Link(Len(added)) = e - 1 /\ e \in Nat
      BY <1>2, <1>5, <1>7, <3>1 DEF d, r
    <3> HIDE DEF e
    <3> QED
      BY <2>0, <3>2
  <2> QED
    BY <2>1, <2>2
<1> QED
  BY <1>1, <1>6, <1>7

\* Where the new capability goes: behind the last one, at a dword, linked from
\* the last link.
LEMMA NewPlace ==
  ASSUME ConfigInv, call # Idle, IterationEnds
  PROVE  /\ seen = <<>> <=> Len(added) = 0
         /\ LinkRegister = Link(Len(added))
         /\ CapStart \in Nat /\ AreaEnd <= CapStart /\ CapStart % 4 = 0
<1>1. /\ ConfigTypeOK /\ CapabilitiesDisjoint /\ LastSize
      /\ seen \in Seq(Byte \X Nat) /\ added \in Seq([cap : Capabilities, data : Offsets, room : Nat])
      /\ \A k \in 1 .. Len(seen) : seen[k] = <<added[k].cap.id, added[k].data>>
  BY DEF ConfigInv, WalkState, ConfigTypeOK
<1>2. Len(seen) = Len(added) /\ Len(added) \in Nat
  BY <1>1, WalkReads
<1>3. AreaEnd \in Nat
  BY <1>1, AreaEndType
<1>4. CASE Len(added) = 0
  <2>1. seen = <<>> /\ added = <<>>
    BY <1>1, <1>2, <1>4
  <2>2. CapStart = AlignUp(AreaEnd)
    BY <2>1 DEF CapStart, AreaEnd
  <2> QED
    BY <1>3, <1>4, <2>1, <2>2, AlignUpDword DEF LinkRegister, Link
<1>5. CASE Len(added) # 0
  <2>1. seen # <<>> /\ added # <<>> /\ Len(added) \in 1 .. Len(added)
    BY <1>1, <1>2, <1>5
  <2>2. seen[Len(seen)][2] = added[Len(added)].data
    BY <1>1, <1>2, <2>1
  <2>3. CapStart = AlignUp(AreaEnd)
    BY <1>1, <2>1, <2>2 DEF CapStart, AreaEnd, LastSize
  <2>4. LinkRegister = Link(Len(added))
    BY <1>5, <2>1, <2>2 DEF LinkRegister, Link
  <2> QED
    BY <1>3, <1>5, <2>1, <2>3, <2>4, AlignUpDword
<1> QED
  BY <1>4, <1>5

\* What add_capability leaves in the registers: the new capability behind the
\* old ones, and the link to it.
LEMMA NewRegisters ==
  ASSUME ConfigInv, AddDone
  PROVE  LET start == CapStart
             c == call.cap
             last == Link(Len(added))
         IN /\ registers' \in [Offsets -> Byte] /\ writable_bits' \in [Offsets -> Byte]
            /\ registers'[last] = Encode(start)
            /\ registers'[start] = c.id /\ registers'[start + 1] = Encode(0)
            /\ \A i \in 0 .. c.size - 1 :
                 /\ registers'[start + 2 + i] = c.registers[i]
                 /\ writable_bits'[start + 2 + i] = c.writable[i]
            /\ \A o \in Offsets : o < start /\ o # last /\ o # Status =>
                 registers'[o] = registers[o]
            /\ registers'[Status] = IF Len(added) = 0 THEN registers[Status] \cup {CapList}
                                                      ELSE registers[Status]
            /\ \A o \in Offsets : o < start + 2 \/ o >= start + 2 + c.size =>
                 writable_bits'[o] = writable_bits[o]
<1> DEFINE start == CapStart
           c == call.cap
           last == Link(Len(added))
           d == start + 2
<1>1. ConfigTypeOK /\ CapabilitiesDisjoint /\ call # Idle /\ IterationEnds
  BY DEF ConfigInv, AddDone, Idle
<1>2. /\ registers \in [Offsets -> Byte] /\ writable_bits \in [Offsets -> Byte]
      /\ c \in Capabilities
  BY DEF AddDone, ConfigInv, ConfigTypeOK, Idle
<1>3. c.id \in Byte /\ c.size \in Nat /\ c.registers \in Bytes(c.size) /\ c.writable \in Bytes(c.size)
  BY <1>2, CapabilitiesAssumption DEF IsCapability
<1>4. DOMAIN c.registers = 0 .. c.size - 1 /\ DOMAIN c.writable = 0 .. c.size - 1
  BY <1>3 DEF Bytes
<1>5. /\ seen = <<>> <=> Len(added) = 0
      /\ LinkRegister = last
      /\ start \in Nat /\ AreaEnd <= start
  BY <1>1, NewPlace
<1>6. /\ AreaEnd \in Nat /\ Start <= AreaEnd
      /\ last \in Nat /\ last < AreaEnd /\ last # Status /\ last \in Offsets /\ Status \in Offsets
  BY <1>1, AreaEndType, LinksOrdered, LinksInBounds, Placed
<1>7. d + c.size <= End
  BY DEF AddDone, Fits
<1> HIDE DEF start, c, last
<1>8. /\ last < start /\ Status < start /\ start \in Offsets /\ start + 1 \in Offsets
      /\ start \in Pointers /\ 0 \in Pointers
  BY <1>3, <1>5, <1>6, <1>7, AreaAssumption, SizeAssumption, HeaderAssumption, ZeroIsAPointer
     DEF Offsets, Pointers
<1>9. \A i \in 0 .. c.size - 1 : d + i \in Offsets
  BY <1>3, <1>5, <1>7, AreaAssumption, SizeAssumption DEF Offsets
<1>10. writable_bits' = [o \in Offsets |->
         IF o - d \in 0 .. c.size - 1 THEN c.writable[o - d] ELSE writable_bits[o]]
  <2>1. writable_bits' = Set(writable_bits, start + 2, c.writable)
    BY DEF AddDone, SetWritableBits, start, c
  <2> QED
    BY <1>2, <1>4, <2>1 DEF Set
<1>11. registers' = [o \in Offsets |->
         IF o = last THEN Encode(start)
         ELSE LET header == IF o = start THEN c.id
                            ELSE IF o = start + 1 THEN Encode(0)
                            ELSE IF o - d \in 0 .. c.size - 1 THEN c.registers[o - d]
                            ELSE registers[o]
              IN IF o = Status /\ Len(added) = 0 THEN header \cup {CapList} ELSE header]
  <2>1. \A o \in Offsets : Set(registers, start + 2, c.registers)[o] =
          IF o - d \in 0 .. c.size - 1 THEN c.registers[o - d] ELSE registers[o]
    BY <1>2, <1>4 DEF Set
  <2>2. registers' = Linked(c, start)
    BY DEF AddDone, start, c
  <2> QED
    BY <1>5, <2>1, <2>2 DEF Linked, WithData
<1>12. \A i \in 0 .. c.size - 1 : c.registers[i] \in Byte /\ c.writable[i] \in Byte
  BY <1>3 DEF Bytes
<1>13. Encode(start) \in Byte /\ Encode(0) \in Byte
  BY <1>8, EncodeType
<1>14. \A b \in Byte : b \cup {CapList} \in Byte
  BY HeaderAssumption DEF Byte
<1>15. writable_bits' \in [Offsets -> Byte]
  BY <1>2, <1>10, <1>12
<1>16. registers' \in [Offsets -> Byte]
  BY <1>2, <1>3, <1>11, <1>12, <1>13, <1>14
<1>17. registers'[last] = Encode(start)
  BY <1>6, <1>11
<1>18. registers'[start] = c.id /\ registers'[start + 1] = Encode(0)
  BY <1>5, <1>8, <1>11, <1>6
<1>19. \A i \in 0 .. c.size - 1 : /\ registers'[d + i] = c.registers[i]
                                  /\ writable_bits'[d + i] = c.writable[i]
  <2> SUFFICES ASSUME NEW i \in 0 .. c.size - 1
               PROVE  /\ registers'[d + i] = c.registers[i]
                      /\ writable_bits'[d + i] = c.writable[i]
    OBVIOUS
  <2>1. /\ d + i \in Offsets /\ (d + i) - d = i
        /\ d + i # last /\ d + i # Status /\ d + i # start /\ d + i # start + 1
    BY <1>3, <1>5, <1>6, <1>8, <1>9, HeaderAssumption
  <2> HIDE DEF d
  <2> QED
    BY <1>10, <1>11, <2>1
<1>20. \A o \in Offsets : o < start /\ o # last /\ o # Status => registers'[o] = registers[o]
  <2> SUFFICES ASSUME NEW o \in Offsets, o < start, o # last, o # Status
               PROVE  registers'[o] = registers[o]
    OBVIOUS
  <2>1. o # start /\ o # start + 1 /\ o - d \notin 0 .. c.size - 1
    BY <1>3, <1>5, SizeAssumption DEF Offsets
  <2> QED
    BY <1>11, <2>1
<1>21. registers'[Status] = IF Len(added) = 0 THEN registers[Status] \cup {CapList}
                                              ELSE registers[Status]
  <2>1. /\ Status # start /\ Status # start + 1 /\ Status - d \notin 0 .. c.size - 1
        /\ Status # last
    BY <1>3, <1>5, <1>6, <1>8, HeaderAssumption
  <2> QED
    BY <1>6, <1>11, <2>1
<1>22. \A o \in Offsets : o < d \/ o >= d + c.size => writable_bits'[o] = writable_bits[o]
  <2> SUFFICES ASSUME NEW o \in Offsets, o < d \/ o >= d + c.size
               PROVE  writable_bits'[o] = writable_bits[o]
    OBVIOUS
  <2>1. o - d \notin 0 .. c.size - 1
    BY <1>3, <1>5, SizeAssumption DEF Offsets
  <2> QED
    BY <1>10, <2>1
<1> QED
  BY <1>15, <1>16, <1>17, <1>18, <1>19, <1>20, <1>21, <1>22 DEF start, c, last

\* add_capability appends to the list, or leaves it as it is.
LEMMA AddDoneStep ==
  ASSUME ConfigInv, AddDone
  PROVE  ConfigInv'
<1> DEFINE start == CapStart
           c == call.cap
           N == Len(added)
           last == Link(N)
           new == [cap |-> c, data |-> start + 2, room |-> c.size]
           S == [cap : Capabilities, data : Offsets, room : Nat]
<1>1. /\ ConfigTypeOK /\ CapabilitiesDisjoint /\ call # Idle /\ IterationEnds /\ ~overrun
      /\ Chain /\ Identities /\ CapListBit /\ DataKept /\ FreeReadOnly
      /\ added \in Seq(S) /\ N \in Nat
  BY DEF ConfigInv, AddDone, Idle, WalkState, Registers, ConfigTypeOK
<1>2. c \in Capabilities /\ c.size \in Nat
  <2>1. c \in Capabilities
    BY DEF AddDone, ConfigInv, ConfigTypeOK, Idle
  <2> QED
    BY <2>1, CapabilitiesAssumption DEF IsCapability
<1>3. /\ start \in Nat /\ AreaEnd <= start /\ start % 4 = 0
      /\ AreaEnd \in Nat /\ Start <= AreaEnd
      /\ \A k \in 1 .. N : added[k].data + added[k].room <= AreaEnd
  BY <1>1, NewPlace, AreaEndType
<1>4. start + 2 + c.size <= End
  BY DEF AddDone, Fits
<1>5. \A k \in 0 .. N : /\ Link(k) \in Nat /\ Link(k) < AreaEnd /\ Link(k) # Status
                        /\ k # N => Link(k) # last
  BY <1>1, LinksOrdered
<1>6. /\ \A k \in 0 .. N : Link(k) \in Offsets
      /\ \A k \in 1 .. N : added[k].data - 2 \in Offsets
      /\ Status \in Offsets
  BY <1>1, LinksInBounds
<1>7. \A k \in 1 .. N : /\ added[k].data \in Nat /\ added[k].room \in Nat
                        /\ added[k].cap.size \in Nat
                        /\ Start <= added[k].data - 2 /\ (added[k].data - 2) % 4 = 0
                        /\ added[k].data + added[k].room <= End
  BY <1>1, Placed
<1>8. /\ registers' \in [Offsets -> Byte] /\ writable_bits' \in [Offsets -> Byte]
      /\ registers'[last] = Encode(start)
      /\ registers'[start] = c.id /\ registers'[start + 1] = Encode(0)
      /\ \A i \in 0 .. c.size - 1 : /\ registers'[start + 2 + i] = c.registers[i]
                                    /\ writable_bits'[start + 2 + i] = c.writable[i]
      /\ \A o \in Offsets : o < start /\ o # last /\ o # Status => registers'[o] = registers[o]
      /\ registers'[Status] = IF N = 0 THEN registers[Status] \cup {CapList}
                                       ELSE registers[Status]
      /\ \A o \in Offsets : o < start + 2 \/ o >= start + 2 + c.size =>
           writable_bits'[o] = writable_bits[o]
  BY NewRegisters
<1>9. added' = Append(added, new) /\ last_cap_size' = c.size /\ overrun' = overrun /\ Return
  BY DEF AddDone
<1>10. start + 2 \in Offsets /\ start \in Offsets /\ start + 1 \in Offsets
  BY <1>2, <1>3, <1>4, AreaAssumption, SizeAssumption DEF Offsets
<1> HIDE DEF start, c, last
<1>11. new \in S /\ new.cap = c /\ new.data = start + 2 /\ new.room = c.size
  BY <1>2, <1>10
<1> HIDE DEF new, S
<1>12. /\ added' \in Seq(S) /\ Len(added') = N + 1 /\ added'[N + 1] = new
       /\ \A k \in 1 .. N : added'[k] = added[k]
  BY <1>1, <1>9, <1>11
<1> HIDE DEF N
<1>13. ConfigTypeOK'
  <2>1. CapPointer \in Offsets
    BY HeaderAssumption, AreaAssumption, SizeAssumption DEF Offsets
  <2> QED
    BY <1>1, <1>2, <1>8, <1>9, <1>12, <2>1 DEF ConfigTypeOK, Return, S
<1>14. CapabilitiesDisjoint'
  <2>1. ASSUME NEW k \in 1 .. N + 1
        PROVE  /\ added'[k].data - 2 >= Start /\ (added'[k].data - 2) % 4 = 0
               /\ added'[k].data + added'[k].room <= End
               /\ \A j \in k + 1 .. N + 1 : added'[k].data + added'[k].room <= added'[j].data - 2
    <3>1. CASE k = N + 1
      <4>1. /\ added'[k].data = start + 2 /\ added'[k].room = c.size
            /\ (start + 2) - 2 = start /\ k + 1 .. N + 1 = {}
        BY <1>1, <1>3, <1>11, <1>12, <3>1
      <4> QED
        BY <1>2, <1>3, <1>4, <4>1, AreaAssumption
    <3>2. CASE k \in 1 .. N
      <4>1. added'[k] = added[k]
        BY <1>12, <3>2
      <4>2. ASSUME NEW j \in k + 1 .. N + 1
            PROVE  added[k].data + added[k].room <= added'[j].data - 2
        <5>1. CASE j = N + 1
          <6>1. added'[j].data - 2 = start
            BY <1>3, <1>11, <1>12, <5>1
          <6>2. added[k].data + added[k].room <= AreaEnd /\ added[k].data + added[k].room \in Nat
            BY <1>3, <1>7, <3>2
          <6> QED
            BY <1>3, <6>1, <6>2
        <5>2. CASE j \in 1 .. N
          <6>1. k < j
            BY <1>1, <3>2
          <6>2. added[k].data + added[k].room <= added[j].data - 2
            BY <1>1, <3>2, <5>2, <6>1, Placed DEF N
          <6> QED
            BY <1>12, <5>2, <6>2
        <5> QED
          BY <1>1, <3>2, <5>1, <5>2
      <4> QED
        BY <1>7, <3>2, <4>1, <4>2, AreaAssumption
    <3> QED
      BY <1>1, <3>1, <3>2
  <2> QED
    BY <1>12, <2>1 DEF CapabilitiesDisjoint
<1>15. LastSize'
  BY <1>9, <1>11, <1>12 DEF LastSize
<1>16. Chain'
  <2>1. \A k \in 0 .. N : Link(k)' = Link(k)
    BY <1>1, <1>12 DEF Link
  <2>2. ASSUME NEW k \in 0 .. N + 1
        PROVE  registers'[Link(k)'] = Encode(Target(k)') /\ writable_bits'[Link(k)'] = {}
    <3>1. CASE k \in 0 .. N
      <4>1. writable_bits'[Link(k)] = {}
        BY <1>1, <1>3, <1>5, <1>6, <1>8, <3>1 DEF Chain, N
      <4>2. CASE k = N
        <5>1. Target(k)' = start
          BY <1>1, <1>3, <1>11, <1>12, <4>2 DEF Target
        <5> QED
          BY <1>8, <2>1, <3>1, <4>1, <4>2, <5>1 DEF last
      <4>3. CASE k # N
        <5>1. Target(k)' = Target(k)
          BY <1>1, <1>12, <3>1, <4>3 DEF Target, N
        <5>2. registers'[Link(k)] = registers[Link(k)]
          BY <1>3, <1>5, <1>6, <1>8, <3>1, <4>3
        <5> QED
          BY <1>1, <2>1, <3>1, <4>1, <5>1, <5>2 DEF Chain, N
      <4> QED
        BY <4>2, <4>3
    <3>2. CASE k = N + 1
      <4>1. Link(k)' = start + 1
        BY <1>1, <1>3, <1>11, <1>12, <3>2 DEF Link
      <4>2. Target(k)' = 0
        BY <1>12, <3>2 DEF Target
      <4>3. writable_bits'[start + 1] = writable_bits[start + 1] /\ writable_bits[start + 1] = {}
        BY <1>1, <1>3, <1>8, <1>10 DEF FreeReadOnly
      <4> QED
        BY <1>8, <4>1, <4>2, <4>3
    <3> QED
      BY <1>1, <3>1, <3>2
  <2> QED
    BY <1>12, <2>2 DEF Chain
<1>17. Identities'
  <2>1. ASSUME NEW k \in 1 .. N + 1
        PROVE  /\ registers'[added'[k].data - 2] = added'[k].cap.id
               /\ writable_bits'[added'[k].data - 2] = {}
    <3>1. CASE k = N + 1
      <4>1. added'[k].data - 2 = start /\ added'[k].cap = c
        BY <1>3, <1>11, <1>12, <3>1
      <4>2. writable_bits'[start] = writable_bits[start] /\ writable_bits[start] = {}
        BY <1>1, <1>3, <1>8, <1>10 DEF FreeReadOnly
      <4> QED
        BY <1>8, <4>1, <4>2
    <3>2. CASE k \in 1 .. N
      <4> DEFINE h == added[k].data - 2
      <4>1. h \in Offsets /\ h \in Nat /\ Start <= h /\ h < AreaEnd
        BY <1>3, <1>6, <1>7, <3>2 DEF Offsets
      <4>2. h # last
        <5>1. CASE k = N
          <6>1. last = h + 1
            BY <1>1, <1>7, <3>2, <5>1 DEF Link, last
          <6> QED
            BY <4>1, <6>1
        <5>2. CASE k # N
          <6>1. added[k].data + added[k].room <= added[N].data - 2 /\ N \in 1 .. N
            BY <1>1, <3>2, <5>2, Placed DEF N
          <6>2. last = added[N].data - 1
            BY <6>1 DEF Link, last
          <6> QED
            BY <1>7, <3>2, <6>1, <6>2
        <5> QED
          BY <5>1, <5>2
      <4>3. h # Status /\ h < start
        BY <1>3, <4>1, HeaderAssumption, AreaAssumption
      <4>4. registers'[h] = registers[h] /\ writable_bits'[h] = writable_bits[h]
        BY <1>3, <1>8, <4>1, <4>2, <4>3
      <4> QED
        BY <1>1, <1>12, <3>2, <4>4 DEF Identities, N
    <3> QED
      BY <1>1, <3>1, <3>2
  <2> QED
    BY <1>12, <2>1 DEF Identities
<1>18. CapListBit'
  <2>1. writable_bits'[Status] = {}
    <3>1. Status < start + 2
      BY <1>3, HeaderAssumption, AreaAssumption
    <3> QED
      BY <1>1, <1>6, <1>8, <3>1 DEF CapListBit
  <2>2. CapList \in registers'[Status]
    <3>1. CASE N = 0
      BY <1>8, <3>1
    <3>2. CASE N # 0
      BY <1>1, <1>8, <3>2 DEF CapListBit, N
    <3> QED
      BY <3>1, <3>2
  <2>3. added' # <<>>
    BY <1>1, <1>12
  <2> QED
    BY <2>1, <2>2, <2>3 DEF CapListBit
<1>19. DataKept'
  <2>1. ASSUME NEW k \in 1 .. N + 1
        PROVE  /\ added'[k].cap.size <= added'[k].room
               /\ \A i \in 0 .. added'[k].cap.size - 1 :
                    /\ registers'[added'[k].data + i] \ added'[k].cap.writable[i]
                         = added'[k].cap.registers[i] \ added'[k].cap.writable[i]
                    /\ writable_bits'[added'[k].data + i] = added'[k].cap.writable[i]
    <3>1. CASE k = N + 1
      BY <1>2, <1>8, <1>11, <1>12, <3>1
    <3>2. CASE k \in 1 .. N
      <4>1. added'[k] = added[k] /\ added[k].cap.size <= added[k].room
        BY <1>1, <1>12, <3>2 DEF DataKept, N
      <4>2. ASSUME NEW i \in 0 .. added[k].cap.size - 1
            PROVE  /\ registers'[added[k].data + i] = registers[added[k].data + i]
                   /\ writable_bits'[added[k].data + i] = writable_bits[added[k].data + i]
        <5> DEFINE o == added[k].data + i
                   d == added[k].data
                   r == added[k].room
        <5>0. d + i \in Nat /\ Start <= d + i /\ d + i < Size
          BY <1>7, <3>2, <4>1, DataInArea
        <5>1. /\ d \in Nat /\ r \in Nat /\ i \in Nat /\ i < r /\ d + r <= AreaEnd
              /\ Start <= d - 2
          <6>1. i \in Nat /\ i < added[k].cap.size /\ added[k].cap.size \in Nat
            BY <1>7, <3>2
          <6> QED
            BY <1>3, <1>7, <3>2, <4>1, <6>1
        <5>2. o \in Offsets
          BY <5>0, SizeAssumption DEF Offsets
        <5>3. o # last
          <6>1. CASE k = N
            <7>1. last = d - 1
              BY <1>1, <3>2, <6>1 DEF Link, last
            <7> QED
              BY <5>1, <7>1
          <6>2. CASE k # N
            <7>1. d + r <= added[N].data - 2 /\ N \in 1 .. N
              BY <1>1, <3>2, <6>2, Placed DEF N
            <7>2. last = added[N].data - 1 /\ added[N].data \in Nat
              BY <1>7, <7>1 DEF Link, last
            <7> HIDE DEF d, r
            <7> QED
              BY <5>1, <7>1, <7>2 DEF o, d
          <6> QED
            BY <6>1, <6>2
        <5> HIDE DEF d, r
        <5>4. d + i < start /\ d + i # Status /\ o = d + i
          BY <1>3, <5>0, <5>1, HeaderAssumption, AreaAssumption DEF d
        <5> HIDE DEF o
        <5>5. o < start /\ o # Status /\ o < start + 2
          BY <1>3, <5>0, <5>4
        <5>6. registers'[o] = registers[o] /\ writable_bits'[o] = writable_bits[o]
          BY <1>8, <5>2, <5>3, <5>5
        <5> QED
          BY <5>6 DEF o
      <4> QED
        BY <1>1, <3>2, <4>1, <4>2 DEF DataKept, N
    <3> QED
      BY <1>1, <3>1, <3>2
  <2> QED
    BY <1>12, <2>1 DEF DataKept
<1>20. FreeReadOnly'
  <2>1. AreaEnd' = start + 2 + c.size
    BY <1>1, <1>11, <1>12 DEF AreaEnd
  <2>2. \A o \in Offsets : o >= start + 2 + c.size => o >= AreaEnd
    BY <1>2, <1>3, SizeAssumption DEF Offsets
  <2> QED
    BY <1>1, <1>8, <2>1, <2>2 DEF FreeReadOnly
<1>21. WalkState'
  BY <1>9 DEF WalkState, Return
<1> QED
  BY <1>13, <1>14, <1>15, <1>16, <1>17, <1>18, <1>19, <1>20, <1>21 DEF ConfigInv, Registers

-----------------------------------------------------------------------------
(***************************************************************************)
(* update_capability.                                                      *)
(***************************************************************************)

\* No register of the list lies among the data of capability p.
LEMMA ListOutsideData ==
  ASSUME ConfigTypeOK, CapabilitiesDisjoint, NEW p \in 1 .. Len(added)
  PROVE  LET Outside(o) == o < added[p].data \/ o >= added[p].data + added[p].room
         IN /\ \A k \in 0 .. Len(added) : Outside(Link(k))
            /\ \A k \in 1 .. Len(added) : Outside(added[k].data - 2)
            /\ Outside(Status)
            /\ \A k \in 1 .. Len(added) : k # p =>
                 \A i \in 0 .. added[k].room - 1 : Outside(added[k].data + i)
<1> DEFINE d == added[p].data
           r == added[p].room
           Outside(o) == o < d \/ o >= d + r
<1>1. Len(added) \in Nat /\ d \in Nat /\ r \in Nat /\ Start <= d - 2
  BY Placed
<1>2. ASSUME NEW k \in 1 .. Len(added)
      PROVE  /\ Outside(added[k].data - 1) /\ Outside(added[k].data - 2)
             /\ k # p => \A i \in 0 .. added[k].room - 1 : Outside(added[k].data + i)
  <2> DEFINE e == added[k].data
             s == added[k].room
  <2>1. e \in Nat /\ s \in Nat
    BY Placed
  <2>2. k < p => e + s <= d - 2
    BY Placed
  <2>3. p < k => d + r <= e - 2
    BY Placed
  <2>4. k = p => e = d
    OBVIOUS
  <2> HIDE DEF d, r, e, s
  <2>5. /\ Outside(e - 1) /\ Outside(e - 2)
        /\ k # p => \A i \in 0 .. s - 1 : Outside(e + i)
    BY <1>1, <2>1, <2>2, <2>3, <2>4
  <2> QED
    BY <2>5 DEF e, s
<1>3. Outside(CapPointer) /\ Outside(Status)
  BY <1>1, HeaderAssumption, AreaAssumption
<1> QED
  BY <1>1, <1>2, <1>3 DEF Link

\* update_capability rewrites a capability's data, or leaves it as it is.
LEMMA UpdateDoneStep ==
  ASSUME ConfigInv, UpdateDone
  PROVE  ConfigInv'
<1> DEFINE c == call.cap
           N == Len(added)
           p == Len(seen) + 1
           d == added[p].data
           r == added[p].room
           S == [cap : Capabilities, data : Offsets, room : Nat]
<1>1. /\ ConfigTypeOK /\ CapabilitiesDisjoint /\ call # Idle /\ ~IterationEnds /\ ~overrun
      /\ Chain /\ Identities /\ CapListBit /\ DataKept /\ FreeReadOnly /\ LastSize
      /\ added \in Seq(S) /\ N \in Nat /\ Len(seen) \in Nat /\ Len(seen) <= N
  BY DEF ConfigInv, UpdateDone, Matches, Idle, WalkState, Registers, ConfigTypeOK
<1>2. c \in Capabilities
  BY DEF UpdateDone, ConfigInv, ConfigTypeOK, Idle
<1>3. c.size \in Nat /\ c.registers \in Bytes(c.size) /\ c.writable \in Bytes(c.size)
  BY <1>2, CapabilitiesAssumption DEF IsCapability
<1>4. p \in 1 .. N
  BY <1>1, WalkReads
<1>5. call.data = d /\ c.id = added[p].cap.id
  <2>1. Item = <<added[p].cap.id, d>>
    BY <1>1, <1>4, WalkReads
  <2>2. Item = <<c.id, call.data>>
    BY DEF UpdateDone, Matches
  <2> QED
    BY <2>1, <2>2
<1>6. /\ \A k \in 1 .. N : /\ added[k] \in S /\ added[k].data \in Nat /\ added[k].room \in Nat
                           /\ added[k].cap.size \in Nat /\ Start <= added[k].data - 2
                           /\ added[k].data + added[k].room <= End
      /\ \A j, k \in 1 .. N : added[j].data = added[k].data => j = k
  BY <1>1, Placed
<1>7. DOMAIN added = 1 .. N
  BY <1>1
<1>8. added' = [k \in 1 .. N |-> IF added[k].data = d
                                   THEN [added[k] EXCEPT !.cap = c] ELSE added[k]]
  BY <1>5, <1>7 DEF UpdateDone
<1>9. /\ registers' = Set(registers, d, c.registers)
      /\ writable_bits' = Set(writable_bits, d, c.writable)
      /\ overrun' = (\E k \in 1 .. N : added[k].data = d /\ c.size > added[k].room)
      /\ last_cap_size' = last_cap_size /\ Return
  BY <1>1, <1>5, <1>7 DEF UpdateDone, WithData, SetWritableBits
<1> HIDE DEF c, N, p, S
<1>10. /\ added' \in Seq(S) /\ Len(added') = N /\ DOMAIN added' = 1 .. N
       /\ \A k \in 1 .. N :
            /\ added'[k].data = added[k].data /\ added'[k].room = added[k].room
            /\ k # p => added'[k] = added[k]
            /\ added'[k].cap.id = added[k].cap.id
       /\ added'[p].cap = c
  <2>1. \A k \in 1 .. N : [added[k] EXCEPT !.cap = c] \in S
    BY <1>2, <1>6 DEF S
  <2>2. \A k \in 1 .. N : added'[k] \in S
    BY <1>6, <1>8, <2>1
  <2>3. added' \in Seq(S) /\ Len(added') = N
    <3>1. N \in Nat /\ added' \in [1 .. N -> S]
      BY <1>1, <1>8, <2>2 DEF N
    <3> QED
      BY <3>1, FunctionIsSeq
  <2>4. ASSUME NEW k \in 1 .. N
        PROVE  /\ added'[k].data = added[k].data /\ added'[k].room = added[k].room
               /\ k # p => added'[k] = added[k]
               /\ added'[k].cap = IF k = p THEN c ELSE added[k].cap
    BY <1>4, <1>6, <1>8 DEF S
  <2> QED
    BY <1>4, <1>5, <1>8, <2>3, <2>4
<1>11. \A o \in Offsets :
         /\ registers'[o] =
              IF o - d \in 0 .. c.size - 1 THEN c.registers[o - d] ELSE registers[o]
         /\ writable_bits'[o] =
              IF o - d \in 0 .. c.size - 1 THEN c.writable[o - d] ELSE writable_bits[o]
  BY <1>1, <1>3, <1>9 DEF Set, Bytes, ConfigTypeOK
<1>12. registers' \in [Offsets -> Byte] /\ writable_bits' \in [Offsets -> Byte]
  <2>1. registers \in [Offsets -> Byte] /\ writable_bits \in [Offsets -> Byte]
    BY <1>1 DEF ConfigTypeOK
  <2>2. \A i \in 0 .. c.size - 1 : c.registers[i] \in Byte /\ c.writable[i] \in Byte
    BY <1>3 DEF Bytes
  <2>3. /\ registers' = [o \in Offsets |-> registers'[o]]
        /\ writable_bits' = [o \in Offsets |-> writable_bits'[o]]
    BY <1>9, <2>1 DEF Set
  <2>4. \A o \in Offsets : registers'[o] \in Byte /\ writable_bits'[o] \in Byte
    BY <1>11, <2>1, <2>2
  <2> QED
    BY <2>3, <2>4
<1>13. ConfigTypeOK'
  <2>1. CapPointer \in Offsets
    BY HeaderAssumption, AreaAssumption, SizeAssumption DEF Offsets
  <2> QED
    BY <1>1, <1>9, <1>10, <1>12, <2>1 DEF ConfigTypeOK, Return, S
<1>14. CapabilitiesDisjoint'
  BY <1>1, <1>10 DEF CapabilitiesDisjoint, N
<1>15. LastSize'
  <2>1. N \in 1 .. N /\ added # <<>>
    BY <1>1, <1>4 DEF N
  <2> QED
    BY <1>1, <1>9, <1>10, <2>1 DEF LastSize, N
<1>16. WalkState'
  BY <1>9 DEF WalkState, Return
<1>17. ASSUME ~overrun'
       PROVE  Chain' /\ Identities' /\ CapListBit' /\ DataKept' /\ FreeReadOnly'
  <2> DEFINE Outside(o) == o < d \/ o >= d + r
  <2>1. d \in Nat /\ r \in Nat /\ c.size <= r /\ d + r <= End /\ Start <= d - 2
    BY <1>3, <1>4, <1>6, <1>9, <1>17
  <2>2. /\ \A k \in 0 .. N : Outside(Link(k))
        /\ \A k \in 1 .. N : Outside(added[k].data - 2)
        /\ Outside(Status)
        /\ \A k \in 1 .. N : k # p => \A i \in 0 .. added[k].room - 1 : Outside(added[k].data + i)
    BY <1>1, <1>4, ListOutsideData DEF N
  <2> HIDE DEF d, r
  <2>3. \A o \in Offsets : Outside(o) =>
          registers'[o] = registers[o] /\ writable_bits'[o] = writable_bits[o]
    <3> SUFFICES ASSUME NEW o \in Offsets, Outside(o)
                 PROVE  registers'[o] = registers[o] /\ writable_bits'[o] = writable_bits[o]
      OBVIOUS
    <3>1. o - d \notin 0 .. c.size - 1
      BY <1>3, <2>1, SizeAssumption DEF Offsets
    <3> QED
      BY <1>11, <3>1
  <2> HIDE DEF Outside
  <2>4. /\ \A k \in 0 .. N : Link(k) \in Offsets
        /\ \A k \in 1 .. N : added[k].data - 2 \in Offsets
        /\ Status \in Offsets
    BY <1>1, LinksInBounds DEF N
  <2>5. Chain'
    <3>1. \A k \in 0 .. N : Link(k)' = Link(k) /\ Target(k)' = Target(k)
      BY <1>1, <1>10 DEF Link, Target, N
    <3> QED
      BY <1>1, <1>10, <2>2, <2>3, <2>4, <3>1 DEF Chain, N
  <2>6. Identities'
    <3>1. ASSUME NEW k \in 1 .. N
          PROVE  /\ registers'[added[k].data - 2] = added[k].cap.id
                 /\ writable_bits'[added[k].data - 2] = {}
      BY <1>1, <2>2, <2>3, <2>4 DEF Identities, N
    <3> QED
      BY <1>10, <3>1 DEF Identities
  <2>7. CapListBit'
    <3>1. added # <<>> /\ added' # <<>>
      BY <1>1, <1>4, <1>10 DEF N
    <3> QED
      BY <1>1, <2>2, <2>3, <2>4, <3>1 DEF CapListBit
  <2>8. ASSUME NEW k \in 1 .. N
        PROVE  /\ added'[k].cap.size <= added'[k].room
               /\ \A i \in 0 .. added'[k].cap.size - 1 :
                    /\ registers'[added'[k].data + i] \ added'[k].cap.writable[i]
                         = added'[k].cap.registers[i] \ added'[k].cap.writable[i]
                    /\ writable_bits'[added'[k].data + i] = added'[k].cap.writable[i]
    <3>1. CASE k = p
      <4>1. added'[k].cap = c /\ added'[k].data = d /\ added'[k].room = r
        BY <1>10, <3>1 DEF d, r
      <4>2. ASSUME NEW i \in 0 .. c.size - 1
            PROVE  registers'[d + i] = c.registers[i] /\ writable_bits'[d + i] = c.writable[i]
        <5>1. d + i \in Nat /\ d + i < Size
          BY <1>3, <2>1, DataInArea
        <5>3. (d + i) - d = i
          BY <1>3, <2>1
        <5>2. d + i \in Offsets
          BY <5>1, SizeAssumption DEF Offsets
        <5> QED
          BY <1>11, <5>2, <5>3
      <4> QED
        BY <2>1, <4>1, <4>2
    <3>2. CASE k # p
      <4>1. added'[k] = added[k] /\ added[k].cap.size <= added[k].room
        BY <1>1, <1>10, <3>2 DEF DataKept, N
      <4>2. ASSUME NEW i \in 0 .. added[k].cap.size - 1
            PROVE  /\ registers'[added[k].data + i] = registers[added[k].data + i]
                   /\ writable_bits'[added[k].data + i] = writable_bits[added[k].data + i]
        <5>1. added[k].data + i \in Nat /\ added[k].data + i < Size
          BY <1>6, <4>1, DataInArea
        <5>2. added[k].data + i \in Offsets
          BY <5>1, SizeAssumption DEF Offsets
        <5>3. i \in 0 .. added[k].room - 1
          BY <1>6, <4>1
        <5> QED
          BY <2>2, <2>3, <3>2, <5>2, <5>3
      <4> QED
        BY <1>1, <4>1, <4>2 DEF DataKept, N
    <3> QED
      BY <3>1, <3>2
  <2>9. DataKept'
    BY <1>10, <2>8 DEF DataKept
  <2>10. FreeReadOnly'
    <3>1. AreaEnd' = AreaEnd
      <4>1. added # <<>> /\ added' # <<>> /\ N \in 1 .. N
        BY <1>1, <1>4, <1>10 DEF N
      <4> QED
        BY <1>10, <4>1 DEF AreaEnd, N
    <3>2. AreaEnd \in Nat /\ d + r <= AreaEnd
      BY <1>1, <1>4, AreaEndType DEF N, d, r
    <3>3. \A o \in Offsets : o >= AreaEnd => Outside(o)
      BY <2>1, <3>2, SizeAssumption DEF Offsets, Outside
    <3> QED
      BY <1>1, <2>3, <3>1, <3>3 DEF FreeReadOnly
  <2> QED
    BY <2>5, <2>6, <2>7, <2>9, <2>10
<1> QED
  BY <1>13, <1>14, <1>15, <1>16, <1>17 DEF ConfigInv, Registers

-----------------------------------------------------------------------------
(***************************************************************************)
(* The theorems.                                                           *)
(***************************************************************************)
LEMMA ConfigInvInit == ConfigInit => ConfigInv
<1> SUFFICES ASSUME ConfigInit
             PROVE  ConfigInv
  OBVIOUS
<1>1. CapPointer \in Offsets /\ Status \in Offsets
  BY HeaderAssumption, AreaAssumption, SizeAssumption DEF Offsets
<1>2. ConfigTypeOK
  <2>1. {} \in Byte
    BY DEF Byte
  <2>2. registers \in [Offsets -> Byte] /\ writable_bits \in [Offsets -> Byte]
    BY <2>1 DEF ConfigInit
  <2>3. \A S : <<>> \in Seq(S)
    OBVIOUS
  <2>4. /\ seen \in Seq(Byte \X Nat)
        /\ added \in Seq([cap : Capabilities, data : Offsets, room : Nat])
    BY <2>3, Zenon DEF ConfigInit
  <2> QED
    BY <1>1, <2>2, <2>4 DEF ConfigInit, ConfigTypeOK
<1>3. Len(added) = 0 /\ added = <<>>
  BY DEF ConfigInit
<1>4. Chain
  <2>1. Link(0) = CapPointer /\ Target(0) = 0
    BY <1>3 DEF Link, Target
  <2>2. registers[CapPointer] = {} /\ writable_bits[CapPointer] = {}
    BY <1>1 DEF ConfigInit
  <2>3. Encode(0) = {}
    BY EncodingAssumption
  <2>4. \A k \in 0 .. Len(added) : k = 0
    BY <1>3
  <2> QED
    BY <2>1, <2>2, <2>3, <2>4, Zenon DEF Chain
<1>5. CapabilitiesDisjoint /\ LastSize /\ Identities /\ DataKept
  BY <1>3 DEF CapabilitiesDisjoint, LastSize, Identities, DataKept
<1>6. CapListBit /\ FreeReadOnly /\ WalkState
  BY <1>1, <1>3 DEF ConfigInit, CapListBit, FreeReadOnly, WalkState
<1> QED
  BY <1>2, <1>4, <1>5, <1>6 DEF ConfigInv, Registers

\* Every step keeps the invariant.
LEMMA ConfigInvNext ==
  ASSUME ConfigInv, [ConfigNext]_configVars
  PROVE  ConfigInv'
<1>1. ASSUME NEW c \in Capabilities, AddCapability(c)
      PROVE  ConfigInv'
  BY <1>1, StartWalkStep DEF AddCapability, Idle
<1>2. ASSUME NEW c \in Capabilities, NEW k \in DOMAIN added, UpdateCapability(c, added[k].data)
      PROVE  ConfigInv'
  <2>1. added[k].data \in Offsets
    <3>1. k \in 1 .. Len(added)
      BY DEF ConfigInv, ConfigTypeOK
    <3> QED
      BY <3>1, Placed DEF ConfigInv
  <2> QED
    BY <1>2, <2>1, StartWalkStep DEF UpdateCapability, Idle
<1>3. CASE AddStep
  BY <1>3, ItemStep DEF AddStep, Idle
<1>4. CASE AddDone
  BY <1>4, AddDoneStep
<1>5. CASE AddFails
  BY <1>5, FailStep DEF AddFails
<1>6. CASE UpdateStep
  BY <1>6, ItemStep DEF UpdateStep, Idle
<1>7. CASE UpdateDone
  BY <1>7, UpdateDoneStep
<1>8. CASE UpdateFails
  BY <1>8, FailStep DEF UpdateFails
<1>9. ASSUME NEW o \in HeaderRegs, NEW bits \in Values, AddWritableBits(o, bits)
      PROVE  ConfigInv'
  BY <1>9, AddWritableBitsStep
<1>10. ASSUME NEW offset \in Offsets, NEW size \in 1 .. 4,
              NEW data \in [0 .. size - 1 -> Values], WriteConfig(offset, size, data)
       PROVE  ConfigInv'
  BY <1>10, WriteConfigStep
<1>11. CASE UNCHANGED configVars
  <2>1. ConfigTypeOK' /\ WalkState'
    BY <1>11 DEF ConfigInv, ConfigTypeOK, WalkState, Link, configVars
  <2> QED
    BY <1>11, <2>1, ListUnchanged DEF ConfigInv, configVars
<1> QED
  BY <1>1, <1>2, <1>3, <1>4, <1>5, <1>6, <1>7, <1>8, <1>9, <1>10, <1>11 DEF ConfigNext

\* The list is where the registers say it is, however the operations and the
\* guest's writes interleave: the invariant the theorems below rest on.
THEOREM ConfigInvariant == ConfigSpec => []ConfigInv
<1>1. ConfigInv /\ [ConfigNext]_configVars => ConfigInv'
  BY ConfigInvNext
<1> QED
  BY <1>1, ConfigInvInit, PTL DEF ConfigSpec

\* The registers, the writable bits and the state of a walk keep their types.
THEOREM ConfigTypeCorrect == ConfigSpec => []ConfigTypeOK
<1>1. ConfigInv => ConfigTypeOK
  BY DEF ConfigInv
<1> QED
  BY <1>1, ConfigInvariant, PTL

\* The capabilities that add_capability lays out never overlap, wherever the
\* function stops adding and whatever failed in between.
THEOREM CapabilitiesDisjointInvariant == ConfigSpec => []CapabilitiesDisjoint
<1>1. ConfigInv => CapabilitiesDisjoint
  BY DEF ConfigInv
<1> QED
  BY <1>1, ConfigInvariant, PTL

\* Every walk of the list returns what was added, in its order, and stops
\* behind the last capability.
THEOREM WalkFaithfulInvariant == ConfigSpec => []WalkFaithful
<1>1. ConfigInv => WalkFaithful
  <2> SUFFICES ASSUME ConfigInv, ~overrun
               PROVE  /\ call # Idle =>
                           /\ Len(seen) <= Len(added)
                           /\ \A k \in 1 .. Len(seen) : seen[k] = <<added[k].cap.id, added[k].data>>
                           /\ IterationEnds => Len(seen) = Len(added)
                      /\ added # <<>> <=> CapList \in registers[Status]
    BY DEF WalkFaithful
  <2> QED
    BY WalkReads DEF ConfigInv, WalkState, Registers, CapListBit
<1> QED
  BY <1>1, ConfigInvariant, PTL

\* A capability's read-only bits keep the value the function gave them, and
\* its writable bits stay writable, whatever the guest writes.
THEOREM ReadOnlyKeptInvariant == ConfigSpec => []ReadOnlyKept
<1>1. ConfigInv => ReadOnlyKept
  <2> SUFFICES ASSUME ConfigInv, ~overrun, NEW k \in 1 .. Len(added),
                      NEW i \in 0 .. added[k].cap.size - 1
               PROVE  /\ Read(registers, added[k].data, added[k].cap.size)[i]
                             \ added[k].cap.writable[i]
                           = added[k].cap.registers[i] \ added[k].cap.writable[i]
                      /\ writable_bits[added[k].data + i] = added[k].cap.writable[i]
    BY DEF ReadOnlyKept
  <2> QED
    BY DEF ConfigInv, Registers, DataKept, Read
<1> QED
  BY <1>1, ConfigInvariant, PTL

=============================================================================
