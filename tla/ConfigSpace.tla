----------------------------- MODULE ConfigSpace -----------------------------
(***************************************************************************)
(* The configuration space of a PCI function: its registers, their         *)
(* writable bits, and the capability list that add_capability strings      *)
(* through the device specific area                                        *)
(* (greens-pci/src/configuration_space.rs, capability.rs).                 *)
(*                                                                         *)
(* Nothing but the registers records where the list ends: add_capability   *)
(* and update_capability find out by walking it, one call of the iterator  *)
(* at a time.  The walk is modelled step by step.                          *)
(***************************************************************************)
EXTENDS RegisterBlock, Sequences

CONSTANTS
  Size,          \* bytes of configuration space (256)
  Start, End,    \* the device specific area (0x40, 0xFF): End is not part of it
  CapPointer,    \* the Capabilities Pointer register (0x34)
  Status,        \* the byte of the status register with the CAP_LIST bit ...
  CapList,       \* ... and that bit
  HeaderRegs,    \* registers of the header the function makes writable
  Capabilities,  \* the capabilities a function may add
  Values         \* bytes the guest writes, and bits made writable

\* The binary notation of a pointer, and the pointer a byte denotes.
Pointers == 0 .. Size - 1
Encode(n) == {i \in Bits : (n \div 2 ^ i) % 2 = 1}
Decode(byte) == CHOOSE n \in Pointers : Encode(n) = byte

\* PciCapability: an identity, a size, and the values and writable bits of the
\* registers that follow the two bytes of the header.
IsCapability(c) ==
  /\ c.id \in Byte /\ c.size \in Nat
  /\ c.registers \in Bytes(c.size) /\ c.writable \in Bytes(c.size)

ASSUME SizeAssumption == Size \in Nat
ASSUME AreaAssumption ==
  /\ Start \in Nat \ {0} /\ Start % 4 = 0 /\ End \in Nat
  /\ Start <= End /\ End < Size
ASSUME HeaderAssumption ==
  /\ CapPointer \in 0 .. Start - 1 /\ Status \in 0 .. Start - 1 /\ CapPointer # Status
  /\ CapPointer # 1
  /\ HeaderRegs \subseteq (0 .. Start - 1) \ {CapPointer, Status}
  /\ CapList \in Bits
ASSUME CapabilitiesAssumption == \A c \in Capabilities : IsCapability(c)
ASSUME ValuesAssumption == Values \subseteq Byte
ASSUME EncodingAssumption ==
  /\ Encode(0) = {}
  /\ \A m, n \in Pointers : Encode(m) = Encode(n) => m = n

VARIABLES
  registers, writable_bits,
  last_cap_size,  \* the size of the capability added last
  call,           \* the operation that walks the list, and its arguments
  next_pointer,   \* PciCapabilitiesList: the register of the next pointer
  seen,           \* what the iterator returned: <<id, data offset>>
  added,          \* history: the capabilities, in the order they were added
  overrun         \* history: an update needed more room than the capability has

configVars == <<registers, writable_bits, last_cap_size, call, next_pointer, seen,
                added, overrun>>

Offsets == 0 .. Size - 1
Idle == [op |-> "idle"]

AlignUp(n) == n + ((4 - (n % 4)) % 4)
AlignDown(n) == n - (n % 4)

ConfigInit ==
  /\ registers = [o \in Offsets |-> {}]
  /\ writable_bits = [o \in Offsets |-> {}]
  /\ last_cap_size = 0
  /\ call = Idle /\ next_pointer = CapPointer /\ seen = <<>>
  /\ added = <<>> /\ overrun = FALSE

-----------------------------------------------------------------------------
(***************************************************************************)
(* PciCapabilitiesList.                                                    *)
(***************************************************************************)

\* next_cap: where the pointer in register p leads, 0 for nowhere.
NextCap(p) ==
  LET next == AlignDown(Decode(registers[p])) IN IF next < Start THEN 0 ELSE next

\* next returns None: the list ends, or the next capability points back to the
\* one the iterator comes from.
IterationEnds ==
  LET next == NextCap(next_pointer) IN
    \/ next = 0
    \/ Decode(registers[next + 1]) + 1 = next_pointer

\* The item next returns otherwise: the identity and the offset of the data.
Item == <<registers[NextCap(next_pointer)], NextCap(next_pointer) + 2>>

\* capability_iter, at the start of an operation.  What follows an overrun is
\* not modelled.
StartWalk(c) ==
  /\ ~overrun /\ call = Idle /\ call' = c
  /\ next_pointer' = CapPointer /\ seen' = <<>>
  /\ UNCHANGED <<registers, writable_bits, last_cap_size, added, overrun>>

\* The operation returns; the iterator is gone.
Return == call' = Idle /\ next_pointer' = CapPointer /\ seen' = <<>>

-----------------------------------------------------------------------------
(***************************************************************************)
(* add_capability and update_capability.                                   *)
(***************************************************************************)

FitsAnywhere(c, data) == TRUE

\* cap_end_offset: the capability fits behind the offset of its data.
Fits(c, data) == data + c.size <= End

\* The registers with the data of c at "data".
WithData(regs, c, data) == Set(regs, data, c.registers)

\* set_capability_data, of the writable bits.
SetWritableBits(c, data) == writable_bits' = Set(writable_bits, data, c.writable)

CapStartUnaligned ==
  IF seen = <<>> THEN Start ELSE seen[Len(seen)][2] + last_cap_size

\* Where the new capability starts: behind the last one, at the next dword.
CapStart ==
  AlignUp(IF seen = <<>> THEN Start ELSE seen[Len(seen)][2] + last_cap_size)

\* The register that will point to the new capability.
LinkRegister == IF seen = <<>> THEN CapPointer ELSE seen[Len(seen)][2] - 1

AddCapability(c) == StartWalk([op |-> "add", cap |-> c])

\* last() goes through the whole list.
AddStep ==
  /\ call.op = "add" /\ ~IterationEnds
  /\ seen' = Append(seen, Item) /\ next_pointer' = NextCap(next_pointer) + 1
  /\ UNCHANGED <<registers, writable_bits, last_cap_size, call, added, overrun>>

\* The data, the header, and the pointer to it; the CAP_LIST bit with the
\* first one.
Linked(c, start) ==
  LET header == [o \in Offsets |-> IF o = start THEN c.id
                                   ELSE IF o = start + 1 THEN Encode(0)
                                   ELSE WithData(registers, c, start + 2)[o]]
  IN [o \in Offsets |->
        IF o = LinkRegister THEN Encode(start)
        ELSE IF o = Status /\ seen = <<>> THEN header[o] \cup {CapList}
        ELSE header[o]]

AddDone ==
  /\ call.op = "add" /\ IterationEnds
  /\ Fits(call.cap, CapStart + 2)
  /\ registers' = Linked(call.cap, CapStart)
  /\ SetWritableBits(call.cap, CapStart + 2)
  /\ last_cap_size' = call.cap.size
  /\ added' = Append(added, [cap |-> call.cap, data |-> CapStart + 2,
                             room |-> call.cap.size])
  /\ Return
  /\ UNCHANGED overrun

AddFailsHalfway ==
  /\ call.op = "add" /\ IterationEnds
  /\ ~Fits(call.cap, CapStart + 2)
  /\ registers' = [registers EXCEPT ![LinkRegister] = Encode(CapStart % Size)]
  /\ Return
  /\ UNCHANGED <<writable_bits, last_cap_size, added, overrun>>

\* DeviceAreaBounds: nothing was touched yet.
AddFails ==
  /\ call.op = "add" /\ IterationEnds
  /\ ~Fits(call.cap, CapStart + 2)
  /\ Return
  /\ UNCHANGED <<registers, writable_bits, last_cap_size, added, overrun>>

\* The caller has the offset from add_capability, if for another capability.
UpdateCapability(c, data) == StartWalk([op |-> "update", cap |-> c, data |-> data])

\* The item is the capability to update.
Matches == ~IterationEnds /\ Item = <<call.cap.id, call.data>>

UpdateStepStays ==
  /\ call.op = "update" /\ ~IterationEnds /\ ~Matches
  /\ UNCHANGED configVars

\* find() goes on while the item does not match ...
UpdateStep ==
  /\ call.op = "update" /\ ~IterationEnds /\ ~Matches
  /\ seen' = Append(seen, Item) /\ next_pointer' = NextCap(next_pointer) + 1
  /\ UNCHANGED <<registers, writable_bits, last_cap_size, call, added, overrun>>

\* ... and then its data is replaced.  Its size is not compared with that of
\* the capability that was added.
UpdateDone ==
  /\ call.op = "update" /\ Matches
  /\ Fits(call.cap, call.data)
  /\ registers' = WithData(registers, call.cap, call.data)
  /\ SetWritableBits(call.cap, call.data)
  /\ added' = [k \in DOMAIN added |->
                 IF added[k].data = call.data THEN [added[k] EXCEPT !.cap = call.cap]
                                              ELSE added[k]]
  /\ overrun' = (overrun \/ \E k \in DOMAIN added :
                   added[k].data = call.data /\ call.cap.size > added[k].room)
  /\ Return
  /\ UNCHANGED last_cap_size

\* CapabilityNotFound, or the new data does not fit.
UpdateFails ==
  /\ call.op = "update"
  /\ IterationEnds \/ (Matches /\ ~Fits(call.cap, call.data))
  /\ Return
  /\ UNCHANGED <<registers, writable_bits, last_cap_size, added, overrun>>

-----------------------------------------------------------------------------
(***************************************************************************)
(* Accesses.                                                               *)
(***************************************************************************)

\* set_writable_bits, add_writable_bits: a register of the header becomes
\* writable (allow_bus_master, the Interrupt Line, the space bits).
AddWritableBits(o, bits) ==
  /\ call = Idle
  /\ writable_bits' = [writable_bits EXCEPT ![o] = @ \cup bits]
  /\ UNCHANGED <<registers, last_cap_size, call, next_pointer, seen, added, overrun>>

\* validate_access
ValidateAccess(offset, size) ==
  size \in {1, 2, 4} /\ offset % size = 0 /\ InBounds(Size, offset, size)

\* write_register_checked, for the guest.
WriteConfig(offset, size, data) ==
  /\ call = Idle
  /\ ValidateAccess(offset, size)
  /\ registers' = Write(registers, writable_bits, offset, data)
  /\ UNCHANGED <<writable_bits, last_cap_size, call, next_pointer, seen, added, overrun>>

Walk == AddStep \/ AddDone \/ AddFails \/ UpdateStep \/ UpdateDone \/ UpdateFails

ConfigNext ==
  \/ \E c \in Capabilities : AddCapability(c)
  \/ \E c \in Capabilities, k \in DOMAIN added : UpdateCapability(c, added[k].data)
  \/ AddStep \/ AddDone \/ AddFails
  \/ UpdateStep \/ UpdateDone \/ UpdateFails
  \/ \E o \in HeaderRegs, bits \in Values : AddWritableBits(o, bits)
  \/ \E offset \in Offsets, size \in 1 .. 4 : \E data \in [0 .. size - 1 -> Values] :
       WriteConfig(offset, size, data)

\* The walk is a loop of the running program: it goes on.
ConfigSpec == ConfigInit /\ [][ConfigNext]_configVars /\ WF_configVars(Walk)

-----------------------------------------------------------------------------
\* The registers and the state of a walk keep their types.
ConfigTypeOK ==
  /\ registers \in [Offsets -> Byte] /\ writable_bits \in [Offsets -> Byte]
  /\ last_cap_size \in Nat
  /\ call \in {Idle} \cup [op : {"add"}, cap : Capabilities]
              \cup [op : {"update"}, cap : Capabilities, data : Offsets]
  /\ next_pointer \in Offsets
  /\ seen \in Seq(Byte \X Nat)
  /\ added \in Seq([cap : Capabilities, data : Offsets, room : Nat])
  /\ overrun \in BOOLEAN

\* Every walk of the list returns the capabilities that were added, each with
\* its identity and the offset add_capability returned for it, in the order
\* they were added, and stops behind the last one: no capability is lost or
\* seen twice, whatever the guest wrote to the registers in between and
\* whatever failed.  The driver is told of the list when there is one.
WalkFaithful ==
  ~overrun =>
    /\ call # Idle =>
         /\ Len(seen) <= Len(added)
         /\ \A k \in 1 .. Len(seen) : seen[k] = <<added[k].cap.id, added[k].data>>
         /\ IterationEnds => Len(seen) = Len(added)
    /\ added # <<>> <=> CapList \in registers[Status]

\* The capabilities lie in the device specific area, at dwords, and none
\* reaches into another, headers included.
CapabilitiesDisjoint ==
  \A k \in 1 .. Len(added) :
    /\ added[k].data - 2 >= Start /\ (added[k].data - 2) % 4 = 0
    /\ added[k].data + added[k].room <= End
    /\ \A j \in k + 1 .. Len(added) : added[k].data + added[k].room <= added[j].data - 2

\* The bits a capability declares read-only have the value it gave them when
\* it was added or updated last, and its other bits are writable, whatever
\* the guest writes and whatever is added or updated around it.
ReadOnlyKept ==
  ~overrun => \A k \in 1 .. Len(added) :
    LET c == added[k].cap
        data == Read(registers, added[k].data, c.size) IN
    \A i \in 0 .. c.size - 1 :
      /\ data[i] \ c.writable[i] = c.registers[i] \ c.writable[i]
      /\ writable_bits[added[k].data + i] = c.writable[i]

\* Every operation that walks the list comes to an end.
WalkEnds == call # Idle ~> call = Idle

=============================================================================
