---------------------------- MODULE VirtioWindow ----------------------------
(***************************************************************************)
(* How an access reaches the structures of a virtio PCI function: by the   *)
(* guest's own access to the BAR (greens-pci/src/function.rs,              *)
(* bar_region.rs, greens-pci-virtio/src/pci.rs), or through the            *)
(* configuration access capability, a window in configuration space for    *)
(* drivers that cannot map the BAR (pci_cfg_cap.rs).                       *)
(*                                                                         *)
(* What a structure makes of an access is the matter of VirtioCommonCfg,   *)
(* MsiX and VhostNet; here is who gets it and what the guest reads.  The   *)
(* ISR status byte is part of the model because reading it clears it.      *)
(***************************************************************************)
EXTENDS Integers, Sequences

CONSTANTS
  Page,         \* the distance of the structures in the BAR (0x1000)
  CommonSize,   \* bytes of the common configuration structure
  TableBytes, PbaBytes,  \* bytes of the MSI-X table and of the PBA
  NumBarRegs,   \* BAR registers
  Dword,        \* values of a BAR register
  DataOffset,   \* where pci_cfg_data is in configuration space
  ConfigSize,   \* bytes of configuration space
  Contents,     \* bytes the guest writes and the structures hold
  AllOnes,      \* the byte 0xFF
  Selections,   \* what the driver selects: bar, offset and length
  Addresses, ConfigOffsets, Sizes,  \* what the guest accesses
  BarValues,    \* what the guest writes to the BAR register
  None

\* PciMsiXCapability::new refuses a table or PBA that is not aligned to eight.
ASSUME PageAssumption == Page \in Nat \ {0} /\ Page % 8 = 0 /\ CommonSize \in 1 .. Page
ASSUME TableAssumption == TableBytes \in 1 .. Page /\ PbaBytes \in 1 .. Page
ASSUME DataAssumption ==
  /\ DataOffset \in Nat /\ DataOffset % 4 = 0
  /\ ConfigSize \in Nat /\ DataOffset + 4 <= ConfigSize
ASSUME CfgAssumption ==
  Selections \subseteq [bar : Nat, offset : Nat, length : Nat]
ASSUME AccessAssumption ==
  /\ Addresses \subseteq Nat /\ ConfigOffsets \subseteq Nat /\ Sizes \subseteq 1 .. 8
  /\ BarValues \subseteq 0 .. Dword - 1
ASSUME BarAssumption == NumBarRegs \in Nat \ {0} /\ Dword \in Nat /\ 8 * Page <= Dword

VARIABLES
  reg, space,    \* the BAR registers and the enabled spaces
  cfg,           \* the window: [bar, offset, length] as the driver wrote them
  pci_cfg_data,  \* ... and its data register
  isr,           \* the ISR status byte
  access,        \* the access to the BAR that the last operation made
  last           \* the last operation of the guest: what, where, and its reply

windowVars == <<reg, space, cfg, pci_cfg_data, isr, access, last>>

-----------------------------------------------------------------------------
(***************************************************************************)
(* VirtioPciFunction::new: one memory BAR, the structures in it and the    *)
(* capabilities that tell the driver where they are.                       *)
(***************************************************************************)
Regs == 0 .. NumBarRegs - 1

VirtioBars ==
  [r \in Regs |-> IF r = 0 THEN [type |-> "Memory32Bit", size |-> 8 * Page] ELSE None]

B == INSTANCE PciBars WITH
       bars <- VirtioBars, building <- FALSE, writable <- {"mem"},
       HeaderBars <- NumBarRegs, MaxSize <- [t \in {"Io", "Memory32Bit", "Memory64Bit"} |-> Dword],
       known <- [r \in Regs |-> None], torn <- {}, ones <- {}

\* PciBarRegionInfo
Region(bar, offset, length) == [bar |-> bar, offset |-> offset, length |-> length]

RegionsOverlapping ==
  [common |-> Region(0, 0, CommonSize), isr |-> Region(0, Page, 1),
   device |-> Region(0, 2 * Page, 2 * Page), notify |-> Region(0, 3 * Page, Page),
   msixTable |-> Region(0, 4 * Page, Page), pba |-> Region(0, 5 * Page, Page)]

\* The regions the handlers answer for.
Regions ==
  [common |-> Region(0, 0, CommonSize), isr |-> Region(0, Page, 1),
   device |-> Region(0, 2 * Page, Page), notify |-> Region(0, 3 * Page, Page),
   msixTable |-> Region(0, 4 * Page, Page), pba |-> Region(0, 5 * Page, Page)]

\* What an access of n bytes carries, and what one is.
Bytes(n) == [0 .. n - 1 -> Contents \cup {AllOnes} \cup 0 .. 3]
Accesses(n) ==
  [op : {"read", "write"}, via : {"direct", "window"}, bar : Nat, offset : Nat,
   size : {n}, region : DOMAIN Regions \cup {"none"}, bytes : Bytes(n)]

ASSUME NoneAssumption ==
  None \notin Nat /\ \A n \in 1 .. 8 : None \notin Bytes(n) /\ None \notin Accesses(n)

\* VirtioPciCap: a structure of the given type is found there.
VirtioPciCap(type, bar, offset, length) ==
  [type |-> type, bar |-> bar, offset |-> offset, length |-> length]

\* PciMsiXCapability: offset and BAR index share a register, from which the
\* driver takes them apart.  The size follows from the number of vectors.
MsiXRegister(r) == r.offset + r.bar
MsiXCap(type, register, size) ==
  VirtioPciCap(type, register % 8, register - (register % 8), size)

\* What the capabilities tell the driver.
Advertised ==
  {VirtioPciCap("common", 0, 0, CommonSize), VirtioPciCap("isr", 0, Page, 1),
   VirtioPciCap("device", 0, 2 * Page, Page), VirtioPciCap("notify", 0, 3 * Page, Page),
   MsiXCap("msixTable", MsiXRegister(Regions.msixTable), TableBytes),
   MsiXCap("pba", MsiXRegister(Regions.pba), PbaBytes)}

-----------------------------------------------------------------------------
(***************************************************************************)
(* Accesses to the BAR.                                                    *)
(***************************************************************************)

RangeOverlapsTouching(start1, size1, start2, size2) ==
  ~(start1 > start2 + size2 \/ start2 > start1 + size1)

\* range_overlaps
RangeOverlaps(start1, size1, start2, size2) ==
  ~(start1 >= start2 + size2 \/ start2 >= start1 + size1)

\* access_targets_region: a region handles an access that lies in it whole.
AccessTargets(r, bar, offset, size) ==
  bar = r.bar /\ B!RangeContains(r.offset, r.length, offset, size)

\* The first region in the order of asking that handles an access, or "none".
FirstTargeted(order, bar, offset, size) ==
  LET hits == {i \in 1 .. Len(order) :
                 AccessTargets(Regions[order[i]], bar, offset, size)}
  IN IF hits = {} THEN "none" ELSE order[CHOOSE i \in hits : \A j \in hits : i <= j]

\* info_iter of PciMsiX, and the order of VirtioDeviceHandler::read_bar.
MsiXRegions == <<"msixTable", "pba">>
StructureOrder == <<"common", "device", "notify", "isr">>

\* The region that handles an access to the BAR: MSI-X is asked first.
Handler(bar, offset, size) ==
  LET msix == FirstTargeted(MsiXRegions, bar, offset, size)
  IN IF msix # "none" THEN msix ELSE FirstTargeted(StructureOrder, bar, offset, size)

\* find_mmio_region: the BAR of an address and the offset in it, or None.
FindMmioRegion(address, size) ==
  IF \E i \in Regs : B!Finds(i, address, size, "mem")
    THEN LET i == CHOOSE i \in Regs : B!Finds(i, address, size, "mem")
         IN [bar |-> i, offset |-> address - B!GetBar(reg, space, i)]
    ELSE None

\* read_bar fails: the common configuration converts the byte order, and does
\* so for words, dwords and qwords only.
ReadFails(region, size) == region = "common" /\ size \notin {1, 2, 4, 8}

\* What a read leaves in the caller's bytes, which are all ones before: the
\* notify region and the gaps between the structures write nothing.
ReadBytes(region, size, content) ==
  [i \in 0 .. size - 1 |->
     CASE region = "isr" -> isr
       [] region \in {"notify", "none"} -> AllOnes
       [] OTHER -> content]

\* read_and_clear_isr, when the read gets there.
ReadAndClearIsr(region) == isr' = IF region = "isr" THEN 0 ELSE isr

\* An access to the BAR, however it got there.
BarAccess(op, via, found, bytes, size) ==
  [op |-> op, via |-> via, bar |-> found.bar, offset |-> found.offset, size |-> size,
   region |-> Handler(found.bar, found.offset, size), bytes |-> bytes]

\* The guest reads an address: read_mmio.  Reading the ISR status clears it.
ReadMmio(address, size, content) ==
  LET found == FindMmioRegion(address, size)
      region == Handler(found.bar, found.offset, size)
      bytes == ReadBytes(region, size, content)
      fails == found = None \/ ReadFails(region, size)
  IN /\ access' = IF found = None THEN None
                  ELSE BarAccess("read", "direct", found, bytes, size)
     /\ IF found # None THEN ReadAndClearIsr(region) ELSE UNCHANGED isr
     /\ last' = [op |-> "readMmio", reply |-> IF fails THEN None ELSE bytes]
     /\ UNCHANGED <<reg, space, cfg, pci_cfg_data>>

\* The guest writes an address: write_mmio.
WriteMmio(address, size, content) ==
  LET found == FindMmioRegion(address, size) IN
  /\ access' = IF found = None THEN None
               ELSE BarAccess("write", "direct", found, [i \in 0 .. size - 1 |-> content], size)
  /\ last' = [op |-> "writeMmio", reply |-> None]
  /\ UNCHANGED <<reg, space, cfg, pci_cfg_data, isr>>

-----------------------------------------------------------------------------
(***************************************************************************)
(* The window.                                                             *)
(***************************************************************************)
Invalid == [i \in 0 .. 3 |-> AllOnes]

\* find_bar, access_params, and read_mmio's or write_mmio's search: where the
\* window leads, None when there is no such BAR, it is not decoded, or the
\* length is not 1 to 4.
WindowTarget ==
  IF cfg.bar \in Regs /\ B!GetBar(reg, space, cfg.bar) # None /\ cfg.length <= 4
    THEN FindMmioRegion(B!GetBar(reg, space, cfg.bar) + cfg.offset, cfg.length)
    ELSE None

\* The first n of the four bytes come from "bytes", the others are ones.
Padded(bytes, n) == [i \in 0 .. 3 |-> IF i < n THEN bytes[i] ELSE AllOnes]

PrepareReadKeepsStale(content) ==
  LET found == WindowTarget
      region == Handler(found.bar, found.offset, cfg.length)
      bytes == ReadBytes(region, cfg.length, content)
  IN IF found = None
       THEN UNCHANGED <<pci_cfg_data, isr>> /\ access' = None
       ELSE /\ access' = BarAccess("read", "window", found, bytes, cfg.length)
            /\ ReadAndClearIsr(region)
            /\ pci_cfg_data' = IF ReadFails(region, cfg.length)
                                 THEN Invalid ELSE Padded(bytes, cfg.length)

\* prepare_read, of an access that overlaps the data register: it makes the
\* access to the BAR and leaves the bytes, or all ones, in the register.
PrepareRead(content) ==
  LET found == WindowTarget
      region == Handler(found.bar, found.offset, cfg.length)
      bytes == ReadBytes(region, cfg.length, content)
  IN IF found = None
       THEN pci_cfg_data' = Invalid /\ access' = None /\ UNCHANGED isr
       ELSE /\ access' = BarAccess("read", "window", found, bytes, cfg.length)
            /\ ReadAndClearIsr(region)
            /\ pci_cfg_data' = IF ReadFails(region, cfg.length)
                                 THEN Invalid ELSE Padded(bytes, cfg.length)

\* PciConfigurationSpace::validate_access
ValidateAccess(o, size) ==
  size \in {1, 2, 4} /\ o % size = 0 /\ (o % ConfigSize) + size <= ConfigSize

\* The bytes of the data register that an access to configuration space at o
\* covers.
Covered(o, size) == {i \in 0 .. 3 : o <= DataOffset + i /\ DataOffset + i < o + size}

\* function_index_and_offset: there is no function but 0, and an access to
\* another one, or to none, is refused before anything happens.
FunctionZero(o) == o \div ConfigSize = 0

\* read_config: the window comes first, and the access is validated after it.
ReadConfig(o, size, content) ==
  /\ IF FunctionZero(o) /\ RangeOverlaps(o, size, DataOffset, 4)
       THEN PrepareRead(content)
       ELSE access' = None /\ UNCHANGED <<pci_cfg_data, isr>>
  /\ last' = [op |-> "readConfig",
              reply |-> IF FunctionZero(o) /\ ValidateAccess(o, size)
                          THEN [i \in Covered(o, size) |-> pci_cfg_data'[i]]
                          ELSE None]
  /\ UNCHANGED <<reg, space, cfg>>

ProcessWriteFirst ==
  access' = IF WindowTarget = None THEN None
            ELSE BarAccess("write", "window", WindowTarget,
                           [i \in 0 .. cfg.length - 1 |-> pci_cfg_data[i]], cfg.length)

\* process_write, of an access that overlaps the data register: the first
\* bytes of the register, old ones included, are written to the BAR.  Errors
\* are dropped.
ProcessWrite ==
  access' = IF WindowTarget = None THEN None
            ELSE BarAccess("write", "window", WindowTarget,
                           [i \in 0 .. cfg.length - 1 |-> pci_cfg_data'[i]], cfg.length)

\* write_config, of anything but the fields of the window and the BAR: the
\* configuration space is written first.
WriteConfig(o, size, content) ==
  /\ IF FunctionZero(o) /\ ValidateAccess(o, size)
       THEN /\ pci_cfg_data' = [i \in 0 .. 3 |-> IF i \in Covered(o, size)
                                                  THEN content ELSE pci_cfg_data[i]]
            /\ IF RangeOverlaps(o, size, DataOffset, 4)
                 THEN ProcessWrite ELSE access' = None
            /\ last' = [op |-> "writeConfig", reply |-> None]
       ELSE /\ access' = None /\ last' = [op |-> "refused", reply |-> None]
            /\ UNCHANGED pci_cfg_data
  /\ UNCHANGED <<reg, space, cfg, isr>>

\* The driver selects what the window leads to.
Select(s) ==
  /\ cfg' = s
  /\ access' = None /\ last' = [op |-> "select", reply |-> None]
  /\ UNCHANGED <<reg, space, pci_cfg_data, isr>>

-----------------------------------------------------------------------------
\* The guest programs the BAR and enables memory space (see PciBars).
WriteBar(v) ==
  /\ reg' = [reg EXCEPT ![0] = B!Write(0, v)]
  /\ access' = None /\ last' = [op |-> "program", reply |-> None]
  /\ UNCHANGED <<space, cfg, pci_cfg_data, isr>>

WriteCommand(s) ==
  /\ space' = s \cap {"mem"}
  /\ access' = None /\ last' = [op |-> "program", reply |-> None]
  /\ UNCHANGED <<reg, cfg, pci_cfg_data, isr>>

RaiseAgain(bit) ==
  /\ isr' = isr + bit
  /\ access' = None /\ last' = [op |-> "raise", reply |-> None]
  /\ UNCHANGED <<reg, space, cfg, pci_cfg_data>>

\* VirtioInterruptStatus: the device sets a bit (1 for a used buffer, 2 for a
\* configuration change).
Raise(bit) ==
  /\ (isr \div bit) % 2 = 0
  /\ isr' = isr + bit
  /\ access' = None /\ last' = [op |-> "raise", reply |-> None]
  /\ UNCHANGED <<reg, space, cfg, pci_cfg_data>>

\* The capability starts out with all fields 0 and the data register all ones.
WindowInit ==
  /\ reg = [r \in Regs |-> 0] /\ space = {}
  /\ cfg = [bar |-> 0, offset |-> 0, length |-> 0]
  /\ pci_cfg_data = Invalid
  /\ isr = 0
  /\ access = None /\ last = [op |-> "new", reply |-> None]

WindowNext ==
  \/ \E address \in Addresses, size \in Sizes, content \in Contents :
       ReadMmio(address, size, content) \/ WriteMmio(address, size, content)
  \/ \E o \in ConfigOffsets, size \in Sizes, content \in Contents :
       ReadConfig(o, size, content) \/ WriteConfig(o, size, content)
  \/ \E s \in Selections : Select(s)
  \/ \E v \in BarValues : WriteBar(v)
  \/ \E s \in SUBSET {"io", "mem"} : WriteCommand(s)
  \/ \E bit \in {1, 2} : Raise(bit)

WindowSpec == WindowInit /\ [][WindowNext]_windowVars

-----------------------------------------------------------------------------
\* The registers of the window keep their types.
WindowTypeOK ==
  /\ reg \in [Regs -> 0 .. Dword - 1] /\ space \subseteq {"mem"}
  /\ cfg \in [bar : Nat, offset : Nat, length : Nat]
  /\ DOMAIN pci_cfg_data = 0 .. 3
  /\ isr \in 0 .. 3

\* The bytes of an access and those of an advertised structure.
BytesOf(offset, size) == offset .. offset + size - 1

\* An access that lies in a structure a capability advertises is handled by
\* that structure, whatever the order in which the regions are asked, and an
\* access that is handled touches no other structure: one that spans two, or
\* a structure and a gap, changes nothing.
ReachesAdvertised ==
  access # None =>
    \A c \in Advertised : c.bar = access.bar =>
      /\ BytesOf(access.offset, access.size) \subseteq BytesOf(c.offset, c.length)
           => access.region = c.type
      /\ access.region \notin {"none", c.type} =>
           BytesOf(access.offset, access.size) \cap BytesOf(c.offset, c.length) = {}

\* The window makes the access the driver selected and no other: to the BAR it
\* selected, wherever the guest moved that BAR in the meantime, at the offset
\* and with the length it selected, and for no longer than the BAR is decoded.
\* The bytes are those of the data register.
WindowIsSelected ==
  access # None /\ access.via = "window" =>
    /\ access.bar = cfg.bar /\ access.offset = cfg.offset /\ access.size = cfg.length
    /\ "mem" \in space
    /\ access.op = "write" =>
         \A i \in 0 .. cfg.length - 1 : access.bytes[i] = pci_cfg_data[i]

\* A read of the data register is answered with what the BAR holds now, or
\* with all ones: never with what an earlier read or write of the window left
\* there, whatever the driver selected and whatever failed.
FreshOrOnes ==
  last.op = "readConfig" /\ last.reply # None =>
    \A i \in DOMAIN last.reply :
      \/ last.reply[i] = AllOnes
      \/ access # None /\ i < access.size /\ last.reply[i] = access.bytes[i]

\* The ISR status is not lost on the way to the driver: it is cleared only by a
\* read that asks for it, of the byte itself or of the window's data register,
\* and the reply carries it.  Except when the driver reads the data register
\* from its second byte on, or with an access configuration space refuses:
\* read_config makes the access to the BAR before it looks.
IsrDelivered ==
  [][isr # 0 /\ isr' = 0 =>
       LET reply == last'.reply IN
       \/ last'.op = "readMmio" /\ reply # None /\ reply[0] = isr
       \/ /\ last'.op = "readConfig"
          /\ reply # None =>
               DOMAIN reply # {} /\ (0 \in DOMAIN reply => reply[0] = isr)]_windowVars

=============================================================================
