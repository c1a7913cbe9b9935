-------------------------- MODULE VirtioCommonCfg --------------------------
(***************************************************************************)
(* The virtio common configuration structure                               *)
(* (greens-pci-virtio/src/pci_common_cfg.rs).                              *)
(*                                                                         *)
(* A write first goes to a shadow register block, always as 8 bytes, padded *)
(* with zeros, and is then processed by the register at its offset from    *)
(* the shadow.  Three shadow registers outlive the write that set them:    *)
(* the queue select, from which later writes take the queue they go to     *)
(* (reads and the MSI-X vector take the device's own queue_select), the    *)
(* driver feature select, and the queue reset, which lies so close to the  *)
(* end of the block that a write to it is lost, but not one before it.     *)
(***************************************************************************)
EXTENDS Naturals

CONSTANTS
  NumQueues,    \* virtqueues of the device
  Rings,        \* the parts of a queue with a 64-bit address
  Values,       \* values of a queue register or of half an address
  Wide,         \* what a write may put beyond the register it starts on;
                \* {} for a driver that uses every register's own width
  Disciplined   \* the driver selects a queue or a feature page anew after an
                \* access that reached over the select register

ASSUME NumQueuesAssumption == NumQueues \in Nat \ {0}
ASSUME RingsAssumption == Rings \subseteq {"desc", "driver", "device"}
ASSUME ValuesAssumption == {0, 1} \subseteq Values
ASSUME WideAssumption == Wide \subseteq Nat
ASSUME DisciplinedAssumption == Disciplined \in BOOLEAN

VARIABLES
  shadow,       \* the shadow registers that outlive a write
  queueSelect,  \* the device's queue_select
  queues,       \* the registers of the device's queues
  page,         \* the feature page the driver selected
  features,     \* the driver's features, by page
  selected      \* history: the select registers no access reached over since
                \* the driver wrote them

cfgVars == <<shadow, queueSelect, queues, page, features, selected>>

Queues == 0 .. NumQueues - 1
Pages == 0 .. 1

Device == INSTANCE QueueRegs WITH select <- queueSelect, regs <- queues

-----------------------------------------------------------------------------
(***************************************************************************)
(* The register block.                                                     *)
(***************************************************************************)
BlockSize == 64
WriteSize == 8

Offset ==
  [DevFeature |-> 4, DrvFeatureSel |-> 8, DrvFeature |-> 12, CfgMsixVector |-> 16,
   NumQueues |-> 18, DevStatus |-> 20, CfgGeneration |-> 21, QueueSel |-> 22,
   QueueSize |-> 24, QueueMsixVector |-> 26, QueueEnable |-> 28,
   QueueNotifyCfgData |-> 56, QueueReset |-> 58]

RingOffset == [desc |-> 32, driver |-> 40, device |-> 48]

Kept == {"DrvFeatureSel", "QueueSel", "QueueReset"}

\* The 8 bytes of a write at an offset reach over the register r behind it.
ReachesOver(offset, r) == offset < Offset[r] /\ Offset[r] < offset + WriteSize

\* write_registers of v at an offset, w beyond the register there: the shadow
\* after it.  The error of a write that leaves the block is swallowed.
WriteRegisters(offset, v, w) ==
  IF offset + WriteSize > BlockSize THEN shadow
  ELSE [r \in Kept |-> CASE offset = Offset[r] -> v
                        [] ReachesOver(offset, r) -> w
                        [] OTHER -> shadow[r]]

\* A write has the width of its register, and is padded with zeros, or is
\* wider.
WriteShadow(offset, v) ==
  shadow' \in {WriteRegisters(offset, v, w) : w \in {0} \cup Wide}

-----------------------------------------------------------------------------
EmptyQueue ==
  [size |-> 0, vector |-> 0, ready |-> FALSE,
   low |-> [r \in Rings |-> 0], high |-> [r \in Rings |-> 0]]

CfgInit ==
  /\ shadow = [r \in Kept |-> 0]
  /\ queueSelect = 0
  /\ queues = [q \in Queues |-> EmptyQueue]
  /\ page = 0
  /\ features = [p \in Pages |-> 0]
  /\ selected = {"DrvFeatureSel", "QueueSel"}

\* with_queue_mut: the queue a write goes to is the shadow's, and there may be
\* no such queue; changed is what each queue would become.
WithQueueMut(changed) ==
  queues' = [q \in Queues |->
               IF q = shadow["QueueSel"] THEN changed[q] ELSE queues[q]]

MayWriteQueue == Disciplined => "QueueSel" \in selected

\* A write of v at offset to a register of the selected queue.
WriteQueue(offset, v, changed) ==
  /\ MayWriteQueue
  /\ WriteShadow(offset, v)
  /\ WithQueueMut(changed)
  /\ UNCHANGED <<queueSelect, page, features, selected>>

WriteQueueSelectShadowOnly(q) ==
  /\ WriteShadow(Offset.QueueSel, q)
  /\ selected' = selected \cup {"QueueSel"}
  /\ UNCHANGED <<queueSelect, queues, page, features>>

WriteQueueSelect(q) ==
  /\ WriteShadow(Offset.QueueSel, q)
  /\ queueSelect' = q
  /\ selected' = selected \cup {"QueueSel"}
  /\ UNCHANGED <<queues, page, features>>

\* A read refreshes the shadow from the device.
ReadQueueSelect ==
  /\ shadow' = [shadow EXCEPT !["QueueSel"] = queueSelect]
  /\ UNCHANGED <<queueSelect, queues, page, features, selected>>

WriteQueueSize(v) ==
  WriteQueue(Offset.QueueSize, v, [q \in Queues |-> [queues[q] EXCEPT !.size = v]])

WriteQueueEnable(v) ==
  WriteQueue(Offset.QueueEnable, v,
             [q \in Queues |-> [queues[q] EXCEPT !.ready = (queues[q].ready \/ v = 1)]])

\* set_queue_msix_vector: the device uses its own queue_select.
WriteQueueMsixVector(v) ==
  /\ MayWriteQueue
  /\ WriteShadow(Offset.QueueMsixVector, v)
  /\ queues' = [q \in Queues |->
                  IF q = queueSelect THEN [queues[q] EXCEPT !.vector = v]
                                     ELSE queues[q]]
  /\ UNCHANGED <<queueSelect, page, features, selected>>

\* An address arrives as a qword, or as its low and its high dword: a dword
\* write leaves the other half alone (address_parts).
WriteAddress(r, lo, hi) ==
  WriteQueue(RingOffset[r], lo,
             [q \in Queues |-> [queues[q] EXCEPT !.low[r] = lo, !.high[r] = hi]])

WriteAddressLow(r, v) ==
  WriteQueue(RingOffset[r], v, [q \in Queues |-> [queues[q] EXCEPT !.low[r] = v]])

WriteAddressHigh(r, v) ==
  WriteQueue(RingOffset[r] + 4, v, [q \in Queues |-> [queues[q] EXCEPT !.high[r] = v]])

\* Queue::reset (virtio library): as new, but for the MSI-X vector, which is
\* the device's.
QueueAsNew(q) == [EmptyQueue EXCEPT !.vector = queues[q].vector]

\* The write itself leaves the register block and is lost.  What it finds in
\* QueueReset a wide write to the register before it left there: 1 resets the
\* queue and is cleared.
WriteQueueReset ==
  LET reset == shadow["QueueReset"] = 1 IN
  /\ MayWriteQueue
  /\ shadow' = IF reset THEN [shadow EXCEPT !["QueueReset"] = 0] ELSE shadow
  /\ WithQueueMut([q \in Queues |->
                     IF reset THEN QueueAsNew(q) ELSE queues[q]])
  /\ UNCHANGED <<queueSelect, page, features, selected>>

\* Registers whose write leaves the queues and the driver's features alone and
\* reaches over a kept register: some of the whole device, and read-only ones.
\* (The rest reach over none.  What a status write does is the virtio
\* library's.)
OtherRegisters ==
  {"DevFeature", "CfgMsixVector", "NumQueues", "DevStatus", "CfgGeneration",
   "QueueNotifyCfgData"}

WriteOtherRegister(r) ==
  /\ WriteShadow(Offset[r], 0)
  /\ selected' = {s \in selected : ~ReachesOver(Offset[r], s)}
  /\ UNCHANGED <<queueSelect, queues, page, features>>

\* A read or a write at the offset of no register that reaches over a kept one
\* clears it (set_config_data_invalid).
AccessNoRegister(r) ==
  /\ shadow' = [shadow EXCEPT ![r] = 0]
  /\ selected' = selected \ {r}
  /\ UNCHANGED <<queueSelect, queues, page, features>>

WriteDriverFeatureSelect(p) ==
  /\ WriteShadow(Offset.DrvFeatureSel, p)
  /\ page' = p
  /\ selected' = selected \cup {"DrvFeatureSel"}
  /\ UNCHANGED <<queueSelect, queues, features>>

WriteDriverFeature(v) ==
  /\ Disciplined => "DrvFeatureSel" \in selected
  /\ WriteShadow(Offset.DrvFeature, v)
  /\ features' = [p \in Pages |-> IF p = shadow["DrvFeatureSel"] THEN v
                                                                 ELSE features[p]]
  /\ UNCHANGED <<queueSelect, queues, page, selected>>

CfgNext ==
  \/ \E q \in 0 .. NumQueues : WriteQueueSelect(q)
  \/ ReadQueueSelect
  \/ \E v \in Values : WriteQueueSize(v) \/ WriteQueueEnable(v) \/ WriteQueueMsixVector(v)
  \/ \E r \in Rings, lo, hi \in Values : WriteAddress(r, lo, hi)
  \/ \E r \in Rings, v \in Values : WriteAddressLow(r, v) \/ WriteAddressHigh(r, v)
  \/ WriteQueueReset
  \/ \E r \in OtherRegisters : WriteOtherRegister(r)
  \/ \E p \in 0 .. 2 : WriteDriverFeatureSelect(p)
  \/ \E v \in Values : WriteDriverFeature(v)
  \/ \E r \in Kept : AccessNoRegister(r)

CfgSpec == CfgInit /\ [][CfgNext]_cfgVars

-----------------------------------------------------------------------------
\* For a driver that selects a queue and a feature page anew after an access
\* that reached over the select register, the structure behaves like banked
\* registers: a write to a queue register or a reset reaches the selected
\* queue and no other, although there are two copies of the select and every
\* write spills zeros, or more, over the shadow registers behind it.
RefinesQueueRegs == Device!QueueRegsSpec

\* The select registers are among those "affecting a specific virtqueue", the
\* status and the configuration vector among those "affecting the whole
\* device": the queue that writes go to is the one the driver selected.
SelectAgrees == shadow["QueueSel"] = queueSelect

=============================================================================
