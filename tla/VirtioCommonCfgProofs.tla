----------------------- MODULE VirtioCommonCfgProofs -----------------------
(***************************************************************************)
(* VirtioCommonCfg implements QueueRegs for a driver that selects a queue  *)
(* or a feature page anew after an access that reached over the select     *)
(* register, for any number of queues, any register values and any width   *)
(* of the writes.                                                          *)
(***************************************************************************)
EXTENDS VirtioCommonCfg, TLAPS

\* The shadow's select registers agree with the device from the driver's
\* selection to the next access that reaches over them.
ShadowInv ==
  /\ DOMAIN shadow = Kept
  /\ selected \subseteq {"DrvFeatureSel", "QueueSel"}
  /\ "DrvFeatureSel" \in selected => shadow["DrvFeatureSel"] = page
  /\ "QueueSel" \in selected => shadow["QueueSel"] = queueSelect

-----------------------------------------------------------------------------
\* The shadow after a write of v at an offset: the register it starts on takes
\* v, a register it reaches over anything, the others keep theirs, and so do
\* all when the write would leave the block.
LEMMA ShadowAfter ==
  ASSUME NEW offset \in Nat, NEW v, DOMAIN shadow = Kept, WriteShadow(offset, v)
  PROVE  /\ DOMAIN shadow' = Kept
         /\ \A r \in Kept : offset # Offset[r] /\ ~ReachesOver(offset, r) =>
                             shadow'[r] = shadow[r]
         /\ \A r \in Kept : offset = Offset[r] /\ offset + 8 <= 64 => shadow'[r] = v
  <1>1. PICK w \in {0} \cup Wide : shadow' = WriteRegisters(offset, v, w)
    BY DEF WriteShadow
  <1>2. CASE offset + 8 > 64
    BY <1>1, <1>2 DEF WriteRegisters, WriteSize, BlockSize
  <1>3. CASE offset + 8 <= 64
    <2>1. shadow' = [r \in Kept |-> CASE offset = Offset[r] -> v
                                     [] ReachesOver(offset, r) -> w
                                     [] OTHER -> shadow[r]]
      BY <1>1, <1>3 DEF WriteRegisters, WriteSize, BlockSize
    <2>2. ASSUME NEW r \in Kept, offset = Offset[r]
          PROVE  ~ReachesOver(offset, r)
      BY <2>2 DEF ReachesOver
    <2>3. QED
      BY <1>3, <2>1, <2>2
  <1>4. QED
    BY <1>2, <1>3

\* The registers of a queue lie behind the select registers: a write to one
\* leaves both as they were.
LEMMA QueueWriteKeepsShadow ==
  ASSUME NEW offset \in Nat, NEW v, offset > 22,
         DOMAIN shadow = Kept, WriteShadow(offset, v)
  PROVE  /\ DOMAIN shadow' = Kept
         /\ shadow'["DrvFeatureSel"] = shadow["DrvFeatureSel"]
         /\ shadow'["QueueSel"] = shadow["QueueSel"]
  <1>1. /\ offset # Offset["DrvFeatureSel"] /\ ~ReachesOver(offset, "DrvFeatureSel")
        /\ offset # Offset["QueueSel"] /\ ~ReachesOver(offset, "QueueSel")
    BY DEF Offset, ReachesOver, WriteSize
  <1>2. QED
    BY <1>1, ShadowAfter DEF Kept

\* A write to a queue register keeps the shadow in step and reaches the
\* selected queue alone (with_queue_mut).
LEMMA WriteQueueStep ==
  ASSUME Disciplined, ShadowInv,
         NEW offset \in Nat, offset > 22, NEW v, NEW changed,
         WriteQueue(offset, v, changed)
  PROVE  ShadowInv' /\ Device!WriteSelected
  <1>1. shadow["QueueSel"] = queueSelect
    BY DEF WriteQueue, MayWriteQueue, ShadowInv
  <1>2. ShadowInv'
    BY QueueWriteKeepsShadow DEF WriteQueue, ShadowInv
  <1>3. \A q \in Queues : queues'[q] # queues[q] => q = queueSelect
    BY <1>1 DEF WriteQueue, WithQueueMut
  <1>4. QED
    BY <1>2, <1>3 DEF WriteQueue, Device!WriteSelected

\* Every step keeps the shadow in step with the device and is a step of
\* QueueRegs.
LEMMA CfgStep ==
  ASSUME Disciplined, ShadowInv, [CfgNext]_cfgVars
  PROVE  ShadowInv' /\ [Device!QueueRegsNext]_(Device!queueRegsVars)
  <1>1. ASSUME NEW q \in 0 .. NumQueues, WriteQueueSelect(q)
        PROVE  ShadowInv' /\ Device!SelectQueue
    <2>1. Offset.QueueSel = 22 /\ Offset["QueueSel"] = 22 /\ Offset["DrvFeatureSel"] = 8
      BY DEF Offset
    <2>2. ~ReachesOver(22, "DrvFeatureSel")
      BY <2>1 DEF ReachesOver
    <2>3. DOMAIN shadow = Kept /\ WriteShadow(22, q)
      BY <1>1, <2>1 DEF WriteQueueSelect, ShadowInv
    <2>4. DOMAIN shadow' = Kept
      BY <2>3, ShadowAfter
    <2>5. shadow'["DrvFeatureSel"] = shadow["DrvFeatureSel"] /\ shadow'["QueueSel"] = q
      BY <2>1, <2>2, <2>3, ShadowAfter DEF Kept
    <2>6. QED
      BY <1>1, <2>4, <2>5 DEF WriteQueueSelect, ShadowInv, Device!SelectQueue
  <1>2. CASE ReadQueueSelect
    <2>1. shadow'["DrvFeatureSel"] = shadow["DrvFeatureSel"]
      BY <1>2 DEF ReadQueueSelect
    <2>2. DOMAIN shadow' = Kept /\ shadow'["QueueSel"] = queueSelect
      BY <1>2 DEF ReadQueueSelect, ShadowInv, Kept
    <2>3. QED
      BY <1>2, <2>1, <2>2 DEF ReadQueueSelect, ShadowInv, Device!queueRegsVars
  <1>3. ASSUME NEW v \in Values,
               WriteQueueSize(v) \/ WriteQueueEnable(v)
        PROVE  ShadowInv' /\ Device!WriteSelected
    <2>1. Offset.QueueSize = 24 /\ Offset.QueueEnable = 28
      BY DEF Offset
    <2>2. CASE WriteQueueSize(v)
      <3> DEFINE changed == [q \in Queues |-> [queues[q] EXCEPT !.size = v]]
      <3>1. WriteQueue(24, v, changed)
        BY <2>1, <2>2, Zenon DEF WriteQueueSize
      <3> HIDE DEF changed
      <3>2. QED
        BY <3>1, WriteQueueStep
    <2>3. CASE WriteQueueEnable(v)
      <3> DEFINE changed == [q \in Queues |-> [queues[q] EXCEPT !.ready = (queues[q].ready \/ v = 1)]]
      <3>1. WriteQueue(28, v, changed)
        BY <2>1, <2>3, Zenon DEF WriteQueueEnable
      <3> HIDE DEF changed
      <3>2. QED
        BY <3>1, WriteQueueStep
    <2>4. QED
      BY <1>3, <2>2, <2>3
  <1>4. ASSUME NEW v \in Values, WriteQueueMsixVector(v)
        PROVE  ShadowInv' /\ Device!WriteSelected
    <2>1. Offset.QueueMsixVector = 26
      BY DEF Offset
    <2>2. ShadowInv'
      BY <1>4, <2>1, QueueWriteKeepsShadow DEF WriteQueueMsixVector, ShadowInv
    <2>3. QED
      BY <1>4, <2>2 DEF WriteQueueMsixVector, Device!WriteSelected
  <1>5. ASSUME NEW r \in Rings, NEW lo \in Values, NEW hi \in Values,
               \/ WriteAddress(r, lo, hi)
               \/ WriteAddressLow(r, lo)
               \/ WriteAddressHigh(r, lo)
        PROVE  ShadowInv' /\ Device!WriteSelected
    <2>1. /\ RingOffset[r] \in Nat /\ RingOffset[r] > 22
          /\ RingOffset[r] + 4 \in Nat /\ RingOffset[r] + 4 > 22
      BY RingsAssumption DEF RingOffset
    <2>2. QED
      BY <1>5, <2>1, WriteQueueStep DEF WriteAddress, WriteAddressLow, WriteAddressHigh
  <1>6. ASSUME NEW r \in OtherRegisters, WriteOtherRegister(r)
        PROVE  ShadowInv' /\ UNCHANGED Device!queueRegsVars
    <2>1. /\ Offset[r] \in Nat
          /\ Offset[r] # Offset["DrvFeatureSel"] /\ Offset[r] # Offset["QueueSel"]
      BY DEF OtherRegisters, Offset
    <2>2. DOMAIN shadow = Kept /\ WriteShadow(Offset[r], 0)
      BY <1>6 DEF WriteOtherRegister, ShadowInv
    <2>3. DOMAIN shadow' = Kept
      BY <2>1, <2>2, ShadowAfter
    <2>4. \A s \in {"DrvFeatureSel", "QueueSel"} :
            ~ReachesOver(Offset[r], s) => shadow'[s] = shadow[s]
      BY <2>1, <2>2, ShadowAfter DEF Kept
    <2>5. selected' = {s \in selected : ~ReachesOver(Offset[r], s)}
      BY <1>6 DEF WriteOtherRegister
    <2>6. UNCHANGED <<queueSelect, queues, page, features>>
      BY <1>6 DEF WriteOtherRegister
    <2>7. ShadowInv'
      BY <2>3, <2>4, <2>5, <2>6 DEF ShadowInv
    <2>8. QED
      BY <2>6, <2>7 DEF Device!queueRegsVars
  <1>7. ASSUME NEW p \in 0 .. 2, WriteDriverFeatureSelect(p)
        PROVE  ShadowInv' /\ Device!SelectPage
    <2>1. /\ Offset.DrvFeatureSel = 8 /\ Offset["DrvFeatureSel"] = 8 /\ Offset["QueueSel"] = 22
      BY DEF Offset
    <2>2. ~ReachesOver(8, "QueueSel")
      BY <2>1 DEF ReachesOver, WriteSize
    <2>3. DOMAIN shadow = Kept /\ WriteShadow(8, p)
      BY <1>7, <2>1 DEF WriteDriverFeatureSelect, ShadowInv
    <2>4. DOMAIN shadow' = Kept
      BY <2>3, ShadowAfter
    <2>5. shadow'["QueueSel"] = shadow["QueueSel"] /\ shadow'["DrvFeatureSel"] = p
      BY <2>1, <2>2, <2>3, ShadowAfter DEF Kept
    <2>6. QED
      BY <1>7, <2>4, <2>5 DEF WriteDriverFeatureSelect, ShadowInv, Device!SelectPage
  <1>8. ASSUME NEW v \in Values, WriteDriverFeature(v)
        PROVE  ShadowInv' /\ Device!WriteFeatures
    <2>1. Offset.DrvFeature = 12 /\ Offset["DrvFeatureSel"] = 8 /\ Offset["QueueSel"] = 22
      BY DEF Offset
    <2>2. ~ReachesOver(12, "QueueSel") /\ ~ReachesOver(12, "DrvFeatureSel")
      BY <2>1 DEF ReachesOver, WriteSize
    <2>3. DOMAIN shadow = Kept /\ WriteShadow(12, v)
      BY <1>8, <2>1 DEF WriteDriverFeature, ShadowInv
    <2>4. DOMAIN shadow' = Kept
      BY <2>3, ShadowAfter
    <2>5. /\ shadow'["QueueSel"] = shadow["QueueSel"]
          /\ shadow'["DrvFeatureSel"] = shadow["DrvFeatureSel"]
      BY <2>1, <2>2, <2>3, ShadowAfter DEF Kept
    <2>6. ShadowInv'
      BY <1>8, <2>4, <2>5 DEF WriteDriverFeature, ShadowInv
    <2>7. \A p \in Pages : features'[p] # features[p] => p = page
      BY <1>8 DEF WriteDriverFeature, ShadowInv
    <2>8. QED
      BY <1>8, <2>6, <2>7 DEF WriteDriverFeature, Device!WriteFeatures
  <1>9. ASSUME WriteQueueReset
        PROVE  ShadowInv' /\ Device!WriteSelected
    <2>1. shadow["QueueSel"] = queueSelect
      BY <1>9 DEF WriteQueueReset, MayWriteQueue, ShadowInv
    <2>2. /\ DOMAIN shadow' = Kept
          /\ shadow'["QueueSel"] = shadow["QueueSel"]
          /\ shadow'["DrvFeatureSel"] = shadow["DrvFeatureSel"]
      BY <1>9 DEF WriteQueueReset, ShadowInv, Kept
    <2>3. \A q \in Queues : queues'[q] # queues[q] => q = queueSelect
      BY <1>9, <2>1 DEF WriteQueueReset, WithQueueMut
    <2>4. /\ queueSelect' = queueSelect /\ page' = page
          /\ features' = features /\ selected' = selected
      BY <1>9 DEF WriteQueueReset
    <2>5. ShadowInv'
      BY <2>2, <2>4 DEF ShadowInv
    <2>6. Device!WriteSelected
      BY <2>3, <2>4 DEF Device!WriteSelected
    <2>7. QED
      BY <2>5, <2>6
  <1>10. ASSUME NEW r \in Kept, AccessNoRegister(r)
        PROVE  ShadowInv' /\ UNCHANGED Device!queueRegsVars
    <2>1. /\ DOMAIN shadow' = Kept
          /\ \A s \in Kept : s # r => shadow'[s] = shadow[s]
      BY <1>10 DEF AccessNoRegister, ShadowInv
    <2>2. selected' = selected \ {r} /\ UNCHANGED <<queueSelect, queues, page, features>>
      BY <1>10 DEF AccessNoRegister
    <2>3. ShadowInv'
      BY <2>1, <2>2 DEF ShadowInv, Kept
    <2>4. QED
      BY <2>2, <2>3 DEF Device!queueRegsVars
  <1>11. CASE UNCHANGED cfgVars
    BY <1>11 DEF cfgVars, ShadowInv, Device!queueRegsVars
  <1>12. \E v \in Values : TRUE
    BY ValuesAssumption
  <1>13. QED
    BY <1>1, <1>2, <1>3, <1>4, <1>5, <1>6, <1>7, <1>8, <1>9, <1>10, <1>11, <1>12
    DEF CfgNext, Device!QueueRegsNext

\* For a driver that selects a queue or a feature page anew after an access
\* that reached over the select register, the common configuration structure
\* is a bank of registers per queue: a write or a reset reaches the selected
\* queue and feature page and no other, although reads and writes find the
\* queue in two different places, and whatever a wide write leaves behind its
\* register (write_registers, set_config_data_invalid, with_queue_mut,
\* set_queue_msix_vector).
THEOREM QueueRegsRefined == Disciplined => (CfgSpec => RefinesQueueRegs)
  <1> SUFFICES ASSUME Disciplined
               PROVE  CfgSpec => RefinesQueueRegs
    OBVIOUS
  <1>1. CfgInit => ShadowInv
    BY DEF CfgInit, ShadowInv, Kept
  <1>2. ShadowInv /\ [CfgNext]_cfgVars =>
          ShadowInv' /\ [Device!QueueRegsNext]_(Device!queueRegsVars)
    BY CfgStep
  <1>3. QED
    BY <1>1, <1>2, PTL DEF CfgSpec, RefinesQueueRegs, Device!QueueRegsSpec

=============================================================================
