--------------------------- MODULE VirtioIrqProofs ---------------------------
(***************************************************************************)
(* Proofs about the interrupts of a virtio PCI function: MSI-X and INTx    *)
(* each by itself, then the function that has both and switches between    *)
(* them.  For every table size, every pending bit array, every set of      *)
(* dword values, every set of interrupt lines and every line               *)
(* configuration.                                                          *)
(***************************************************************************)
EXTENDS VirtioIrq, TLAPS

(***************************************************************************)
(* MSI-X: types.                                                           *)
(***************************************************************************)

\* The number of pending bits is a natural number.
LEMMA BitCount == NumPba * PbaWidth \in Nat
  BY NumPbaAssumption, PbaWidthAssumption

\* The pending bits try_generate_message leaves are bits of vectors of the
\* table: only a masked vector sets one, and only a vector of the table is
\* masked.
LEMMA PendingBitsType ==
  ASSUME TypeOK, NEW v
  PROVE  SetPendingBit(v, Generation(v)) \subseteq Vectors \cap PbaBits
  <1>1. Generation(v) = "Masked" => v \in Vectors /\ v \in PbaBits
    BY DEF Generation, IsMasked
  <1>2. CASE Generation(v) = "Masked"
    BY <1>1, <1>2 DEF SetPendingBit, TypeOK
  <1>3. CASE Generation(v) # "Masked"
    BY <1>3 DEF SetPendingBit, TypeOK
  <1>4. QED
    BY <1>2, <1>3

\* A message is generated for a vector of the table only.
LEMMA GeneratedVector ==
  ASSUME NEW v, Generation(v) = "Generated"
  PROVE  v \in Vectors /\ v \in PbaBits
  BY DEF Generation

\* The registers, the table and the pending bits keep their types, and no bit
\* is pending for a vector outside the table (msix.rs, all operations).
THEOREM TypeCorrect == Spec => []TypeOK
  <1>1. ASSUME Init PROVE TypeOK
    <2>1. table \in [TableIndex -> Dwords]
      BY <1>1, DwordsAssumption DEF Init, DefaultTable
    <2>2. start \in 0 .. NumPba * PbaWidth
      BY <1>1, BitCount DEF Init
    <2>3. sent \in Latch!Sends
      BY <1>1 DEF Init, Latch!NoSend, Latch!Sends
    <2>4. QED
      BY <1>1, <2>1, <2>2, <2>3 DEF Init, TypeOK
  <1>2. ASSUME TypeOK, [Next]_vars
        PROVE  TypeOK'
    <2> USE <1>2
    <2>1. ASSUME NEW v \in Signals, Signal(v)
          PROVE  TypeOK'
      <3>1. pba' \subseteq Vectors \cap PbaBits
        BY <2>1, PendingBitsType DEF Signal, TryGenerateMessage
      <3>2. sent' \in Latch!Sends
        BY <2>1, GeneratedVector
        DEF Signal, TryGenerateMessage, Latch!Sends, Latch!NoSend
      <3>3. stranded' \subseteq Vectors
        BY <2>1 DEF Signal, TryGenerateMessage, TypeOK
      <3>4. QED
        BY <2>1, <3>1, <3>2, <3>3 DEF Signal, TypeOK
    <2>2. ASSUME NEW bm \in BOOLEAN, WriteCommand(bm)
          PROVE  TypeOK'
      BY <2>2 DEF WriteCommand, TypeOK, Latch!NoSend, Latch!Sends
    <2>3. ASSUME NEW en \in BOOLEAN, NEW fm \in BOOLEAN, WriteControl(en, fm)
          PROVE  TypeOK'
      BY <2>3, BitCount DEF WriteControl, TypeOK, Latch!NoSend, Latch!Sends
    <2>4. ASSUME NEW i \in 0 .. 4 * NumVectors, NEW n \in 1 .. 2,
                 NEW vals \in [0 .. n - 1 -> Dwords], WriteTable(i, n, vals)
          PROVE  TypeOK'
      <3>1. CASE Covers(i, n) \subseteq TableIndex
        <4> DEFINE t == [j \in TableIndex |->
                           IF j \in Covers(i, n) THEN vals[j - i] ELSE table[j]]
        <4>1. t \in [TableIndex -> Dwords]
          BY DEF TypeOK, Covers, TableIndex
        <4>2. i \in TableIndex /\ VectorOf(i) \in Vectors
          BY <3>1, NumVectorsAssumption DEF Covers, TableIndex, VectorOf, Vectors
        <4>3. 4 * VectorOf(i) + 2 \in TableIndex
          BY <4>2, NumVectorsAssumption DEF Vectors, TableIndex
        <4>4. Report(i, n, t) \in [Vectors -> Dwords \cup {Unset}]
          BY <4>1, <4>2, <4>3 DEF Report, TypeOK
        <4>5. TargetsVectorControl(i, n) \in BOOLEAN
          BY DEF TargetsVectorControl
        <4> HIDE DEF t
        <4>6. QED
          BY <2>4, <3>1, <4>1, <4>4, <4>5, BitCount
          DEF WriteTable, TypeOK, t, Latch!NoSend, Latch!Sends
      <3>2. CASE ~(Covers(i, n) \subseteq TableIndex)
        BY <2>4, <3>2 DEF WriteTable, TypeOK, Latch!NoSend, Latch!Sends
      <3>3. QED
        BY <3>1, <3>2
    <2>5. CASE EvaluateDone
      <3>1. start' \in 0 .. NumPba * PbaWidth
        BY <2>5, BitCount DEF EvaluateDone
      <3>2. sent' \in Latch!Sends
        BY <2>5 DEF EvaluateDone, Latch!NoSend, Latch!Sends
      <3>3. QED
        BY <2>5, <3>1, <3>2 DEF EvaluateDone, TypeOK
    <2>6. ASSUME NEW v \in PbaBits, EvaluateNext(v)
          PROVE  TypeOK'
      <3>1. pba' \subseteq Vectors \cap PbaBits
        BY <2>6, PendingBitsType DEF EvaluateNext, TryGenerateMessage
      <3>2. sent' \in Latch!Sends
        BY <2>6, GeneratedVector
        DEF EvaluateNext, TryGenerateMessage, Latch!Sends, Latch!NoSend
      <3>3. v \in Vectors
        BY <2>6 DEF EvaluateNext, FindPendingVector, IsLeast, FindCandidates, TypeOK
      <3>4. stranded' \subseteq Vectors
        BY <2>6, <3>3 DEF EvaluateNext, TryGenerateMessage, TypeOK
      <3>5. v + 1 \in 0 .. NumPba * PbaWidth
        BY BitCount DEF PbaBits
      <3>6. QED
        BY <2>6, <3>1, <3>2, <3>4, <3>5 DEF EvaluateNext, TypeOK
    <2>7. CASE UNCHANGED vars
      BY <2>7 DEF vars, TypeOK
    <2>8. QED
      BY <2>1, <2>2, <2>3, <2>4, <2>5, <2>6, <2>7 DEF Next
  <1>3. QED
    BY <1>1, <1>2, PTL DEF Spec

-----------------------------------------------------------------------------
(***************************************************************************)
(* Refinement of MsiLatch.                                                 *)
(***************************************************************************)

\* An attempt to generate a message latches, sends or is quiet.
LEMMA GenerationLatches ==
  ASSUME TypeOK, NEW v, NEW kind \in {"post", "release"},
         kind = "release" => v \in pba,
         TryGenerateMessage(v, kind)
  PROVE  Latch!LatchNext \/ UNCHANGED Latch!latchVars
  <1>1. CASE Generation(v) = "Masked"
    <2>1. v \in Vectors
      BY <1>1 DEF Generation, IsMasked
    <2>2. Latch!Latch(v)
      BY <1>1 DEF TryGenerateMessage, SetPendingBit, Latch!Latch
    <2>3. QED
      BY <2>1, <2>2 DEF Latch!LatchNext
  <1>2. CASE Generation(v) = "Generated"
    <2>1. v \in Vectors
      BY <1>2, GeneratedVector
    <2>2. Latch!Post(v) \/ Latch!Release(v)
      BY <1>2 DEF TryGenerateMessage, SetPendingBit, Latch!Post, Latch!Release
    <2>3. QED
      BY <2>1, <2>2 DEF Latch!LatchNext
  <1>3. CASE Generation(v) = "InvalidMsiXVector"
    <2>1. v \notin pba
      BY <1>3 DEF Generation, TypeOK
    <2>2. Latch!Quiet
      BY <1>3, <2>1 DEF TryGenerateMessage, SetPendingBit, Latch!Quiet
    <2>3. QED
      BY <2>2 DEF Latch!LatchNext
  <1>4. CASE Generation(v) \in {"NotBusMaster", "MsiDisabled"}
    BY <1>4 DEF TryGenerateMessage, SetPendingBit, Latch!Quiet, Latch!LatchNext
  <1>5. Generation(v) \in {"Masked", "Generated", "InvalidMsiXVector",
                           "NotBusMaster", "MsiDisabled"}
    BY DEF Generation
  <1>6. QED
    BY <1>1, <1>2, <1>3, <1>4, <1>5

\* With the pending bits as its latch, MSI-X implements MsiLatch: an interrupt
\* accepted while its vector is masked is never forgotten, never invented and
\* never sent twice (try_generate_message, evaluate_pending_interrupts).
THEOREM LatchRefined == Spec => RefinesLatch
  <1>1. Init => Latch!LatchInit
    BY DEF Init, Latch!LatchInit
  <1>2. ASSUME TypeOK, [Next]_vars
        PROVE  [Latch!LatchNext]_(Latch!latchVars)
    <2> USE <1>2
    <2>1. ASSUME NEW v \in Signals, Signal(v)
          PROVE  Latch!LatchNext \/ UNCHANGED Latch!latchVars
      BY <2>1, GenerationLatches DEF Signal
    <2>2. ASSUME NEW v \in PbaBits, EvaluateNext(v)
          PROVE  Latch!LatchNext \/ UNCHANGED Latch!latchVars
      <3>1. v \in pba
        BY <2>2 DEF EvaluateNext, FindPendingVector, IsLeast, FindCandidates
      <3>2. QED
        BY <2>2, <3>1, GenerationLatches DEF EvaluateNext
    <2>3. ASSUME NEW bm \in BOOLEAN, WriteCommand(bm)
          PROVE  Latch!Quiet
      BY <2>3 DEF WriteCommand, Latch!Quiet
    <2>4. ASSUME NEW en \in BOOLEAN, NEW fm \in BOOLEAN, WriteControl(en, fm)
          PROVE  Latch!Quiet
      BY <2>4 DEF WriteControl, Latch!Quiet
    <2>5. ASSUME NEW i \in 0 .. 4 * NumVectors, NEW n \in 1 .. 2,
                 NEW vals \in [0 .. n - 1 -> Dwords], WriteTable(i, n, vals)
          PROVE  Latch!Quiet
      BY <2>5 DEF WriteTable, Latch!Quiet
    <2>6. CASE EvaluateDone
      BY <2>6 DEF EvaluateDone, Latch!Quiet, Latch!LatchNext
    <2>7. CASE UNCHANGED vars
      BY <2>7 DEF vars, Latch!latchVars
    <2>8. QED
      BY <2>1, <2>2, <2>3, <2>4, <2>5, <2>6, <2>7 DEF Next, Latch!LatchNext
  <1>3. QED
    BY <1>1, <1>2, TypeCorrect, PTL DEF Spec, RefinesLatch, Latch!LatchSpec

-----------------------------------------------------------------------------
(***************************************************************************)
(* The device's copy of the message data.                                  *)
(***************************************************************************)

\* A table write of one or two dwords that changes a vector's data starts in
\* that vector's entry, on its data or just before it, so it is reported.
LEMMA DataWritten ==
  ASSUME NEW i \in Nat, NEW n \in 1 .. 2, NEW v \in Nat,
         4 * v + 2 \in Covers(i, n)
  PROVE  VectorOf(i) = v /\ TargetsMessageInfo(i, n)
  <1>1. i \in {4 * v + 1, 4 * v + 2}
    BY DEF Covers
  <1>2. i \div 4 = v /\ i % 4 < 3
    BY <1>1
  <1>3. QED
    BY <1>2 DEF VectorOf, TargetsMessageInfo

\* What the device was told of a vector's message data is what the table holds,
\* through every sequence of table writes (write_bar, set_msi_message).
THEOREM DeviceDataInvariant == Spec => []DeviceDataCurrent
  <1>1. Init => DeviceDataCurrent
    <2>1. ASSUME NEW v \in Vectors
          PROVE  4 * v + 2 \in TableIndex /\ (4 * v + 2) % 4 # 3
      BY NumVectorsAssumption DEF Vectors, TableIndex
    <2>2. QED
      BY <2>1 DEF Init, DeviceDataCurrent, DefaultTable, DataOf
  <1>2. ASSUME TypeOK, DeviceDataCurrent, [Next]_vars
        PROVE  DeviceDataCurrent'
    <2> USE <1>2
    <2>1. CASE UNCHANGED <<table, msixData>>
      BY <2>1 DEF DeviceDataCurrent, DataOf
    <2>2. ASSUME NEW i \in 0 .. 4 * NumVectors, NEW n \in 1 .. 2,
                 NEW vals \in [0 .. n - 1 -> Dwords], WriteTable(i, n, vals),
                 Covers(i, n) \subseteq TableIndex,
                 NEW v \in Vectors
          PROVE  \/ msixData'[v] = table'[4 * v + 2]
                 \/ msixData'[v] = Unset /\ table'[4 * v + 2] = 0
      <3> DEFINE t == [j \in TableIndex |->
                         IF j \in Covers(i, n) THEN vals[j - i] ELSE table[j]]
      <3>1. table' = t /\ msixData' = Report(i, n, t)
        BY <2>2 DEF WriteTable
      <3>2. 4 * v + 2 \in TableIndex /\ v \in Nat /\ i \in Nat
        BY NumVectorsAssumption DEF Vectors, TableIndex
      <3>3. CASE VectorOf(i) = v /\ TargetsMessageInfo(i, n)
        <4>1. msixData' = [msixData EXCEPT ![v] = t[4 * v + 2]]
          BY <3>1, <3>3 DEF Report
        <4>2. QED
          BY <3>1, <4>1 DEF TypeOK
      <3>4. CASE ~(VectorOf(i) = v /\ TargetsMessageInfo(i, n))
        <4>1. 4 * v + 2 \notin Covers(i, n)
          BY <3>2, <3>4, DataWritten
        <4>2. t[4 * v + 2] = table[4 * v + 2]
          BY <3>2, <4>1
        <4>3. msixData'[v] = msixData[v]
          BY <3>1, <3>4 DEF Report, TypeOK
        <4>4. QED
          BY <3>1, <4>2, <4>3 DEF DeviceDataCurrent, DataOf
      <3>5. QED
        BY <3>3, <3>4
    <2>3. ASSUME NEW i \in 0 .. 4 * NumVectors, NEW n \in 1 .. 2,
                 NEW vals \in [0 .. n - 1 -> Dwords], WriteTable(i, n, vals)
          PROVE  DeviceDataCurrent'
      <3>1. CASE Covers(i, n) \subseteq TableIndex
        BY <2>2, <2>3, <3>1 DEF DeviceDataCurrent, DataOf
      <3>2. CASE ~(Covers(i, n) \subseteq TableIndex)
        BY <2>1, <2>3, <3>2 DEF WriteTable
      <3>3. QED
        BY <3>1, <3>2
    <2>4. QED
      BY <2>1, <2>3
      DEF Next, vars, Signal, WriteCommand, WriteControl, EvaluateDone, EvaluateNext
  <1>3. QED
    BY <1>1, <1>2, TypeCorrect, PTL DEF Spec

-----------------------------------------------------------------------------
(***************************************************************************)
(* With one PBA entry no unblocked interrupt stays pending.                *)
(***************************************************************************)

\* With a single PBA entry the search sees exactly the pending vectors at or
\* after its start.
LEMMA OneEntrySearch ==
  ASSUME NumPba = 1, TypeOK
  PROVE  FindCandidates(start) = PendingSince(start)
  <1>1. ASSUME NEW v \in 0 .. PbaWidth - 1
        PROVE  v \div PbaWidth = 0 /\ v % PbaWidth = v
    BY PbaWidthAssumption
  <1>2. pba \subseteq 0 .. PbaWidth - 1
    BY PbaWidthAssumption DEF TypeOK, PbaBits
  <1>3. start \in 0 .. PbaWidth
    BY PbaWidthAssumption DEF TypeOK
  <1>4. ASSUME NEW v \in pba
        PROVE  (/\ v \div PbaWidth >= start \div PbaWidth
                /\ v % PbaWidth >= start % PbaWidth) <=> v >= start
    <2>1. v \in 0 .. PbaWidth - 1 /\ v \div PbaWidth = 0 /\ v % PbaWidth = v
      BY <1>1, <1>2
    <2>2. CASE start < PbaWidth
      <3>1. start \div PbaWidth = 0 /\ start % PbaWidth = start
        BY <1>1, <1>3, <2>2, PbaWidthAssumption
      <3>2. QED
        BY <1>3, <2>1, <3>1
    <2>3. CASE start = PbaWidth
      <3>1. start \div PbaWidth = 1
        BY <2>3, PbaWidthAssumption
      <3>2. QED
        BY <2>1, <2>3, <3>1, PbaWidthAssumption
    <2>4. QED
      BY <1>3, <2>2, <2>3, PbaWidthAssumption
  <1>5. QED
    BY <1>4, Zenon DEF FindCandidates, PendingSince

\* With one PBA entry, an enabled and unmasked vector stays pending only if an
\* evaluation met it while bus mastering was off: whatever the order of
\* masking, unmasking, enabling and signalling, no pending bit is overlooked.
THEOREM PendingIsBlockedInvariant == NumPba = 1 => (Spec => []PendingIsBlocked)
  <1> SUFFICES ASSUME NumPba = 1
               PROVE  Spec => []PendingIsBlocked
    OBVIOUS
  <1>1. Init => PendingIsBlocked
    BY DEF Init, PendingIsBlocked
  <1>2. ASSUME TypeOK, TypeOK', PendingIsBlocked, [Next]_vars
        PROVE  PendingIsBlocked'
    <2> USE <1>2
    <2>1. ASSUME NEW v \in Signals, Signal(v)
          PROVE  PendingIsBlocked'
      <3> SUFFICES ASSUME NEW w \in pba', Unblocked(w)'
                   PROVE  w \in stranded'
        BY DEF PendingIsBlocked
      <3>1. ~scanning /\ Unblocked(w)
        BY <2>1 DEF Signal, Unblocked, IsMasked, EntryMasked
      <3>2. w \in pba \/ (w = v /\ Generation(v) = "Masked")
        BY <2>1 DEF Signal, TryGenerateMessage, SetPendingBit
      <3>3. w \in pba
        BY <3>1, <3>2 DEF Generation, Unblocked
      <3>4. w \in stranded
        BY <3>1, <3>3 DEF PendingIsBlocked
      <3>5. Generation(v) = "Generated" => w # v
        BY <2>1 DEF Signal, TryGenerateMessage, SetPendingBit
      <3>6. QED
        BY <2>1, <3>4, <3>5 DEF Signal, TryGenerateMessage
    <2>2. ASSUME NEW bm \in BOOLEAN, WriteCommand(bm)
          PROVE  PendingIsBlocked'
      BY <2>2 DEF WriteCommand, PendingIsBlocked, Unblocked, IsMasked, EntryMasked
    <2>3. ASSUME NEW en \in BOOLEAN, NEW fm \in BOOLEAN, WriteControl(en, fm)
          PROVE  PendingIsBlocked'
      <3>1. CASE fm
        <4>1. \A w \in pba' : ~Unblocked(w)'
          BY <2>3, <3>1 DEF WriteControl, Unblocked, IsMasked, TypeOK
        <4>2. QED
          BY <4>1 DEF PendingIsBlocked
      <3>2. CASE ~fm
        <4>1. scanning' /\ start' = 0
          BY <2>3, <3>2 DEF WriteControl
        <4>2. \A w \in pba' : ~(w < start')
          BY <4>1 DEF TypeOK, Vectors
        <4>3. QED
          BY <4>1, <4>2 DEF PendingIsBlocked
      <3>3. QED
        BY <3>1, <3>2
    <2>4. ASSUME NEW i \in 0 .. 4 * NumVectors, NEW n \in 1 .. 2,
                 NEW vals \in [0 .. n - 1 -> Dwords], WriteTable(i, n, vals)
          PROVE  PendingIsBlocked'
      <3>1. CASE ~(Covers(i, n) \subseteq TableIndex)
        BY <2>4, <3>1
        DEF WriteTable, PendingIsBlocked, Unblocked, IsMasked, EntryMasked
      <3>2. CASE Covers(i, n) \subseteq TableIndex /\ TargetsVectorControl(i, n)
        <4>1. scanning' /\ start' = 0
          BY <2>4, <3>2 DEF WriteTable
        <4>2. \A w \in pba' : ~(w < start')
          BY <4>1 DEF TypeOK, Vectors
        <4>3. QED
          BY <4>1, <4>2 DEF PendingIsBlocked
      <3>3. CASE Covers(i, n) \subseteq TableIndex /\ ~TargetsVectorControl(i, n)
        <4> SUFFICES ASSUME NEW w \in pba', Unblocked(w)'
                     PROVE  w \in stranded'
          BY DEF PendingIsBlocked
        <4>1. w \in pba /\ w \in Vectors /\ ~scanning /\ stranded' = stranded
          BY <2>4 DEF WriteTable, TypeOK
        <4>2. 4 * w + 3 \in TableIndex /\ 4 * w + 3 \notin Covers(i, n)
          BY <3>3, <4>1, NumVectorsAssumption
          DEF Vectors, TableIndex, Covers, TargetsVectorControl
        <4>3. table'[4 * w + 3] = table[4 * w + 3]
          BY <2>4, <3>3, <4>2 DEF WriteTable
        <4>4. Unblocked(w)
          BY <2>4, <4>3 DEF WriteTable, Unblocked, IsMasked, EntryMasked
        <4>5. QED
          BY <4>1, <4>4 DEF PendingIsBlocked
      <3>4. QED
        BY <3>1, <3>2, <3>3
    <2>5. CASE EvaluateDone
      <3>1. PendingSince(start) = {}
        BY <2>5, OneEntrySearch DEF EvaluateDone
      <3>2. \A w \in pba : w < start
        BY <3>1 DEF PendingSince, TypeOK, Vectors
      <3>3. QED
        BY <2>5, <3>2
        DEF EvaluateDone, PendingIsBlocked, Unblocked, IsMasked, EntryMasked
    <2>6. ASSUME NEW v \in PbaBits, EvaluateNext(v)
          PROVE  PendingIsBlocked'
      <3>1. IsLeast(v, PendingSince(start))
        BY <2>6, OneEntrySearch DEF EvaluateNext, FindPendingVector
      <3> SUFFICES ASSUME NEW w \in pba', w < start', Unblocked(w)'
                   PROVE  w \in stranded'
        BY <2>6 DEF EvaluateNext, PendingIsBlocked
      <3>2. Unblocked(w) /\ scanning /\ w < v + 1
        BY <2>6 DEF EvaluateNext, Unblocked, IsMasked, EntryMasked
      <3>3. w \in pba
        BY <2>6, <3>1 DEF EvaluateNext, TryGenerateMessage, SetPendingBit, IsLeast, PendingSince
      <3>4. Generation(v) = "Generated" => w # v
        BY <2>6 DEF EvaluateNext, TryGenerateMessage, SetPendingBit
      <3>5. CASE w < start
        BY <2>6, <3>2, <3>3, <3>4, <3>5 DEF PendingIsBlocked, EvaluateNext, TryGenerateMessage
      <3>6. CASE ~(w < start)
        <4>1. w = v
          BY <3>1, <3>2, <3>3, <3>6 DEF IsLeast, PendingSince, TypeOK, Vectors, PbaBits
        <4>2. w \in Vectors /\ w \in PbaBits
          BY <3>3 DEF TypeOK
        <4>3. Generation(v) = "NotBusMaster"
          BY <3>2, <3>4, <4>1, <4>2 DEF Generation, Unblocked
        <4>4. QED
          BY <2>6, <4>1, <4>3 DEF EvaluateNext, TryGenerateMessage
      <3>7. QED
        BY <3>5, <3>6
    <2>7. CASE UNCHANGED vars
      BY <2>7 DEF vars, PendingIsBlocked, Unblocked, IsMasked, EntryMasked
    <2>8. QED
      BY <2>1, <2>2, <2>3, <2>4, <2>5, <2>6, <2>7 DEF Next
  <1>3. QED
    BY <1>1, <1>2, TypeCorrect, PTL DEF Spec

-----------------------------------------------------------------------------
(***************************************************************************)
(* INTx.                                                                   *)
(***************************************************************************)

\* The function's line is a line of the controller.
LEMMA LineType ==
  ASSUME IntxTypeOK
  PROVE  InterruptLine \in Lines
  BY DEF IntxTypeOK, InterruptLine

\* Driving the function's line keeps the lines' type.
LEMMA SetInterruptType ==
  ASSUME IntxTypeOK, NEW high \in BOOLEAN, SetInterrupt(high)
  PROVE  level' \in [Lines -> BOOLEAN]
  BY LineType DEF IntxTypeOK, SetInterrupt

\* The registers and the controller's lines keep their types (intx.rs).
THEOREM IntxTypeCorrect == IntxSpec => []IntxTypeOK
  <1>1. IntxInit => IntxTypeOK
    BY LinesAssumption DEF IntxInit, IntxTypeOK
  <1>2. ASSUME IntxTypeOK, [IntxNext]_intxVars
        PROVE  IntxTypeOK'
    <2> USE <1>2
    <2>1. ASSUME NEW high \in BOOLEAN, SignalIntx(high)
          PROVE  IntxTypeOK'
      <3>1. level' \in [Lines -> BOOLEAN]
        BY <2>1, SetInterruptType DEF SignalIntx, IntxTypeOK
      <3>2. QED
        BY <2>1, <3>1 DEF SignalIntx, IntxTypeOK
    <2>2. ASSUME NEW dis \in BOOLEAN, OnWriteCommand(dis)
          PROVE  IntxTypeOK'
      <3>1. level' \in [Lines -> BOOLEAN] /\ cached' \in BOOLEAN
        BY <2>2, SetInterruptType DEF OnWriteCommand, IntxTypeOK
      <3>2. QED
        BY <2>2, <3>1 DEF OnWriteCommand, IntxTypeOK
    <2>3. ASSUME NEW l \in Lines, WriteInterruptLine(l)
          PROVE  IntxTypeOK'
      BY <2>3 DEF WriteInterruptLine, IntxTypeOK
    <2>4. CASE UNCHANGED intxVars
      BY <2>4 DEF intxVars, IntxTypeOK
    <2>5. QED
      BY <2>1, <2>2, <2>3, <2>4 DEF IntxNext, SignalInterrupt
  <1>3. QED
    BY <1>1, <1>2, PTL DEF IntxSpec

\* No sequence of signals, command writes and Interrupt Line writes separates
\* the line from the status bit, except that a disable forces the line down
\* (signal_intx, on_write_config and their stale cached copy).
THEOREM LineFollowsStatusInvariant == IntxSpec => []LineFollowsStatus
  <1>1. IntxInit => LineFollowsStatus
    BY DEF IntxInit, LineFollowsStatus
  <1>2. ASSUME IntxTypeOK, LineFollowsStatus, [IntxNext]_intxVars
        PROVE  LineFollowsStatus'
    <2> USE <1>2
    <2>1. ASSUME NEW high \in BOOLEAN, SignalIntx(high), ~intxDisable
          PROVE  LineFollowsStatus'
      <3>1. InterruptLine' = InterruptLine /\ rerouted' = rerouted
        BY <2>1 DEF SignalIntx, InterruptLine
      <3>2. CASE intxStatus = high
        <4>1. level' = level /\ intxStatus' = intxStatus
          BY <2>1, <3>2 DEF SignalIntx
        <4>2. QED
          BY <2>1, <3>1, <4>1 DEF LineFollowsStatus, SignalIntx
      <3>3. CASE intxStatus # high
        <4>1. level' = [level EXCEPT ![InterruptLine] = high] /\ intxStatus' = high
          BY <2>1, <3>3 DEF SignalIntx, SetInterrupt
        <4>2. CASE high
          BY <3>1, <4>1, <4>2, <3>3, LineType DEF LineFollowsStatus, IntxTypeOK
        <4>3. CASE ~high
          BY <3>1, <4>1, <4>3, <3>3, LineType DEF LineFollowsStatus, IntxTypeOK
        <4>4. QED
          BY <4>2, <4>3
      <3>4. QED
        BY <3>2, <3>3
    <2>2. ASSUME NEW dis \in BOOLEAN, OnWriteCommand(dis)
          PROVE  LineFollowsStatus'
      <3>1. InterruptLine' = InterruptLine /\ rerouted' = rerouted
            /\ intxStatus' = intxStatus /\ intxDisable' = dis
        BY <2>2 DEF OnWriteCommand, InterruptLine
      <3>2. CASE dis # cached /\ intxStatus
        <4>1. level' = [level EXCEPT ![InterruptLine] = ~dis] /\ cached' = dis
          BY <2>2, <3>2 DEF OnWriteCommand, SetInterrupt
        <4>2. QED
          BY <3>1, <3>2, <4>1, LineType DEF LineFollowsStatus, IntxTypeOK
      <3>3. CASE ~(dis # cached /\ intxStatus)
        <4>1. level' = level /\ cached' = cached
          BY <2>2, <3>3 DEF OnWriteCommand
        <4>2. QED
          BY <3>1, <3>3, <4>1 DEF LineFollowsStatus, IntxTypeOK
      <3>4. QED
        BY <3>2, <3>3
    <2>3. ASSUME NEW l \in Lines, WriteInterruptLine(l)
          PROVE  LineFollowsStatus'
      <3>1. CASE lineConfig = Register /\ l # lineReg
        BY <2>3, <3>1 DEF WriteInterruptLine, LineFollowsStatus, InterruptLine
      <3>2. CASE ~(lineConfig = Register /\ l # lineReg)
        <4>1. InterruptLine' = InterruptLine
          BY <2>3, <3>2 DEF WriteInterruptLine, InterruptLine
        <4>2. QED
          BY <2>3, <3>2, <4>1 DEF WriteInterruptLine, LineFollowsStatus
      <3>3. QED
        BY <3>1, <3>2
    <2>4. CASE UNCHANGED intxVars
      BY <2>4 DEF intxVars, LineFollowsStatus, InterruptLine
    <2>5. QED
      BY <2>1, <2>2, <2>3, <2>4 DEF IntxNext, SignalInterrupt
  <1>3. QED
    BY <1>1, <1>2, IntxTypeCorrect, PTL DEF IntxSpec

-----------------------------------------------------------------------------
(***************************************************************************)
(* Both together.  Each mechanism takes its own steps behind               *)
(* PciInterruptContext, or none: what was proved of it alone carries over. *)
(***************************************************************************)

\* A signal that passes PciInterruptContext while INTx is active is one that
\* signal_interrupt lets through.
LEMMA ActiveIntxEnabled ==
  ASSUME ActiveInterrupt = "Intx"
  PROVE  ~enabled /\ ~intxDisable
  BY DEF ActiveInterrupt

\* Whatever mechanism is active, MSI-X sees the operations of MsiX and nothing
\* else (signal_interrupt, write_config and write_bar of
\* PciFunctionWithInterrupts).
THEOREM IrqImplementsMsiX == IrqSpec => Spec
  <1>1. IrqInit => Init
    BY DEF IrqInit
  <1>2. ASSUME [IrqNext]_irqVars
        PROVE  [Next]_vars
    <2> USE <1>2
    <2>1. ASSUME NEW v \in Signals, SignalMsi(v)
          PROVE  Next \/ UNCHANGED vars
      <3>1. Signal(v) \/ UNCHANGED vars
        BY <2>1 DEF SignalMsi, MsiXIdle
      <3>2. QED
        BY <3>1 DEF Next
    <2>2. ASSUME NEW high \in BOOLEAN, SignalLevel(high)
          PROVE  UNCHANGED vars
      BY <2>2 DEF SignalLevel, MsiXIdle
    <2>3. CASE ReadIsr
      BY <2>3 DEF ReadIsr, MsiXIdle
    <2>4. ASSUME NEW bm \in BOOLEAN, NEW dis \in BOOLEAN, GuestWriteCommand(bm, dis)
          PROVE  Next
      BY <2>4 DEF GuestWriteCommand, Next
    <2>5. ASSUME NEW l \in Lines, WriteLine(l)
          PROVE  UNCHANGED vars
      BY <2>5 DEF WriteLine, MsiXIdle
    <2>6. ASSUME NEW en \in BOOLEAN, NEW fm \in BOOLEAN, GuestWriteControl(en, fm)
          PROVE  Next
      BY <2>6 DEF GuestWriteControl, Next
    <2>7. ASSUME NEW i \in TableIndex, NEW vals \in [{0} -> Dwords],
                 GuestWriteTable(i, 1, vals)
          PROVE  Next
      <3>1. i \in 0 .. 4 * NumVectors
        BY NumVectorsAssumption DEF TableIndex
      <3>2. 1 \in 1 .. 2 /\ 0 .. 1 - 1 = {0}
        OBVIOUS
      <3>3. WriteTable(i, 1, vals)
        BY <2>7 DEF GuestWriteTable
      <3>4. \E n \in 1 .. 2 : \E w \in [0 .. n - 1 -> Dwords] : WriteTable(i, n, w)
        BY <3>2, <3>3
      <3>5. QED
        BY <3>1, <3>4 DEF Next
    <2>8. CASE EvaluatePending
      BY <2>8 DEF EvaluatePending, Evaluate, Next
    <2>9. CASE UNCHANGED irqVars
      BY <2>9 DEF irqVars
    <2>10. QED
      BY <2>1, <2>2, <2>3, <2>4, <2>5, <2>6, <2>7, <2>8, <2>9 DEF IrqNext
  <1>3. QED
    BY <1>1, <1>2, PTL DEF IrqSpec, Spec

\* Whatever mechanism is active, INTx sees the operations of Intx and nothing
\* else: a level reaches it only when INTx is active, a command write always.
THEOREM IrqImplementsIntx == IrqSpec => IntxSpec
  <1>1. IrqInit => IntxInit
    BY DEF IrqInit
  <1>2. ASSUME [IrqNext]_irqVars
        PROVE  [IntxNext]_intxVars
    <2> USE <1>2
    <2>1. ASSUME NEW v \in Signals, SignalMsi(v)
          PROVE  UNCHANGED intxVars
      BY <2>1 DEF SignalMsi
    <2>2. ASSUME NEW high \in BOOLEAN, SignalIntx(high), ActiveInterrupt = "Intx"
          PROVE  IntxNext
      BY <2>2, ActiveIntxEnabled DEF IntxNext, SignalInterrupt
    <2>3. ASSUME NEW high \in BOOLEAN, SignalLevel(high)
          PROVE  IntxNext \/ UNCHANGED intxVars
      <3>1. \/ ActiveInterrupt = "Intx" /\ SignalIntx(high)
            \/ UNCHANGED intxVars
        BY <2>3 DEF SignalLevel
      <3>2. QED
        BY <2>2, <3>1
    <2>4. CASE ReadIsr
      <3>1. \/ ActiveInterrupt = "Intx" /\ SignalIntx(FALSE)
            \/ UNCHANGED intxVars
        BY <2>4 DEF ReadIsr
      <3>2. QED
        BY <2>2, <3>1
    <2>5. ASSUME NEW bm \in BOOLEAN, NEW dis \in BOOLEAN, GuestWriteCommand(bm, dis)
          PROVE  IntxNext
      BY <2>5 DEF GuestWriteCommand, IntxNext
    <2>6. ASSUME NEW l \in Lines, WriteLine(l)
          PROVE  IntxNext
      BY <2>6 DEF WriteLine, IntxNext
    <2>7. ASSUME NEW en \in BOOLEAN, NEW fm \in BOOLEAN, GuestWriteControl(en, fm)
          PROVE  UNCHANGED intxVars
      BY <2>7 DEF GuestWriteControl
    <2>8. ASSUME NEW i \in TableIndex, NEW vals \in [{0} -> Dwords],
                 GuestWriteTable(i, 1, vals)
          PROVE  UNCHANGED intxVars
      BY <2>8 DEF GuestWriteTable
    <2>9. CASE EvaluatePending
      BY <2>9 DEF EvaluatePending
    <2>10. CASE UNCHANGED irqVars
      BY <2>10 DEF irqVars
    <2>11. QED
      BY <2>1, <2>3, <2>4, <2>5, <2>6, <2>7, <2>8, <2>9, <2>10 DEF IrqNext
  <1>3. QED
    BY <1>1, <1>2, PTL DEF IrqSpec, IntxSpec

\* The guest may switch between MSI-X and INTx at any time: with one PBA entry
\* no deliverable vector is left pending behind PciInterruptContext.
THEOREM MsiXStaysSoundInvariant == NumPba = 1 => (IrqSpec => []MsiXStaysSound)
  BY IrqImplementsMsiX, PendingIsBlockedInvariant, PTL DEF MsiXStaysSound

\* The guest may switch between MSI-X and INTx at any time: the line stays in
\* step with the status bit behind PciInterruptContext.
THEOREM IrqLineFollowsStatus == IrqSpec => []LineFollowsStatus
  BY IrqImplementsIntx, LineFollowsStatusInvariant, PTL

\* A driver that reads the ISR status register is never refused, and when INTx
\* is the active interrupt the read has taken every line down, whatever
\* sequence of signals, masks and switches came before (VirtioPciFunction
\* read_bar, signal_interrupt).
THEOREM IsrReadInvariant == IrqSpec => []IsrReadLeavesIntxLow
  <1>1. IrqInit => IsrReadLeavesIntxLow
    BY DEF IrqInit, IsrReadLeavesIntxLow
  <1>2. ASSUME LineFollowsStatus', IsrReadLeavesIntxLow, [IrqNext]_irqVars
        PROVE  IsrReadLeavesIntxLow'
    <2> USE <1>2
    <2>1. CASE ReadIsr
      <3> SUFFICES ASSUME ActiveInterrupt' = "Intx", ~rerouted'
                   PROVE  ~intxStatus' /\ \A l \in Lines : ~level'[l]
        BY <2>1 DEF ReadIsr, IsrReadLeavesIntxLow
      <3>1. ~enabled' /\ ~intxDisable'
        BY DEF ActiveInterrupt
      <3>2. enabled' = enabled /\ intxDisable' = intxDisable
        BY <2>1 DEF ReadIsr, MsiXIdle, vars, SignalIntx, intxVars
      <3>3. ActiveInterrupt = "Intx"
        BY <3>1, <3>2 DEF ActiveInterrupt
      <3>4. ~intxStatus'
        BY <2>1, <3>3 DEF ReadIsr, SignalIntx
      <3>5. QED
        BY <3>4 DEF LineFollowsStatus
    <2>2. CASE EvaluatePending
      <3>1. enabled' = enabled /\ UNCHANGED <<intxVars, op, result>>
        BY <2>2 DEF EvaluatePending, Evaluate, EvaluateDone, EvaluateNext
      <3>2. QED
        BY <3>1 DEF IsrReadLeavesIntxLow, ActiveInterrupt, intxVars
    <2>3. CASE UNCHANGED irqVars
      BY <2>3 DEF irqVars, vars, intxVars, IsrReadLeavesIntxLow, ActiveInterrupt
    <2>4. CASE op' \in {"signal", "write"}
      BY <2>4 DEF IsrReadLeavesIntxLow
    <2>5. QED
      BY <2>1, <2>2, <2>3, <2>4
      DEF IrqNext, SignalMsi, SignalLevel, GuestWriteCommand, WriteLine,
          GuestWriteControl, GuestWriteTable
  <1>3. QED
    BY <1>1, <1>2, IrqLineFollowsStatus, PTL DEF IrqSpec

=============================================================================
