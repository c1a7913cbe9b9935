-------------------------------- MODULE MsiX --------------------------------
(***************************************************************************)
(* The MSI-X capability of a PCI function (greens-pci/src/msix.rs, with    *)
(* try_generate_message of msi.rs): the vector table in a BAR, the pending *)
(* bit array, the Message Control bits and the Bus Master bit.             *)
(*                                                                         *)
(* The guest programs the table one or two dwords at a time, toggles the   *)
(* control bits and the Bus Master bit; the device signals vectors.  The   *)
(* loop of evaluate_pending_interrupts takes one step per vector, and no   *)
(* other operation runs while it is under way: every entry point borrows   *)
(* the function exclusively.                                               *)
(***************************************************************************)
EXTENDS Naturals

CONSTANTS
  NumVectors,  \* entries of the MSI-X table
  NumPba,      \* entries of the pending bit array
  PbaWidth,    \* pending bits of one PBA entry (64: PbaEntry is a u64)
  Dwords,      \* values of a table dword; the parity is the mask bit
  Unset        \* the device was never told a message for the vector

ASSUME NumVectorsAssumption == NumVectors \in Nat \ {0}
ASSUME NumPbaAssumption == NumPba \in Nat \ {0}
ASSUME PbaWidthAssumption == PbaWidth \in Nat \ {0}
ASSUME DwordsAssumption == {0, 1} \subseteq Dwords /\ Dwords \subseteq Nat
ASSUME UnsetAssumption == Unset \notin Dwords

VARIABLES
  busMaster,  \* Bus Master bit of the command register
  enabled,    \* MSI-X Enable bit of Message Control
  fnMasked,   \* Function Mask bit of Message Control
  table,      \* the MSI-X table, as dwords
  pba,        \* the set of pending bits that are 1
  scanning,   \* evaluate_pending_interrupts is under way
  start,      \* ... and its loop variable
  sent,       \* the message the last step handed to send_msi, if any
  msixData,   \* message data per vector as last reported to the device
  stranded    \* history: vectors an evaluation met without bus mastering

vars == <<busMaster, enabled, fnMasked, table, pba, scanning, start, sent,
          msixData, stranded>>

Vectors == 0 .. NumVectors - 1
PbaBits == 0 .. NumPba * PbaWidth - 1

Latch == INSTANCE MsiLatch WITH latched <- pba

-----------------------------------------------------------------------------
(***************************************************************************)
(* The table.  Entry v is the dwords 4v (address), 4v+1 (address high),    *)
(* 4v+2 (data) and 4v+3 (vector control).                                  *)
(***************************************************************************)
TableIndex == 0 .. 4 * NumVectors - 1
VectorOf(i) == i \div 4
DataOf(v) == table[4 * v + 2]
EntryMasked(v) == table[4 * v + 3] % 2 = 1

\* MsiXEntry::default: all zero, the vector masked.
DefaultTable == [i \in TableIndex |-> IF i % 4 = 3 THEN 1 ELSE 0]

\* The dwords a write of n dwords at dword i covers.
Covers(i, n) == i .. i + n - 1

\* The targets_* functions look at the offset within one entry only, so a
\* write that runs on into the next entry is judged by the first.
TargetsVectorControl(i, n) == (i % 4) + n > 3
TargetsMessageInfo(i, n) == i % 4 < 3

-----------------------------------------------------------------------------
(***************************************************************************)
(* Generating a message.                                                   *)
(***************************************************************************)

IsMaskedOutsideTable(v) == v \in Vectors => (fnMasked \/ EntryMasked(v))

\* PciMsiX::is_masked: a vector outside the table is not masked.
IsMasked(v) == v \in Vectors /\ (fnMasked \/ EntryMasked(v))

\* try_generate_message: the checks in the order the code makes them.
Generation(v) ==
  CASE ~busMaster -> "NotBusMaster"
    [] busMaster /\ ~enabled -> "MsiDisabled"
    [] busMaster /\ enabled /\ IsMasked(v) /\ v \in PbaBits -> "Masked"
    [] busMaster /\ enabled /\ ~IsMasked(v)
         /\ v \in PbaBits \cap Vectors -> "Generated"
    [] OTHER -> "InvalidMsiXVector"

SetPendingBitNeverClears(v, g) ==
  IF g = "Masked" THEN pba \cup {v} ELSE pba

\* The pending bits after try_generate_message came to outcome g.
SetPendingBit(v, g) ==
  CASE g = "Masked" -> pba \cup {v}
    [] g \in {"Generated", "InvalidMsiXVector"} -> pba \ {v}
    [] OTHER -> pba

\* try_generate_message and the send_msi that follows a generated message.
TryGenerateMessage(v, kind) ==
  LET g == Generation(v) IN
  /\ pba' = SetPendingBit(v, g)
  /\ sent' = IF g = "Generated" THEN [kind |-> kind, vector |-> v]
                                ELSE Latch!NoSend
  /\ stranded' = CASE g = "Generated" -> stranded \ {v}
                   [] g = "NotBusMaster" /\ kind = "release" -> stranded \cup {v}
                   [] OTHER -> stranded

-----------------------------------------------------------------------------
(***************************************************************************)
(* Finding pending vectors.                                                *)
(***************************************************************************)

\* The pending bits find_pending_vector looks at.  It drops the bits below
\* since's own bit in EVERY entry it visits, not only in since's entry.
FindCandidates(since) ==
  {v \in pba : /\ v \div PbaWidth >= since \div PbaWidth
               /\ v % PbaWidth >= since % PbaWidth}

IsLeast(v, S) == v \in S /\ \A w \in S : v <= w

\* find_pending_vector(since) = Some(v)
FindPendingVector(since, v) == IsLeast(v, FindCandidates(since))

\* The next pending vector, as the loop over the vectors needs it.
PendingSince(since) == {v \in pba : v >= since}

-----------------------------------------------------------------------------
(***************************************************************************)
(* Operations.                                                             *)
(***************************************************************************)
Init ==
  /\ busMaster = FALSE /\ enabled = FALSE /\ fnMasked = FALSE
  /\ table = DefaultTable
  /\ pba = {}
  /\ scanning = FALSE /\ start = 0
  /\ sent = Latch!NoSend
  /\ msixData = [v \in Vectors |-> Unset]
  /\ stranded = {}

\* The device signals vector v (handle_msi).
Signal(v) ==
  /\ ~scanning
  /\ TryGenerateMessage(v, "post")
  /\ UNCHANGED <<busMaster, enabled, fnMasked, table, scanning, start, msixData>>

\* The guest writes the command register.  It does not overlap Message
\* Control, so pending interrupts are not evaluated.
WriteCommand(bm) ==
  /\ ~scanning
  /\ busMaster' = bm
  /\ sent' = Latch!NoSend
  /\ UNCHANGED <<enabled, fnMasked, table, pba, scanning, start, msixData, stranded>>

WriteControlOnUnmask(en, fm) ==
  /\ ~scanning
  /\ enabled' = en
  /\ fnMasked' = fm
  /\ scanning' = (fnMasked /\ ~fm)
  /\ start' = 0
  /\ sent' = Latch!NoSend
  /\ UNCHANGED <<busMaster, table, pba, msixData, stranded>>

\* The guest writes Message Control (on_write_config).
WriteControl(en, fm) ==
  /\ ~scanning
  /\ enabled' = en
  /\ fnMasked' = fm
  /\ scanning' = ~fm
  /\ start' = 0
  /\ sent' = Latch!NoSend
  /\ UNCHANGED <<busMaster, table, pba, msixData, stranded>>

\* The device hears of a message only when the write starts on its data.
ReportDataOnly(i, n, t) ==
  IF i % 4 = 2
    THEN [msixData EXCEPT ![VectorOf(i)] = t[4 * VectorOf(i) + 2]]
    ELSE msixData

\* The MsiXMessage update of a write, applied by the device: it keeps the
\* message data of the vector the write started in.
Report(i, n, t) ==
  IF TargetsMessageInfo(i, n)
    THEN [msixData EXCEPT ![VectorOf(i)] = t[4 * VectorOf(i) + 2]]
    ELSE msixData

\* The guest writes n dwords of the table at dword i (write_bar); vals gives
\* the value of each.  A write that leaves the table changes nothing.  (The
\* device is told of the message when the evaluation is over; nothing looks at
\* its copy before that.)
WriteTable(i, n, vals) ==
  /\ ~scanning
  /\ IF Covers(i, n) \subseteq TableIndex
       THEN LET t == [j \in TableIndex |->
                        IF j \in Covers(i, n) THEN vals[j - i] ELSE table[j]] IN
            /\ table' = t
            /\ scanning' = TargetsVectorControl(i, n)
            /\ start' = 0
            /\ msixData' = Report(i, n, t)
       ELSE UNCHANGED <<table, scanning, start, msixData>>
  /\ sent' = Latch!NoSend
  /\ UNCHANGED <<busMaster, enabled, fnMasked, pba, stranded>>

EvaluateNextSameStart(v) ==
  /\ scanning
  /\ FindPendingVector(start, v)
  /\ TryGenerateMessage(v, "release")
  /\ start' = v
  /\ UNCHANGED <<busMaster, enabled, fnMasked, table, scanning, msixData>>

\* One turn of the loop in evaluate_pending_interrupts.
EvaluateNext(v) ==
  /\ scanning
  /\ FindPendingVector(start, v)
  /\ TryGenerateMessage(v, "release")
  /\ start' = v + 1
  /\ UNCHANGED <<busMaster, enabled, fnMasked, table, scanning, msixData>>

\* ... which ends when no pending vector is found.
EvaluateDone ==
  /\ scanning
  /\ FindCandidates(start) = {}
  /\ scanning' = FALSE
  /\ start' = 0
  /\ sent' = Latch!NoSend
  /\ UNCHANGED <<busMaster, enabled, fnMasked, table, pba, msixData, stranded>>

Evaluate == EvaluateDone \/ \E v \in PbaBits : EvaluateNext(v)

\* The vector numbers a device may signal, one of them outside the table.
Signals == 0 .. NumVectors

Next ==
  \/ \E v \in Signals : Signal(v)
  \/ \E bm \in BOOLEAN : WriteCommand(bm)
  \/ \E en, fm \in BOOLEAN : WriteControl(en, fm)
  \/ \E i \in 0 .. 4 * NumVectors, n \in 1 .. 2 :
       \E vals \in [0 .. n - 1 -> Dwords] : WriteTable(i, n, vals)
  \/ EvaluateDone
  \/ \E v \in PbaBits : EvaluateNext(v)

Spec == Init /\ [][Next]_vars

\* The evaluation is a loop of the handler that started it: it runs to its
\* end.
FairSpec == Spec /\ WF_vars(Evaluate)

-----------------------------------------------------------------------------
(***************************************************************************)
(* Properties.                                                             *)
(***************************************************************************)

\* The registers and the bookkeeping keep their types; no bit is pending for
\* a vector that is not in the table, so a message read back for a pending
\* vector always exists (get_message_for).
TypeOK ==
  /\ busMaster \in BOOLEAN /\ enabled \in BOOLEAN /\ fnMasked \in BOOLEAN
  /\ table \in [TableIndex -> Dwords]
  /\ pba \subseteq Vectors \cap PbaBits
  /\ scanning \in BOOLEAN
  /\ start \in 0 .. NumPba * PbaWidth
  /\ sent \in Latch!Sends
  /\ msixData \in [Vectors -> Dwords \cup {Unset}]
  /\ stranded \subseteq Vectors

\* With the Pending bits as the latch, the capability implements MsiLatch: an
\* interrupt accepted while masked is neither forgotten nor invented, and
\* leaves the pending bits in the step that sends its message.
RefinesLatch == Latch!LatchSpec

\* A vector may be delivered now, bus mastering apart.
Unblocked(v) == enabled /\ ~IsMasked(v)

\* Between operations no pending vector is left that is enabled and unmasked,
\* unless the evaluation that came to it found bus mastering off; within an
\* evaluation this holds of the vectors the loop has passed.  Every route that
\* unblocks a vector (vector control, Function Mask, MSI-X Enable) therefore
\* evaluates all the pending bits.
PendingIsBlocked ==
  \A v \in pba : (scanning => v < start) /\ Unblocked(v) => v \in stranded

\* The device's copy of a vector's message data (used to bind interrupt file
\* descriptors) is the table's data, or the guest never wrote the message.
DeviceDataCurrent ==
  \A v \in Vectors : \/ msixData[v] = DataOf(v)
                     \/ msixData[v] = Unset /\ DataOf(v) = 0

\* "clear previous bits": the bits find_pending_vector clears are those of the
\* vectors before start, so what it returns is the next pending vector at or
\* after start, and None only when there is none, whatever entry of the
\* pending bit array the vector is in (test_find_pending_vector).
FindsNextPending ==
  scanning => \A v \in PbaBits :
    FindPendingVector(start, v) <=> IsLeast(v, PendingSince(start))

\* Every evaluation ends, whatever stays pending.
EvaluationEnds == scanning ~> ~scanning

=============================================================================
