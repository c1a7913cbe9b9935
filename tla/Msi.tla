-------------------------------- MODULE Msi --------------------------------
(***************************************************************************)
(* The MSI capability of a PCI function (greens-pci/src/msi.rs): the       *)
(* Message Control bits, the message data, and, when the capability has    *)
(* per-vector masking, a register of mask bits and one of pending bits.    *)
(*                                                                         *)
(* A word or dword is the set of its bits that are 1.  As in MsiX, the     *)
(* loop of evaluate_pending_interrupts takes one step per vector and no    *)
(* other operation runs while it is under way.  The pending bits are       *)
(* writable to the guest; a driver has no business writing them, and here  *)
(* it does not.                                                            *)
(***************************************************************************)
EXTENDS Naturals

CONSTANTS
  MultipleMessageCapable,  \* 0 .. 5: the function has 2^this many vectors
  PerVectorMasking,        \* MsiPerVectorMasking::Enabled
  NumBits,                 \* bits of the mask and pending registers (32)
  DataBits                 \* bits of the message data (16)

ASSUME CapableAssumption == MultipleMessageCapable \in 0 .. 5
ASSUME MaskingAssumption == PerVectorMasking \in BOOLEAN
ASSUME NumBitsAssumption ==
  NumBits \in Nat /\ 2 ^ MultipleMessageCapable <= NumBits
ASSUME DataBitsAssumption == DataBits \in 0 .. 16 /\ NumBits <= 2 ^ DataBits

VARIABLES
  busMaster,  \* Bus Master bit of the command register
  enabled,    \* MSI Enable bit of Message Control
  mme,        \* Multiple Message Enable field of Message Control
  data,       \* Message Data
  masks,      \* Mask Bits
  pending,    \* Pending Bits
  scanning,   \* evaluate_pending_interrupts is under way
  start,      \* ... and its loop variable
  sent,       \* the vector whose message the last step handed to send_msi
  message,    \* ... and the data of that message
  stranded    \* history: vectors an evaluation met without bus mastering

msiVars == <<busMaster, enabled, mme, data, masks, pending, scanning, start,
             sent, message, stranded>>
registers == <<busMaster, enabled, mme, data, masks>>

Bits == 0 .. NumBits - 1

\* is_valid_vector goes by what the function is capable of, not by what the
\* guest enabled.
Vectors == 0 .. 2 ^ MultipleMessageCapable - 1

Latch == INSTANCE MsiLatch WITH latched <- pending \cap Vectors

-----------------------------------------------------------------------------
(***************************************************************************)
(* Generating a message.                                                   *)
(***************************************************************************)
IsMasked(v) == PerVectorMasking /\ v \in masks

BitsOf(v) == {b \in 0 .. DataBits - 1 : (v \div 2 ^ b) % 2 = 1}

MessageDataOneBitMore(v) == {b \in data : b > mme} \cup BitsOf(v)

\* get_message_data_for: the low mme bits of the message data make way, and
\* the whole vector number goes in.
MessageData(v) == {b \in data : b >= mme} \cup BitsOf(v)

\* try_generate_message.  set_pending_bit refuses even to clear a bit when
\* there are no pending bits.
Generation(v) ==
  CASE ~busMaster -> "NotBusMaster"
    [] busMaster /\ ~enabled -> "MsiDisabled"
    [] busMaster /\ enabled /\ ~PerVectorMasking -> "NotSupported"
    [] busMaster /\ enabled /\ IsMasked(v) -> "Masked"
    [] busMaster /\ enabled /\ PerVectorMasking /\ ~IsMasked(v)
         /\ v \in Vectors -> "Generated"
    [] OTHER -> "InvalidMsiVector"

SetPendingBitNeverClears(v, g) ==
  IF g = "Masked" THEN pending \cup {v} ELSE pending

\* The pending bits after try_generate_message came to outcome g.
SetPendingBit(v, g) ==
  CASE g = "Masked" -> pending \cup {v}
    [] g \in {"Generated", "InvalidMsiVector"} -> pending \ {v}
    [] OTHER -> pending

\* try_generate_message and the send_msi that follows a generated message.
TryGenerateMessage(v, kind) ==
  LET g == Generation(v) IN
  /\ pending' = SetPendingBit(v, g)
  /\ sent' = IF g = "Generated" THEN [kind |-> kind, vector |-> v]
                                ELSE Latch!NoSend
  /\ message' = IF g = "Generated" THEN MessageData(v) ELSE {}
  /\ stranded' = CASE g = "Generated" -> stranded \ {v}
                   [] g = "NotBusMaster" /\ kind = "release" -> stranded \cup {v}
                   [] OTHER -> stranded

NoMessage == sent' = Latch!NoSend /\ message' = {}

-----------------------------------------------------------------------------
(***************************************************************************)
(* Operations.                                                             *)
(***************************************************************************)
MsiInit ==
  /\ busMaster = FALSE /\ enabled = FALSE /\ mme = 0
  /\ data = {} /\ masks = {} /\ pending = {}
  /\ scanning = FALSE /\ start = 0
  /\ sent = Latch!NoSend /\ message = {}
  /\ stranded = {}

\* The device signals vector v (handle_msi).
Signal(v) ==
  /\ ~scanning
  /\ TryGenerateMessage(v, "post")
  /\ UNCHANGED <<registers, scanning, start>>

\* What every register write has in common.
Write ==
  /\ ~scanning
  /\ NoMessage
  /\ start' = 0
  /\ UNCHANGED <<pending, stranded>>

\* The command register is no part of the capability: nothing is evaluated.
WriteCommand(bm) ==
  /\ Write
  /\ busMaster' = bm
  /\ UNCHANGED <<enabled, mme, data, masks, scanning>>

WriteControlKeepsEnable(en, e) ==
  /\ Write
  /\ enabled' = en
  /\ mme' = e
  /\ scanning' = (en /\ PerVectorMasking)
  /\ UNCHANGED <<busMaster, data, masks>>

\* The guest writes Message Control: more messages than the function is
\* capable of become one.
WriteControl(en, e) ==
  /\ Write
  /\ enabled' = en
  /\ mme' = IF e <= MultipleMessageCapable THEN e ELSE 0
  /\ scanning' = (en /\ PerVectorMasking)
  /\ UNCHANGED <<busMaster, data, masks>>

WriteMasksOnlyMasked(S) ==
  /\ PerVectorMasking
  /\ Write
  /\ masks' = S
  /\ scanning' = (S = {})
  /\ UNCHANGED <<busMaster, enabled, mme, data>>

\* The guest writes the mask bits.
WriteMasks(S) ==
  /\ PerVectorMasking
  /\ Write
  /\ masks' = S
  /\ scanning' = TRUE
  /\ UNCHANGED <<busMaster, enabled, mme, data>>

\* The guest writes the message data.  (The MsiMessage update it leads to has
\* no consumer in the repository.)
WriteData(S) ==
  /\ Write
  /\ data' = S
  /\ UNCHANGED <<busMaster, enabled, mme, masks, scanning>>

\* next_pending_vector(since): the lowest bit, if it is a vector's.
Pending(since) == {v \in pending : v >= since}

NextPendingVector(since, v) ==
  /\ v \in Pending(since) \cap Vectors
  /\ \A w \in Pending(since) : v <= w

\* One turn of the loop in evaluate_pending_interrupts.
EvaluateNext(v) ==
  /\ scanning
  /\ NextPendingVector(start, v)
  /\ TryGenerateMessage(v, "release")
  /\ start' = v + 1
  /\ UNCHANGED <<registers, scanning>>

\* ... which ends when no pending vector is found.
EvaluateDone ==
  /\ scanning
  /\ \A v \in Bits : ~NextPendingVector(start, v)
  /\ NoMessage
  /\ scanning' = FALSE
  /\ start' = 0
  /\ UNCHANGED <<registers, pending, stranded>>

MsiNext ==
  \/ \E v \in Bits : Signal(v)
  \/ \E bm \in BOOLEAN : WriteCommand(bm)
  \/ \E en \in BOOLEAN, e \in 0 .. 7 : WriteControl(en, e)
  \/ \E S \in SUBSET Bits : WriteMasks(S)
  \/ \E S \in SUBSET (0 .. DataBits - 1) : WriteData(S)
  \/ EvaluateDone
  \/ \E v \in Bits : EvaluateNext(v)

MsiSpec == MsiInit /\ [][MsiNext]_msiVars

-----------------------------------------------------------------------------
(***************************************************************************)
(* Properties.                                                             *)
(***************************************************************************)

\* The registers keep their types: the guest never enables more messages than
\* the function is capable of, whatever it writes to Message Control.
MsiTypeOK ==
  /\ busMaster \in BOOLEAN /\ enabled \in BOOLEAN
  /\ mme \in 0 .. MultipleMessageCapable
  /\ data \subseteq 0 .. DataBits - 1
  /\ masks \subseteq Bits /\ pending \subseteq Bits
  /\ scanning \in BOOLEAN /\ start \in 0 .. NumBits
  /\ sent \in Latch!Sends
  /\ message \subseteq 0 .. DataBits - 1
  /\ stranded \subseteq Vectors

\* With the Pending Bits of its vectors as the latch, the capability
\* implements MsiLatch: a masked interrupt is neither forgotten nor invented.
MsiRefinesLatch == Latch!LatchSpec

\* Between operations no pending vector is left that is enabled and unmasked,
\* unless the evaluation that came to it found bus mastering off.
MsiPendingIsBlocked ==
  \A v \in pending \cap Vectors :
    (scanning => v < start) /\ enabled /\ ~IsMasked(v) => v \in stranded

\* The message of a vector among the enabled ones carries the guest's data
\* above the low mme bits and the vector in them, also for an interrupt that
\* was pending while the guest changed either.
EnabledVectorData ==
  sent.kind # "none" /\ sent.vector < 2 ^ mme =>
    /\ \A b \in 0 .. DataBits - 1 : b >= mme => (b \in message <=> b \in data)
    /\ message \cap (0 .. mme - 1) = BitsOf(sent.vector)

=============================================================================
