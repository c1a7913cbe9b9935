----------------------------- MODULE MsiProofs -----------------------------
(***************************************************************************)
(* Proofs about Msi, for every number of vectors and of mask and pending   *)
(* bits, with and without per-vector masking.                              *)
(***************************************************************************)
EXTENDS Msi, Integers, TLAPS, WellFoundedInduction

\* The number of bits is a natural number.
LEMMA BitCount == NumBits \in Nat
  BY NumBitsAssumption, Zenon

\* The number of vectors is a number.
LEMMA VectorCount == 2 ^ MultipleMessageCapable \in Int
  <1>1. MultipleMessageCapable \in Nat
    BY CapableAssumption
  <1>2. QED
    BY <1>1

\* The vectors are an initial segment of the numbers.
LEMMA VectorsBelow ==
  ASSUME NEW w \in Vectors, NEW v \in Nat, v <= w
  PROVE  v \in Vectors
  <1> DEFINE n == 2 ^ MultipleMessageCapable
  <1>1. n \in Int
    BY VectorCount
  <1>2. w \in 0 .. n - 1
    BY DEF Vectors
  <1> HIDE DEF n
  <1>3. v \in 0 .. n - 1
    BY <1>1, <1>2
  <1>4. QED
    BY <1>3 DEF n, Vectors

\* A message is generated for a vector of the function only.
LEMMA GeneratedVector ==
  ASSUME NEW v, Generation(v) = "Generated"
  PROVE  v \in Vectors
  BY DEF Generation

\* The outcomes of try_generate_message.
LEMMA Outcomes ==
  ASSUME NEW v
  PROVE  Generation(v) \in {"NotBusMaster", "MsiDisabled", "NotSupported", "Masked",
                            "Generated", "InvalidMsiVector"}
  BY DEF Generation

\* What try_generate_message does to the pending bits and the history keeps
\* their types; an evaluation comes to vectors of the function only.
LEMMA TryGenerateType ==
  ASSUME MsiTypeOK, NEW v \in Bits, NEW kind \in {"post", "release"},
         kind = "release" => v \in Vectors,
         TryGenerateMessage(v, kind)
  PROVE  /\ pending' \subseteq Bits /\ sent' \in Latch!Sends
         /\ message' \subseteq 0 .. DataBits - 1 /\ stranded' \subseteq Vectors
  <1>1. pending' \subseteq Bits
    BY DEF TryGenerateMessage, SetPendingBit, MsiTypeOK
  <1>2. sent' \in Latch!Sends
    BY GeneratedVector DEF TryGenerateMessage, Latch!Sends, Latch!NoSend
  <1>3. MessageData(v) \subseteq 0 .. DataBits - 1
    BY DEF MessageData, BitsOf, MsiTypeOK
  <1>4. message' \subseteq 0 .. DataBits - 1
    BY <1>3 DEF TryGenerateMessage
  <1>5. stranded' \subseteq Vectors
    BY DEF TryGenerateMessage, MsiTypeOK
  <1>6. QED
    BY <1>1, <1>2, <1>4, <1>5

\* The registers keep their types; the guest never enables more messages than
\* the function is capable of (on_write_config).
THEOREM MsiTypeCorrect == MsiSpec => []MsiTypeOK
  <1> USE BitCount, CapableAssumption
  <1>1. MsiInit => MsiTypeOK
    <2> SUFFICES ASSUME MsiInit PROVE MsiTypeOK
      OBVIOUS
    <2>1. start \in 0 .. NumBits /\ mme \in 0 .. MultipleMessageCapable
      BY DEF MsiInit
    <2>2. sent \in Latch!Sends
      BY DEF MsiInit, Latch!NoSend, Latch!Sends
    <2>3. QED
      BY <2>1, <2>2 DEF MsiInit, MsiTypeOK
  <1>2. ASSUME MsiTypeOK, [MsiNext]_msiVars
        PROVE  MsiTypeOK'
    <2> USE <1>2
    <2>1. ASSUME NEW v \in Bits, Signal(v)
          PROVE  MsiTypeOK'
      BY <2>1, TryGenerateType DEF Signal, registers, MsiTypeOK
    <2>2. ASSUME NEW bm \in BOOLEAN, WriteCommand(bm)
          PROVE  MsiTypeOK'
      BY <2>2 DEF WriteCommand, Write, NoMessage, MsiTypeOK, Latch!NoSend, Latch!Sends
    <2>3. ASSUME NEW en \in BOOLEAN, NEW e \in 0 .. 7, WriteControl(en, e)
          PROVE  MsiTypeOK'
      <3>1. mme' \in 0 .. MultipleMessageCapable
        BY <2>3 DEF WriteControl
      <3>2. scanning' \in BOOLEAN
        BY <2>3, MaskingAssumption DEF WriteControl
      <3>3. QED
        BY <2>3, <3>1, <3>2
        DEF WriteControl, Write, NoMessage, MsiTypeOK, Latch!NoSend, Latch!Sends
    <2>4. ASSUME NEW S \in SUBSET Bits, WriteMasks(S)
          PROVE  MsiTypeOK'
      BY <2>4 DEF WriteMasks, Write, NoMessage, MsiTypeOK, Latch!NoSend, Latch!Sends
    <2>5. ASSUME NEW S \in SUBSET (0 .. DataBits - 1), WriteData(S)
          PROVE  MsiTypeOK'
      BY <2>5 DEF WriteData, Write, NoMessage, MsiTypeOK, Latch!NoSend, Latch!Sends
    <2>6. CASE EvaluateDone
      <3>1. start' \in 0 .. NumBits
        BY <2>6 DEF EvaluateDone
      <3>2. sent' \in Latch!Sends /\ message' = {}
        BY <2>6 DEF EvaluateDone, NoMessage, Latch!NoSend, Latch!Sends
      <3>3. QED
        BY <2>6, <3>1, <3>2 DEF EvaluateDone, registers, MsiTypeOK
    <2>7. ASSUME NEW v \in Bits, EvaluateNext(v)
          PROVE  MsiTypeOK'
      <3>1. v \in Vectors
        BY <2>7 DEF EvaluateNext, NextPendingVector
      <3>2. v + 1 \in 0 .. NumBits
        BY DEF Bits
      <3>3. QED
        BY <2>7, <3>1, <3>2, TryGenerateType DEF EvaluateNext, registers, MsiTypeOK
    <2>8. CASE UNCHANGED msiVars
      BY <2>8 DEF msiVars, MsiTypeOK
    <2>9. QED
      BY <2>1, <2>2, <2>3, <2>4, <2>5, <2>6, <2>7, <2>8 DEF MsiNext
  <1>3. QED
    BY <1>1, <1>2, PTL DEF MsiSpec

-----------------------------------------------------------------------------
(***************************************************************************)
(* Refinement of MsiLatch.                                                 *)
(***************************************************************************)

\* An attempt to generate a message latches, sends or is quiet.
LEMMA MsiGenerationLatches ==
  ASSUME MsiTypeOK, NEW v \in Bits, NEW kind \in {"post", "release"},
         kind = "release" => v \in pending,
         TryGenerateMessage(v, kind)
  PROVE  Latch!LatchNext
  <1> DEFINE latch == pending \cap Vectors
  <1>1. CASE Generation(v) = "Masked" /\ v \in Vectors
    <2>1. Latch!Latch(v)
      BY <1>1 DEF TryGenerateMessage, SetPendingBit, Latch!Latch
    <2>2. QED
      BY <1>1, <2>1 DEF Latch!LatchNext
  <1>2. CASE Generation(v) = "Generated"
    <2>1. v \in Vectors
      BY <1>2, GeneratedVector
    <2>2. sent' = [kind |-> kind, vector |-> v] /\ pending' = pending \ {v}
      BY <1>2 DEF TryGenerateMessage, SetPendingBit
    <2>3. CASE kind = "post"
      <3>1. Latch!Post(v)
        BY <2>2, <2>3 DEF Latch!Post
      <3>2. QED
        BY <2>1, <3>1 DEF Latch!LatchNext
    <2>4. CASE kind = "release"
      <3>1. Latch!Release(v)
        BY <2>1, <2>2, <2>4 DEF Latch!Release
      <3>2. QED
        BY <2>1, <3>1 DEF Latch!LatchNext
    <2>5. QED
      BY <2>3, <2>4
  <1>3. CASE (Generation(v) = "Masked" /\ v \notin Vectors)
             \/ Generation(v) = "InvalidMsiVector"
    <2>1. Generation(v) = "InvalidMsiVector" => v \notin Vectors
      BY MaskingAssumption DEF Generation, IsMasked, MsiTypeOK
    <2>2. sent' = Latch!NoSend /\ latch' = latch
      BY <1>3, <2>1 DEF TryGenerateMessage, SetPendingBit
    <2>3. QED
      BY <2>2 DEF Latch!Quiet, Latch!LatchNext
  <1>4. CASE Generation(v) \in {"NotBusMaster", "MsiDisabled", "NotSupported"}
    BY <1>4 DEF TryGenerateMessage, SetPendingBit, Latch!Quiet, Latch!LatchNext
  <1>5. QED
    BY <1>1, <1>2, <1>3, <1>4, Outcomes

\* With the pending bits of its vectors as the latch, MSI implements MsiLatch,
\* whatever the guest writes to Message Control, masks and data meanwhile
\* (try_generate_message, evaluate_pending_interrupts).
THEOREM MsiLatchRefined == MsiSpec => MsiRefinesLatch
  <1>1. MsiInit => Latch!LatchInit
    BY DEF MsiInit, Latch!LatchInit
  <1>2. ASSUME MsiTypeOK, [MsiNext]_msiVars
        PROVE  [Latch!LatchNext]_(Latch!latchVars)
    <2> USE <1>2
    <2>1. ASSUME NEW v \in Bits, Signal(v)
          PROVE  Latch!LatchNext
      BY <2>1, MsiGenerationLatches DEF Signal
    <2>2. ASSUME NEW v \in Bits, EvaluateNext(v)
          PROVE  Latch!LatchNext
      <3>1. v \in pending
        BY <2>2 DEF EvaluateNext, NextPendingVector, Pending
      <3>2. QED
        BY <2>2, <3>1, MsiGenerationLatches DEF EvaluateNext
    <2>3. ASSUME Write \/ EvaluateDone
          PROVE  Latch!LatchNext
      BY <2>3 DEF Write, EvaluateDone, NoMessage, Latch!Quiet, Latch!LatchNext
    <2>4. CASE UNCHANGED msiVars
      BY <2>4 DEF msiVars, Latch!latchVars
    <2>5. QED
      BY <2>1, <2>2, <2>3, <2>4
      DEF MsiNext, WriteCommand, WriteControl, WriteMasks, WriteData
  <1>3. QED
    BY <1>1, <1>2, MsiTypeCorrect, PTL DEF MsiSpec, MsiRefinesLatch, Latch!LatchSpec

-----------------------------------------------------------------------------
(***************************************************************************)
(* No unblocked interrupt stays pending.                                   *)
(***************************************************************************)

\* Without per-vector masking there are no pending bits and no evaluation.
MaskingOnly == ~PerVectorMasking => pending = {} /\ ~scanning

\* A capability without per-vector masking never leaves an interrupt pending.
LEMMA MaskingOnlyInvariant == MsiSpec => []MaskingOnly
  <1>1. MsiInit => MaskingOnly
    BY DEF MsiInit, MaskingOnly
  <1>2. ASSUME MaskingOnly, [MsiNext]_msiVars
        PROVE  MaskingOnly'
    <2> SUFFICES ASSUME ~PerVectorMasking
                 PROVE  pending' = {} /\ ~scanning'
      BY DEF MaskingOnly
    <2>1. pending = {} /\ ~scanning
      BY <1>2 DEF MaskingOnly
    <2>2. ASSUME NEW v \in Bits, Signal(v)
          PROVE  pending' = {} /\ ~scanning'
      BY <2>1, <2>2 DEF Signal, TryGenerateMessage, SetPendingBit, Generation, IsMasked
    <2>3. ASSUME NEW en \in BOOLEAN, NEW e \in 0 .. 7, WriteControl(en, e)
          PROVE  pending' = {} /\ ~scanning'
      BY <2>1, <2>3 DEF WriteControl, Write
    <2>4. QED
      BY <1>2, <2>1, <2>2, <2>3
      DEF MsiNext, msiVars, WriteCommand, WriteMasks, WriteData, Write, EvaluateDone,
          EvaluateNext
  <1>3. QED
    BY <1>1, <1>2, PTL DEF MsiSpec

\* A set of natural numbers has a least one.
LEMMA LeastNatural ==
  ASSUME NEW S, S \subseteq Nat, S # {}
  PROVE  \E x \in S : \A y \in S : x <= y
  <1> DEFINE R == OpToRel(<, Nat)
  <1>1. IsWellFoundedOn(R, Nat)
    BY NatLessThanWellFounded
  <1>2. ASSUME NEW x \in Nat, NEW y \in Nat, y < x
        PROVE  <<y, x>> \in R
    <2>1. <<y, x>> \in Nat \X Nat /\ <<y, x>>[1] = y /\ <<y, x>>[2] = x
      OBVIOUS
    <2>2. QED
      BY <1>2, <2>1, Zenon DEF OpToRel
  <1> HIDE DEF R
  <1>3. PICK x \in S : \A y \in S : ~(<<y, x>> \in R)
    BY <1>1, WFMin, Zenon
  <1>4. \A y \in S : ~(y < x)
    BY <1>2, <1>3
  <1>5. QED
    BY <1>3, <1>4

\* The evaluation ends only when no vector is pending at or after its start,
\* although next_pending_vector gives up at a bit that is no vector's: such
\* bits lie behind all vectors.
LEMMA DoneMeansNone ==
  ASSUME MsiTypeOK, EvaluateDone
  PROVE  \A v \in pending \cap Vectors : v < start
  <1> SUFFICES ASSUME NEW w \in pending \cap Vectors, ~(w < start)
               PROVE  FALSE
    OBVIOUS
  <1>1. pending \subseteq Nat /\ start \in Nat
    BY BitCount DEF MsiTypeOK, Bits
  <1>2. w \in Nat /\ w >= start
    BY <1>1
  <1>3. Pending(start) \subseteq Nat /\ w \in Pending(start)
    BY <1>1, <1>2, Zenon DEF Pending
  <1>4. PICK v \in Pending(start) : \A x \in Pending(start) : v <= x
    BY <1>3, LeastNatural
  <1>5. v \in Nat /\ v <= w /\ v \in Bits
    BY <1>3, <1>4 DEF Pending, MsiTypeOK
  <1>6. v \in Vectors
    BY <1>5, VectorsBelow
  <1>7. NextPendingVector(start, v)
    BY <1>4, <1>6 DEF NextPendingVector
  <1>8. QED
    BY <1>5, <1>7 DEF EvaluateDone

\* An enabled and unmasked vector stays pending only if an evaluation met it
\* while bus mastering was off: whatever the guest unmasks or enables, and in
\* whatever order, leads to an evaluation that delivers what is pending
\* (on_write_config, evaluate_pending_interrupts).
THEOREM MsiPendingIsBlockedInvariant == MsiSpec => []MsiPendingIsBlocked
  <1> USE BitCount
  <1>1. MsiInit => MsiPendingIsBlocked
    BY DEF MsiInit, MsiPendingIsBlocked
  <1>2. ASSUME MsiTypeOK, MaskingOnly, MsiPendingIsBlocked, [MsiNext]_msiVars
        PROVE  MsiPendingIsBlocked'
    <2> USE <1>2
    <2>1. ASSUME NEW v \in Bits, Signal(v)
          PROVE  MsiPendingIsBlocked'
      <3> SUFFICES ASSUME NEW w \in pending' \cap Vectors, enabled', ~IsMasked(w)'
                   PROVE  w \in stranded'
        BY DEF MsiPendingIsBlocked
      <3>1. ~scanning /\ enabled /\ ~IsMasked(w)
        BY <2>1 DEF Signal, registers, IsMasked
      <3>2. w \in pending
        BY <2>1, <3>1 DEF Signal, TryGenerateMessage, SetPendingBit, Generation
      <3>3. w \in stranded
        BY <3>1, <3>2 DEF MsiPendingIsBlocked
      <3>4. Generation(v) = "Generated" => w # v
        BY <2>1 DEF Signal, TryGenerateMessage, SetPendingBit
      <3>5. QED
        BY <2>1, <3>3, <3>4 DEF Signal, TryGenerateMessage
    <2>2. ASSUME NEW bm \in BOOLEAN, WriteCommand(bm)
          PROVE  MsiPendingIsBlocked'
      BY <2>2 DEF WriteCommand, Write, MsiPendingIsBlocked, IsMasked
    <2>3. ASSUME NEW S \in SUBSET (0 .. DataBits - 1), WriteData(S)
          PROVE  MsiPendingIsBlocked'
      BY <2>3 DEF WriteData, Write, MsiPendingIsBlocked, IsMasked
    <2>4. ASSUME Write, scanning'
          PROVE  MsiPendingIsBlocked'
      <3>1. \A v \in pending' : ~(v < start')
        BY <2>4 DEF Write, MsiTypeOK, Bits
      <3>2. QED
        BY <2>4, <3>1 DEF MsiPendingIsBlocked
    <2>5. ASSUME NEW en \in BOOLEAN, NEW e \in 0 .. 7, WriteControl(en, e)
          PROVE  MsiPendingIsBlocked'
      <3>1. CASE en /\ PerVectorMasking
        BY <2>4, <2>5, <3>1 DEF WriteControl
      <3>2. CASE ~en
        BY <2>5, <3>2 DEF WriteControl, MsiPendingIsBlocked
      <3>3. CASE ~PerVectorMasking
        BY <2>5, <3>3 DEF WriteControl, Write, MaskingOnly, MsiPendingIsBlocked
      <3>4. QED
        BY <3>1, <3>2, <3>3
    <2>6. ASSUME NEW S \in SUBSET Bits, WriteMasks(S)
          PROVE  MsiPendingIsBlocked'
      BY <2>4, <2>6 DEF WriteMasks
    <2>7. CASE EvaluateDone
      BY <2>7, DoneMeansNone DEF EvaluateDone, registers, MsiPendingIsBlocked, IsMasked
    <2>8. ASSUME NEW v \in Bits, EvaluateNext(v)
          PROVE  MsiPendingIsBlocked'
      <3> SUFFICES ASSUME NEW w \in pending' \cap Vectors, w < start', enabled',
                          ~IsMasked(w)'
                   PROVE  w \in stranded'
        BY <2>8 DEF EvaluateNext, MsiPendingIsBlocked
      <3>1. enabled /\ ~IsMasked(w) /\ scanning /\ w < v + 1
        BY <2>8 DEF EvaluateNext, registers, IsMasked
      <3>2. w \in pending
        BY <2>8, <3>1 DEF EvaluateNext, TryGenerateMessage, SetPendingBit, Generation
      <3>3. Generation(v) = "Generated" => w # v
        BY <2>8 DEF EvaluateNext, TryGenerateMessage, SetPendingBit
      <3>4. CASE w < start
        <4>1. w \in stranded
          BY <3>1, <3>2, <3>4 DEF MsiPendingIsBlocked
        <4>2. QED
          BY <2>8, <3>3, <4>1 DEF EvaluateNext, TryGenerateMessage
      <3>5. CASE ~(w < start)
        <4>1. w = v
          BY <2>8, <3>1, <3>2, <3>5
          DEF EvaluateNext, NextPendingVector, Pending, MsiTypeOK, Bits
        <4>2. Generation(v) = "NotBusMaster"
          <5>1. PerVectorMasking
            BY <3>1 DEF MaskingOnly
          <5>2. QED
            BY <3>1, <3>3, <4>1, <5>1 DEF Generation
        <4>3. QED
          BY <2>8, <4>1, <4>2 DEF EvaluateNext, TryGenerateMessage
      <3>6. QED
        BY <3>4, <3>5
    <2>9. CASE UNCHANGED msiVars
      BY <2>9 DEF msiVars, MsiPendingIsBlocked, IsMasked
    <2>10. QED
      BY <2>1, <2>2, <2>3, <2>5, <2>6, <2>7, <2>8, <2>9 DEF MsiNext
  <1>3. QED
    BY <1>1, <1>2, MsiTypeCorrect, MaskingOnlyInvariant, PTL DEF MsiSpec

-----------------------------------------------------------------------------
(***************************************************************************)
(* The data of a message.                                                  *)
(***************************************************************************)

\* The powers of two of the message data's bits grow with the exponent.
LEMMA PowersGrow ==
  ASSUME NEW m \in 0 .. 5, NEW b \in 0 .. 15, m <= b
  PROVE  2 ^ m \in Nat /\ 2 ^ b \in Nat /\ 0 < 2 ^ m /\ 2 ^ m <= 2 ^ b
  <1> DEFINE pow == [x \in 0 .. 15 |-> 2 ^ x]
  <1>1. /\ 2 ^ 0 = 1 /\ 2 ^ 1 = 2 /\ 2 ^ 2 = 4 /\ 2 ^ 3 = 8 /\ 2 ^ 4 = 16
        /\ 2 ^ 5 = 32 /\ 2 ^ 6 = 64 /\ 2 ^ 7 = 128 /\ 2 ^ 8 = 256
        /\ 2 ^ 9 = 512 /\ 2 ^ 10 = 1024 /\ 2 ^ 11 = 2048 /\ 2 ^ 12 = 4096
        /\ 2 ^ 13 = 8192 /\ 2 ^ 14 = 16384 /\ 2 ^ 15 = 32768
    OBVIOUS
  <1>2. /\ pow[0] = 1 /\ pow[1] = 2 /\ pow[2] = 4 /\ pow[3] = 8 /\ pow[4] = 16
        /\ pow[5] = 32 /\ pow[6] = 64 /\ pow[7] = 128 /\ pow[8] = 256
        /\ pow[9] = 512 /\ pow[10] = 1024 /\ pow[11] = 2048 /\ pow[12] = 4096
        /\ pow[13] = 8192 /\ pow[14] = 16384 /\ pow[15] = 32768
    BY <1>1
  <1>3. m \in 0 .. 15
    OBVIOUS
  <1>4. pow[m] = 2 ^ m /\ pow[b] = 2 ^ b
    BY <1>3, Zenon
  <1> HIDE DEF pow
  <1>5. pow[m] \in Nat /\ pow[b] \in Nat /\ 0 < pow[m] /\ pow[m] <= pow[b]
    BY <1>2
  <1>6. QED
    BY <1>4, <1>5, Zenon

\* A vector below 2 ^ m has no bit of its number at m or above.
LEMMA BitsOfBelow ==
  ASSUME NEW m \in 0 .. 5, NEW v \in Nat, v < 2 ^ m
  PROVE  \A b \in BitsOf(v) : b < m
  <1> SUFFICES ASSUME NEW b \in 0 .. DataBits - 1, (v \div 2 ^ b) % 2 = 1, m <= b
               PROVE  FALSE
    BY DEF BitsOf
  <1> DEFINE p == 2 ^ b
             q == 2 ^ m
  <1>1. DataBits \in 0 .. 16
    BY DataBitsAssumption, Zenon
  <1>2. b \in 0 .. 15
    BY <1>1
  <1>3. p \in Nat /\ q \in Nat /\ 0 < q /\ q <= p
    BY <1>2, PowersGrow
  <1>4. v < q /\ (v \div p) % 2 = 1
    BY Zenon
  <1> HIDE DEF p, q
  <1>5. v \div p = 0
    BY <1>3, <1>4
  <1>6. QED
    BY <1>4, <1>5

\* The message of the last step is the one for the registers as they are: no
\* register changes in a step that sends one.
MessageInv ==
  sent.kind # "none" => sent.vector \in Nat /\ message = MessageData(sent.vector)

\* It holds, whatever the guest writes between messages.
LEMMA MessageInvariant == MsiSpec => []MessageInv
  <1> USE BitCount
  <1>1. MsiInit => MessageInv
    BY DEF MsiInit, MessageInv, Latch!NoSend
  <1>2. ASSUME MsiTypeOK, MessageInv, [MsiNext]_msiVars
        PROVE  MessageInv'
    <2>1. CASE NoMessage
      BY <2>1 DEF NoMessage, MessageInv, Latch!NoSend
    <2>2. ASSUME NEW v \in Bits, NEW kind, TryGenerateMessage(v, kind),
                 UNCHANGED registers
          PROVE  MessageInv'
      <3>1. data' = data /\ mme' = mme
        BY <2>2 DEF registers
      <3>2. v \in Nat
        BY DEF Bits
      <3>3. CASE Generation(v) = "Generated"
        <4>1. sent'.vector = v /\ message' = MessageData(v)
          BY <2>2, <3>3 DEF TryGenerateMessage
        <4>2. MessageData(v)' = MessageData(v)
          BY <3>1 DEF MessageData
        <4>3. QED
          BY <3>2, <4>1, <4>2 DEF MessageInv
      <3>4. CASE Generation(v) # "Generated"
        BY <2>2, <3>4 DEF TryGenerateMessage, MessageInv, Latch!NoSend
      <3>5. QED
        BY <3>3, <3>4
    <2>3. CASE UNCHANGED msiVars
      BY <1>2, <2>3 DEF msiVars, MessageInv, MessageData
    <2>4. QED
      BY <1>2, <2>1, <2>2, <2>3
      DEF MsiNext, Signal, WriteCommand, WriteControl, WriteMasks, WriteData, Write,
          EvaluateDone, EvaluateNext
  <1>3. QED
    BY <1>1, <1>2, MsiTypeCorrect, PTL DEF MsiSpec

\* The message of an enabled vector is the guest's data with the vector number
\* in its low mme bits (get_message_data_for), whatever changed before it was
\* sent.
THEOREM EnabledVectorDataInvariant == MsiSpec => []EnabledVectorData
  <1>1. ASSUME MsiTypeOK, MessageInv
        PROVE  EnabledVectorData
    <2> SUFFICES ASSUME sent.kind # "none", sent.vector < 2 ^ mme
                 PROVE  /\ \A b \in 0 .. DataBits - 1 :
                             b >= mme => (b \in message <=> b \in data)
                        /\ message \cap (0 .. mme - 1) = BitsOf(sent.vector)
      BY Zenon DEF EnabledVectorData
    <2> DEFINE v == sent.vector
    <2>1. v \in Nat /\ message = {b \in data : b >= mme} \cup BitsOf(v)
      BY <1>1 DEF MessageInv, MessageData
    <2>2. mme \in 0 .. 5 /\ data \subseteq 0 .. DataBits - 1
      BY <1>1, CapableAssumption DEF MsiTypeOK
    <2>3. \A b \in BitsOf(v) : b < mme
      BY <2>1, <2>2, BitsOfBelow
    <2>4. BitsOf(v) \subseteq 0 .. DataBits - 1
      BY DEF BitsOf
    <2>5. DataBits \in 0 .. 16
      BY DataBitsAssumption, Zenon
    <2> HIDE DEF v
    <2>6. QED
      BY <2>1, <2>2, <2>3, <2>4, <2>5 DEF v
  <1>2. QED
    BY <1>1, MsiTypeCorrect, MessageInvariant, PTL

=============================================================================
