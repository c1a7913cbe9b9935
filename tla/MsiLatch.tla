------------------------------ MODULE MsiLatch ------------------------------
(***************************************************************************)
(* What a message-signalled interrupt source promises, whatever its        *)
(* registers look like: an interrupt the device posts is either sent at    *)
(* once or latched, and a latched interrupt stays latched until a message  *)
(* for its vector is sent.  Interrupts of one vector coalesce.             *)
(*                                                                         *)
(* MsiX and Msi implement this specification with their pending bits as    *)
(* the latch.                                                              *)
(***************************************************************************)
EXTENDS Naturals

CONSTANT Vectors  \* the vectors of the source

VARIABLES
  latched,  \* the vectors with an interrupt accepted and not yet sent
  sent      \* the message sent by the last step, if it sent one

latchVars == <<latched, sent>>

\* Why a message left the function: the device posted it, or a latched
\* interrupt was released.
NoSend == [kind |-> "none", vector |-> 0]
Sends == [kind : {"none", "post", "release"}, vector : {0} \cup Vectors]

LatchInit ==
  /\ latched = {}
  /\ sent = NoSend

\* A message for v is sent; v is no longer latched.
Post(v) ==
  /\ sent' = [kind |-> "post", vector |-> v]
  /\ latched' = latched \ {v}

\* A message the device did not just ask for needs a latched interrupt.
Release(v) ==
  /\ v \in latched
  /\ sent' = [kind |-> "release", vector |-> v]
  /\ latched' = latched \ {v}

Latch(v) ==
  /\ sent' = NoSend
  /\ latched' = latched \cup {v}

\* Any other step: nothing is sent, and nothing is forgotten.
Quiet ==
  /\ sent' = NoSend
  /\ UNCHANGED latched

LatchNext ==
  \/ \E v \in Vectors : Post(v) \/ Release(v) \/ Latch(v)
  \/ Quiet

LatchSpec == LatchInit /\ [][LatchNext]_latchVars

=============================================================================
