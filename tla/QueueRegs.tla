----------------------------- MODULE QueueRegs -----------------------------
(***************************************************************************)
(* What the common configuration structure promises a driver: a bank of    *)
(* registers per virtqueue behind a select register, and the driver's      *)
(* feature pages behind another.  A write reaches the selected queue or    *)
(* page, nothing else.                                                     *)
(***************************************************************************)
CONSTANTS Queues, Pages

VARIABLES
  select,    \* the selected queue
  regs,      \* the registers of each queue
  page,      \* the selected feature page
  features   \* the driver's features, by page

queueRegsVars == <<select, regs, page, features>>

SelectQueue ==
  UNCHANGED <<regs, page, features>>

\* A write to a queue register changes the registers of the selected queue.
WriteSelected ==
  /\ \A q \in Queues : regs'[q] # regs[q] => q = select
  /\ UNCHANGED <<select, page, features>>

SelectPage ==
  UNCHANGED <<select, regs, features>>

WriteFeatures ==
  /\ \A p \in Pages : features'[p] # features[p] => p = page
  /\ UNCHANGED <<select, regs, page>>

QueueRegsNext == SelectQueue \/ WriteSelected \/ SelectPage \/ WriteFeatures

QueueRegsSpec == [][QueueRegsNext]_queueRegsVars

=============================================================================
