------------------------------ MODULE VirtioIrq ------------------------------
(***************************************************************************)
(* The interrupts of a virtio PCI function: INTx (Intx) and MSI-X (MsiX)   *)
(* behind PciInterruptContext (greens-pci/src/interrupt.rs), driven by     *)
(* PciFunctionWithInterrupts (function.rs), and the virtio ISR status      *)
(* register whose read de-asserts INTx (greens-pci-virtio/src/pci.rs,      *)
(* pci_isr_cfg.rs).                                                        *)
(*                                                                         *)
(* The two mechanisms share the command register: one write sets the Bus   *)
(* Master bit and the Interrupt Disable bit together.                      *)
(***************************************************************************)
EXTENDS MsiX, Intx

VARIABLES
  op,       \* the last operation of the function
  result    \* ... and what it returned

irqVars == <<vars, intxVars, op, result>>

\* PciInterruptContext::active_interrupt, without an MSI capability.
ActiveInterrupt ==
  CASE enabled -> "MsiX"
    [] ~enabled /\ ~intxDisable -> "Intx"
    [] OTHER -> "NoInterrupt"

IrqInit ==
  /\ Init
  /\ IntxInit
  /\ op = "new" /\ result = "Ok"

-----------------------------------------------------------------------------
\* An operation the MSI-X capability has no part in.  None starts before the
\* evaluation of the previous one is over.
MsiXIdle == ~scanning /\ UNCHANGED vars

\* signal_interrupt(Msi(v)): a mismatch while INTx is the active interrupt.
SignalMsi(v) ==
  /\ op' = "signal"
  /\ CASE ActiveInterrupt = "MsiX" ->
            /\ Signal(v)
            /\ result' = IF Generation(v) \in {"Generated", "Masked"}
                           THEN "Ok" ELSE Generation(v)
       [] ActiveInterrupt = "Intx" -> MsiXIdle /\ result' = "InterruptTypeMismatch"
       [] OTHER -> MsiXIdle /\ result' = "Ok"
  /\ UNCHANGED intxVars

\* signal_interrupt(Intx(level)): a mismatch while MSI-X is active, and
\* silently accepted while no interrupt is enabled.
SignalLevel(high) ==
  /\ MsiXIdle
  /\ op' = "signal"
  /\ CASE ActiveInterrupt = "MsiX" ->
            /\ result' = "InterruptTypeMismatch"
            /\ UNCHANGED intxVars
       [] ActiveInterrupt = "Intx" ->
            /\ result' = "Ok"
            /\ SignalIntx(high)
       [] OTHER ->
            /\ result' = "Ok"
            /\ UNCHANGED intxVars

\* The read signals Low whatever interrupt is active.
ReadIsrUnconditional ==
  /\ MsiXIdle
  /\ op' = "readIsr"
  /\ CASE ActiveInterrupt = "MsiX" ->
            result' = "InterruptTypeMismatch" /\ UNCHANGED intxVars
       [] ActiveInterrupt = "Intx" ->
            result' = "Ok" /\ SignalIntx(FALSE)
       [] OTHER -> result' = "Ok" /\ UNCHANGED intxVars

\* The driver reads the ISR status register (the status byte, which the read
\* clears, is the device's own): the function signals Low when INTx is the
\* active interrupt.
ReadIsr ==
  /\ MsiXIdle
  /\ op' = "readIsr"
  /\ result' = "Ok"
  /\ IF ActiveInterrupt = "Intx"
       THEN SignalIntx(FALSE)
       ELSE UNCHANGED intxVars

\* Only the active mechanism hears of the write.
GuestWriteCommandActiveOnly(bm, dis) ==
  /\ WriteCommand(bm)
  /\ IF enabled
       THEN /\ intxDisable' = dis
            /\ UNCHANGED <<lineConfig, intxStatus, cached, lineReg, level, rerouted>>
       ELSE OnWriteCommand(dis)
  /\ op' = "write" /\ result' = "Ok"

\* The guest writes the command register: INTx reacts to the write, MSI-X
\* does not.
GuestWriteCommand(bm, dis) ==
  /\ WriteCommand(bm)
  /\ OnWriteCommand(dis)
  /\ op' = "write" /\ result' = "Ok"

WriteLine(l) ==
  /\ MsiXIdle
  /\ WriteInterruptLine(l)
  /\ op' = "write" /\ result' = "Ok"

GuestWriteControlWhenActive(en, fm) ==
  /\ IF enabled
       THEN WriteControl(en, fm)
       ELSE /\ ~scanning /\ enabled' = en /\ fnMasked' = fm
            /\ UNCHANGED <<busMaster, table, pba, scanning, start, sent, msixData, stranded>>
  /\ op' = "write" /\ result' = "Ok"
  /\ UNCHANGED intxVars

\* Writes to Message Control and to the table, which concern MSI-X alone.
GuestWriteControl(en, fm) ==
  /\ WriteControl(en, fm)
  /\ op' = "write" /\ result' = "Ok"
  /\ UNCHANGED intxVars

GuestWriteTable(i, n, vals) ==
  /\ WriteTable(i, n, vals)
  /\ op' = "write" /\ result' = "Ok"
  /\ UNCHANGED intxVars

EvaluatePending ==
  /\ Evaluate
  /\ UNCHANGED <<intxVars, op, result>>

IrqNext ==
  \/ \E v \in Signals : SignalMsi(v)
  \/ \E high \in BOOLEAN : SignalLevel(high)
  \/ ReadIsr
  \/ \E bm, dis \in BOOLEAN : GuestWriteCommand(bm, dis)
  \/ \E l \in Lines : WriteLine(l)
  \/ \E en, fm \in BOOLEAN : GuestWriteControl(en, fm)
  \/ \E i \in TableIndex : \E vals \in [{0} -> Dwords] : GuestWriteTable(i, 1, vals)
  \/ EvaluatePending

IrqSpec == IrqInit /\ [][IrqNext]_irqVars

-----------------------------------------------------------------------------
\* MSI-X keeps its promise behind PciInterruptContext, whatever mechanism the
\* guest has made the active one when it writes: no deliverable vector is left
\* pending.  (LineFollowsStatus is the promise of INTx.)
MsiXStaysSound == PendingIsBlocked

\* Reading the ISR status register never fails, whatever interrupt is active,
\* and with INTx active it leaves every line down and the status bit clear:
\* SignalIntx moves the line only when the status bit changes, so this needs
\* the line never to be up with the status bit clear.
IsrReadLeavesIntxLow ==
  op = "readIsr" =>
    /\ result = "Ok"
    /\ ActiveInterrupt = "Intx" /\ ~rerouted =>
         ~intxStatus /\ \A l \in Lines : ~level[l]

=============================================================================
