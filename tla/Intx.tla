-------------------------------- MODULE Intx --------------------------------
(***************************************************************************)
(* Legacy INTx interrupts of a PCI function (greens-pci/src/intx.rs), with *)
(* the guard PciFunctionWithInterrupts::signal_interrupt puts before them. *)
(*                                                                         *)
(* The level of an interrupt line lives in the interrupt controller; the   *)
(* function keeps the Interrupt Status bit, the Interrupt Disable bit the  *)
(* guest writes, and a cached copy of the latter from which it decides     *)
(* whether a command write has to move the line.                           *)
(***************************************************************************)

EXTENDS Naturals

CONSTANTS
  Lines,       \* interrupt lines of the controller
  Register     \* PciInterruptLineConfig::Register

ASSUME LinesAssumption == 0 \in Lines /\ Lines \subseteq Nat
ASSUME RegisterAssumption == Register \notin Lines

VARIABLES
  lineConfig,   \* PciIntx.line_config: Register, or the function's fixed line
  intxDisable,  \* Interrupt Disable bit of the command register
  intxStatus,   \* Interrupt Status bit of the status register
  cached,       \* PciIntx.disabled
  lineReg,      \* Interrupt Line register
  level,        \* the controller's line levels, TRUE for High
  rerouted      \* history: Interrupt Line was rewritten under an asserted line

intxVars ==
  <<lineConfig, intxDisable, intxStatus, cached, lineReg, level, rerouted>>

\* interrupt_line
InterruptLine == IF lineConfig = Register THEN lineReg ELSE lineConfig

SetInterrupt(high) == level' = [level EXCEPT ![InterruptLine] = high]

\* The Interrupt Disable bit is clear after reset, yet the cached copy starts
\* out TRUE.
IntxInit ==
  /\ lineConfig \in Lines \cup {Register}
  /\ intxDisable = FALSE
  /\ intxStatus = FALSE
  /\ cached = TRUE
  /\ lineReg = 0
  /\ level = [l \in Lines |-> FALSE]
  /\ rerouted = FALSE

-----------------------------------------------------------------------------
\* signal_intx: the status bit follows the level, and the line does when the
\* status changed and interrupts are enabled.
SignalIntx(high) ==
  /\ intxStatus' = high
  /\ IF ~intxDisable /\ intxStatus # high
       THEN SetInterrupt(high) ELSE UNCHANGED level
  /\ UNCHANGED <<lineConfig, intxDisable, cached, lineReg, rerouted>>

\* The device signals a level.  signal_interrupt drops it, status bit and all,
\* while INTx is disabled.
SignalInterrupt(high) ==
  IF intxDisable THEN UNCHANGED intxVars ELSE SignalIntx(high)

\* A write of the command register, and on_write_config: the cached copy only
\* follows the register while an interrupt is pending.
OnWriteCommand(dis) ==
  /\ intxDisable' = dis
  /\ IF dis # cached /\ intxStatus
       THEN cached' = dis /\ SetInterrupt(~dis)
       ELSE UNCHANGED <<cached, level>>
  /\ UNCHANGED <<lineConfig, intxStatus, lineReg, rerouted>>

\* A write of the Interrupt Line register, which nothing reacts to.
WriteInterruptLine(l) ==
  /\ lineReg' = l
  /\ rerouted' = (rerouted \/ (lineConfig = Register /\ l # lineReg /\ intxStatus))
  /\ UNCHANGED <<lineConfig, intxDisable, intxStatus, cached, level>>

IntxNext ==
  \/ \E high \in BOOLEAN : SignalInterrupt(high)
  \/ \E dis \in BOOLEAN : OnWriteCommand(dis)
  \/ \E l \in Lines : WriteInterruptLine(l)

IntxSpec == IntxInit /\ [][IntxNext]_intxVars

-----------------------------------------------------------------------------
\* The registers and the lines keep their types.
IntxTypeOK ==
  /\ lineConfig \in Lines \cup {Register}
  /\ intxDisable \in BOOLEAN /\ intxStatus \in BOOLEAN /\ cached \in BOOLEAN
  /\ lineReg \in Lines
  /\ level \in [Lines -> BOOLEAN]
  /\ rerouted \in BOOLEAN

\* A line is asserted only while the status bit is set, and a pending
\* interrupt whose line is down was forced down by a disable that is still in
\* force and that the cached copy remembers, so that the next enable raises
\* the line again: although the cached copy is stale most of the time, no
\* sequence of signals and command writes loses an enabled interrupt or leaves
\* the line up without one.  A guest that rewrites the Interrupt Line register
\* under a pending interrupt is on its own.
LineFollowsStatus ==
  ~rerouted =>
    /\ \A l \in Lines : level[l] => intxStatus /\ l = InterruptLine
    /\ intxStatus /\ ~level[InterruptLine] => intxDisable /\ cached

\* "Disabled. Force INTx low.": no line is up while INTx is disabled.
DisabledLineLow == intxDisable => \A l \in Lines : ~level[l]

=============================================================================
