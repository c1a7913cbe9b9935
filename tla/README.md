# A TLA+ model of greens

greens is a set of Rust crates for device models that run beside a virtual
machine monitor on seL4: a PCI function library (`greens-pci`), virtio over PCI
(`greens-pci-virtio`), the seL4 I/O interface (`greens-sel4`) and one complete
program, a vhost-net device model (`greens-sel4-pci-vhost-net`). This directory
models the parts that carry state through sequences of guest accesses, checks
them with TLC and proves every safety property the runs check with TLAPS, for all
values of the constants.

To check a run: `tlc -config MCMsiX.cfg MCMsiX` (and so on). To check proofs:
`tlapm VirtioIrqProofs.tla`. `PROJECT.json` lists the runs, the source lines behind
every definition, a mutation of the code for every property, the hazards the
properties are aimed at and the disagreements found between code and comments.

## 1. The system

The program is one process with one loop. A vCPU of the guest that accesses the
device's configuration space or its BAR stops; the hypervisor puts a request
into a queue in shared memory and wakes the loop. The loop takes the request,
calls the PCI function, and puts the answer back. Interrupts leave the process
through the hypervisor (`set_interrupt`, `send_msi`) or, once the device is
active, directly from the kernel's vhost backend through irqfds;
notifications go from the guest to the backend through ioeventfds.

| Component | State | Operations | Interacts with |
|---|---|---|---|
| Start (`main.rs`, `io_interface_config.rs`, `guest_memory.rs`, `tap.rs`) | mappings and file descriptors | read the configuration of this machine, map, open, build | kernel; hands over to the loop |
| Request loop (`device_model.rs`, `io_interface.rs`, `rpc.rs`) | started or not, the request in hand; the queue and the wakeups are the kernel's | `signal_ready`, `wait_io`, dequeue, handle, complete | vCPUs, kernel; calls the PCI function |
| Configuration space (`configuration_space.rs`, `capability.rs`, `utils/register_block.rs`) | registers, writable bits, the size of the last capability; the capability list is in the registers | `add_capability`, `update_capability`, `add_writable_bits`, config writes | the guest and every capability |
| Base Address Registers (`configuration_space.rs`, `bar.rs`) | BARs and their registers, space bits | `add_bar`, BAR and command writes, `get_bar` | reports `Bar` and `SpaceChanged` events to the function |
| INTx (`intx.rs`) | Interrupt Disable and Status bits, a cached disable bit, the line | level signal, command write, Interrupt Line write | interrupt controller |
| MSI (`msi.rs`) | enable, Multiple Message Enable, data, mask and pending bits | signal, register writes, evaluation of pending bits | `send_msi` |
| MSI-X (`msix.rs`) | enable, Function Mask, table, pending bit array | signal, control write, table write, evaluation | `send_msi`; tells the device the message of each vector |
| Dispatch (`interrupt.rs`, `function.rs`) | none of its own | `signal_interrupt`, config and BAR writes offered to the mechanisms | INTx, MSI, MSI-X |
| Virtio ISR (`pci_isr_cfg.rs`, `pci.rs`) | the ISR byte of the device | read | de-asserts INTx |
| Virtio common configuration (`pci_common_cfg.rs`) | shadow register block, the device's queue select, queues and features | register writes and reads | the virtio device |
| Notify region (`pci_notify_cfg.rs`) | none of its own | tells the device its address on BAR events, `queue_notify` | configuration space, device |
| vhost-net device (`vhost_net.rs`) | notify address, message data, queue vectors, eventfds | activate, reset, `queue_notify`, set vector or message | hypervisor bindings, kernel backend |
| Configuration access window (`pci_cfg_cap.rs`) | the selection and a data register in configuration space | `prepare_read`, `process_write` | configuration space before it, the BAR behind it |
| BAR regions (`bar_region.rs`, `pci_cap.rs`), function addressing (`device.rs`), range helpers (`utils/mod.rs`) | constant layouts | which structure handles an access | BARs, every structure |

What is hard here is not parallelism inside the process, there is none, but
*order*: the guest writes registers in any order, most of them are remembered
in two places (a register and a cached copy, a shadow block and the device, a
table and an irqfd), and an interrupt must survive every path between the
moment it is raised and the moment it may be delivered. Around the process
there is real concurrency: several vCPUs post requests while one is being
handled, and every call to the kernel may fail.

What makes each component correct:

- *MSI, MSI-X*: an accepted interrupt is sent or stays pending, is never
  invented, and is delivered as soon as a register write unblocks it; the
  message data the device was told is current.
- *INTx*: the line and the status bit stay in step; no pending interrupt is
  lost over a disable and enable.
- *Dispatch*: the mechanism that is not active still follows the registers it
  shares with the active one.
- *Common configuration*: a write reaches the queue the driver selected.
- *BARs*: no register serves two BARs, the size probe reads as the size, no
  access is taken for a BAR that is being sized, the device hears of every
  address that is decoded.
- *Configuration space*: the list the guest walks is the list that was added,
  capabilities do not overlap, what is read-only stays as it is.
- *BAR regions, access window*: an access reaches the structure that is
  advertised there; the window makes the access that is selected and never
  answers with old data; the ISR status is not lost on the way.
- *Notify region, vhost-net*: the device always knows where its notify region
  is; a notification reaches the backend, and the backend's interrupt the vector
  the driver chose.
- *Start*: the guest runs only when everything is set up, over its own memory.
- *Request loop*: every request is answered once, with its own answer, and
  no vCPU is left behind in the queue.

## 2. Modules

`M <- N` reads "M uses N". Every module `MCx` only extends its specification:
all parameters are constants with values in the `.cfg`.

| Module | Models | State and actions |
|---|---|---|
| `MsiLatch` | the promise of a message-signalled interrupt source | latched vectors, the message of the last step; post, release, latch |
| `MsiX <- MsiLatch` | `msix.rs`, `try_generate_message` and `handle_msi` of `msi.rs` | registers, table as dwords, pending bits as a set. `Signal`, `WriteCommand`, `WriteControl`, `WriteTable` are the entry points. `evaluate_pending_interrupts` is one `EvaluateNext` step per turn of its loop and `EvaluateDone`; no entry point runs meanwhile, because each borrows the function exclusively |
| `Msi <- MsiLatch`, `MsiProofs` | `msi.rs` | the same shape, with Multiple Message Enable and the message data as a set of bits |
| `Intx` | `intx.rs` | the two bits, the cached disable bit, the levels of the controller's lines |
| `VirtioIrq <- MsiX, Intx`, `VirtioIrqProofs` | `interrupt.rs`, `function.rs`, the ISR read of `pci.rs` | extends both and composes them through the shared command register; its actions (`GuestWriteCommand`, `GuestWriteControl`, `GuestWriteTable`, `EvaluatePending` ...) are conjunctions of the components' actions. The proofs about `MsiX` and `Intx` alone are in the same proof module, because those about the composition rest on them |
| `PciBars`, `PciBarsProofs` | the BARs in `configuration_space.rs` and `bar.rs`, the events and the search of `function.rs` | the BARs and their registers, the space bits and which of them are writable, the address the device heard of last. `AddBar` until `Build`; `WriteBar` and `WriteCommand` afterwards. Addresses are counted in units of the smallest BAR |
| `RegisterBlock` | `register_block.rs` | operators: `Set` for the device, `Write` through a mask for the guest, over bytes as sets of bits |
| `ConfigSpace <- RegisterBlock`, `ConfigSpaceProofs` | `configuration_space.rs`, `capability.rs` | the two register arrays and `last_cap_size`. An operation on the list is a call (`AddCapability`, `UpdateCapability`), one step for every turn of the iterator, and its end; the guest writes between operations, not within one |
| `VirtioWindow <- PciBars`, `VirtioWindowProofs` | `pci_cfg_cap.rs`, `bar_region.rs`, `pci_cap.rs`, the accesses of `pci.rs`, `function.rs` and `device.rs` | the selection, the data register, the ISR byte, the BAR register and the Memory Space bit; the access to a BAR that the last step made. The decoding is that of `PciBars`, instantiated with the one BAR of the virtio function |
| `VhostNet`, `VhostNetProofs` | BAR decoding and its events, notify region, `vhost_net.rs` | BAR, Memory Space bit, notify info, vectors, eventfds and bindings of both kinds; eventfds are numbered in the order they are created |
| `QueueRegs` | the promise of the common configuration structure | banked registers behind a select |
| `VirtioCommonCfg <- QueueRegs`, `VirtioCommonCfgProofs` | `pci_common_cfg.rs` | the three shadow registers that outlive a write, the device's registers, the select registers no access has reached over; every write goes through `WriteRegisters`, which pads it to 8 bytes as the code does |
| `IoLoop`, `IoLoopProofs` | `main.rs`, `io_interface_config.rs`, `device_model.rs`, `io_interface.rs`, `rpc.rs` | what the start has acquired, step by step; then the turn of the loop as a program counter, one action per call with one more for its failure; queue, wakeups and vCPUs as environment |

Abstractions. Table dwords carry only what the code looks at: zero, nonzero and
the parity (the mask bit). Addresses of messages are dwords like any other.
`stranded`, `rerouted`, `sent`, `message`, `torn`, `ones`, `kicked`, `rewritten`,
`added`, `overrun`, `access`, `last`, `op`, `result` and `selected` record what
happened and influence no guard, except `selected`, which limits the driver when
`Disciplined` is set, `added`, from which a caller of `update_capability` has its
offset, and `overrun`, after which no list is walked. Logging is left out.
Failed `expect`s, panics and returned errors are outcomes with names.

## 3. Runs

### Passing

- **`msix`** (2 vectors, one PBA entry of 3 bits, dwords {0, 1}). One vector
  number outside the table and one pending bit without a vector are in range,
  so the error paths of `set_pending_bit` and `get_message_for` occur; two
  vectors are needed for one to be passed over while the other is delivered; a
  table write may start in one entry and run into the next.
  `RefinesLatch`: the pending bits implement `MsiLatch`. `PendingIsBlocked`:
  all three registers that unblock a vector lead to an evaluation of all pending
  bits. `DeviceDataCurrent`: the data used for irqfds is the table's. `EvaluationEnds`: the loop terminates
  though it leaves vectors pending.
- **`msi`** (2 vectors, 3 mask and pending bits, 2 data bits, per-vector
  masking). Multiple Message Enable ranges over all eight encodings.
  `MsiRefinesLatch`, `MsiPendingIsBlocked` as above; `EnabledVectorData`: a
  message carries the data that holds when it is sent, also when the interrupt
  was pending while the guest rewrote data or Multiple Message Enable.
- **`virtio_irq`** (one vector, 2 lines, fixed or taken from the Interrupt Line
  register). The guest switches between the mechanisms while interrupts are
  pending. `LineFollowsStatus`: a line is up only with the status bit, and a
  pending interrupt whose line is down was forced down by a disable that the
  cached copy remembers, so that the next enable raises it again.
  `MsiXStaysSound`: no deliverable vector is left pending while INTx was active.
  `IsrReadLeavesIntxLow`: the read never fails and, with INTx active, leaves the
  lines low.
- **`bars`** (3 registers of two bits, every type, size and preset address).
  Three registers are the fewest in which a 64-bit BAR can have neighbours on
  both sides; two bits give a 64-bit BAR sizes below, at and above what one
  register holds. A write of part of a register is covered, since every value
  that may result is written. `BarsDisjoint`: whatever the order of `add_bar`.
  `SizeProbe`: what the driver computes from a probe is the size, over both
  halves. `SizingUnreachable`: although `get_bar` recognises a probe only in the
  lower 32 bits, no access finds a 64-bit BAR that is being sized, because the
  end of its range overflows. `KnownCurrent`: in whatever order the guest writes
  halves of BARs and space bits, the device knows every address that is decoded;
  while only the lower half of a 64-bit BAR was written, nothing is promised.
- **`vhost_net`** (2 queues, 2 addresses, 2 vectors, two activations). The guest
  writes BAR and Memory Space bit in any order with sizing probes between;
  moves the BAR after activation; resets the device and activates it again over
  the bindings of the first activation, which nothing takes back.
  `NotifyInfoCurrent`, `NotificationInfoSet`:
  the `expect("notification info not set")` cannot fail.
  `NotifyReachesBackend`: in the first activation, through the ioeventfd or
  through `queue_notify`, the backend's eventfd is hit; the driver may write
  notification data beside the
  index, which only the ioeventfd takes. After a second activation it may
  be an eventfd of the first, but never one of another queue
  (`NotifyStaysInQueue`). `InterruptReachesDriver`: the call
  eventfd of a queue raises what the MSI-X table held for the queue's vector, and
  nothing else, in whatever order vectors and table were written. Deadlock is
  not checked: a failed `expect` ends the process.
- **`common_cfg`** (2 queues and one select beyond them, one ring, values
  {0, 1}). `RefinesQueueRegs`, for a driver that selects its queue and its
  feature page again after an access that reached over the select register, as
  Linux does before it sets up a queue. Writes have their register's width or are
  wider, with any value in what they reach over (`Wide`); reads and writes at the
  offset of no register clear what they cover. A queue is reset only after a
  wide write to the register before QueueReset: the write to QueueReset itself
  leaves the block and is lost. One ring is enough: the three differ only in
  offset, and no padded write of a ring reaches a shadow register that is kept.
- **`config_space`** (18 registers of 5 bits, 13 of them for capabilities; three
  capabilities of 1 to 3 bytes, two of which share an identity). The area holds
  two or three of them, so that they fill it, fail to fit, or are updated by one
  that is smaller, larger or of another identity; five bits are what a pointer
  into 18 registers needs. Accesses of every size at every offset.
  `WalkFaithful`: a walk returns exactly what was added, also after a failed
  `add_capability`. `CapabilitiesDisjoint`, `ReadOnlyKept`, and, with fairness,
  `WalkEnds`. Nothing is promised after an update larger than the capability.
- **`virtio_window`** (a BAR of 64 bytes with the structures 8 bytes apart; the
  selections include the ISR byte, the last byte of the BAR, a BAR that does not
  exist and a length that is too large; the accesses include ones across a seam,
  at the data register, into its middle and to another function).
  `ReachesAdvertised`: an access is handled by the structure that the
  capabilities advertise for its bytes. `WindowIsSelected`: the window's access
  is the selected one, wherever the BAR is. `FreshOrOnes`: no read of the data
  register returns what an earlier access left there. `IsrDelivered`: the ISR
  byte is cleared only by a read that asks for it, and arrives.
- **`io_loop`** (3 vCPUs; four kernel command lines, with a machine described
  twice, not at all, another one's parameter that does not parse, and one that
  only looks like ours). Every call and every step of the start may fail. Nothing
  in the repository says how the kernel counts wakeups, so it may merge the one
  for a request with those it has (up to `MaxWakeups`), and may return from a
  wait early; the latter ends the loop when the queue is empty.
  `GuestStartsComplete`: the guest runs only over its own memory and a complete
  device model. `RequestsTracked`, `AnswersFit` and, with fairness,
  `RequestsAnswered`: a request is answered unless the loop ends, or is `Blocked`
  for good, with requests queued whose wakeups the kernel merged.
  Deadlock is not checked: the loop ends at its first error.

### Disagreements between code and comments

Each of these runs checks one property taken from a comment or a test, and TLC
finds it violated; `PROJECT.json` ("findings") quotes the lines.

- **`intx_force_low`**: the first disable after an interrupt leaves the line up,
  because the cached copy starts out as disabled.
- **`msix_two_entries`** (3 vectors, 2 PBA entries of 2 bits):
  `find_pending_vector` applies the mask of its start's bit to every entry, so
  that an evaluation passes over a pending vector beyond the first entry.
  `FindsNextPending` is what the comment "clear previous bits" and the test of
  the function say; the test's vectors do not show the difference. It takes more
  than 64 vectors.
- **`common_cfg_select`** (every write of its register's width): a write to the
  device status or the configuration vector clears the shadow queue select, and later queue writes go to queue 0.

Observed while modelling, with no run of their own:

- MSI-X: turning Bus Master on evaluates nothing, so interrupts an
  evaluation met without it wait for the next control write (the history
  variable `stranded` excepts exactly these). `build` lets the guest turn bus
  mastering on before `add_capability` can fail (`msix.rs:63`).
- MSI: without per-vector masking `set_pending_bit` fails even to clear a bit, so
  that a capability of that kind generates no message at all (`msi.rs:422`); a
  message for a vector beyond the enabled ones changes data bits above Multiple
  Message Enable (`msi.rs:380`).
- INTx: an ISR read after the guest enabled MSI-X leaves a line up that was
  raised before (`pci.rs:113`); a level signalled while INTx is disabled is
  accepted and dropped (`function.rs:252`).
- BARs: the Bar event of a 64-bit BAR waits for its upper half, so that a guest
  which writes the upper half first leaves the device with an old address
  (`configuration_space.rs:315`).
- Capabilities: `update_capability` does not compare sizes, and a larger
  capability runs over the next one's header (`configuration_space.rs:277`;
  nothing outside the tests calls it).
- Window: `read_config` makes the access to the BAR before configuration space
  validates it, so a read that is refused, or that starts behind the first byte
  of the data register, clears the ISR status unseen (`pci.rs:295`).
- vhost-net: the irqfd keeps the message of the activation when the driver moves
  the interrupt later (`vhost_net.rs:293`); `queue_notify` takes the whole 32-bit
  value as the index of a queue, notification data included (`vhost_net.rs:71`).
  After a reset and a second activation that index finds the eventfds of the
  first, since `activate` appends and `reset` clears nothing. This needs a
  kernel that accepts `set_vring_num` and `set_vring_base` for a ring whose
  backend nothing took away; otherwise an `unwrap` ends the process first
  (`vhost_net.rs:302`, `:306`).
- Request loop: `wait_io` goes to the kernel without a look at the queue, which the
  FIXME there asks for (`io_interface.rs:213`). Two vCPUs that stop at once
  suffice to make the loop wait with a request queued; a kernel that counts
  wakeups then wakes it again, one that merges them leaves the second vCPU stopped
  until another request comes. `RequestsAnswered` excepts just this state
  (`Blocked`) and fails without the exception.
- Start: a parameter whose name only begins with `uservm`, or another machine's
  that does not parse, keeps this machine from starting
  (`io_interface_config.rs:71`).
- `access_data_window` (`utils/mod.rs:226`) takes the excess over the
  capability's end for the end of the window when it truncates on the right;
  nothing outside its tests calls it.

### Bounds

`MaxActivations` bounds the activations and `MaxWakeups` the wakeups the kernel
remembers (the kernel may merge them anyway). All other state is finite for
finite constants: interrupts of a vector coalesce in a bit, and a vCPU has one
request outstanding, so the queue is bounded by the number of vCPUs; the device specific area bounds the capability list. The safety
properties are proved for all values (section 4), so that the bounds matter for
the three liveness properties only; the runs stay, because a mutation of the code
shows in them at once.

### Fairness

- `WF(Evaluate)` in `MsiX`: the evaluation is a loop within one handler and
  nothing else runs before it ends. The code needs no scheduler for it.
- `WF(Walk)` in `ConfigSpace`: the walk of the list is a loop within one call.
- `WF(Progress)` in `IoLoop`: the loop is a thread of its own, and
  `SEL4_WAIT_IO` returns once there is a wakeup. `Progress` is the loop with
  every call succeeding; the failing calls are steps of the specification
  without fairness, as is a wait that returns early, and `RequestsAnswered` grants
  that the loop ended. Nothing is assumed about the number of wakeups: a turn
  waits before it looks at the queue (the FIXME at `io_interface.rs:213`), and a
  loop without a wakeup may wait for good.

## 4. Proofs

All theorems hold for every value of the constants that the named assumptions
of the module admit.

| Theorem | States | Argument |
|---|---|---|
| `VirtioIrqProofs!TypeCorrect` | `Spec => []TypeOK` | inductive as it stands; the point is that no bit is pending outside the table, since only a vector of the table can be masked (`PendingBitsType`) |
| `VirtioIrqProofs!LatchRefined` | `Spec => RefinesLatch` | every step maps to a step of `MsiLatch` under `TypeOK`; the heart is `GenerationLatches`, one case per outcome of `try_generate_message` |
| `VirtioIrqProofs!DeviceDataInvariant` | `Spec => []DeviceDataCurrent` | a write that covers an entry's data starts in that entry, before its vector control (`DataWritten`): it holds because writes are at most two dwords |
| `VirtioIrqProofs!PendingIsBlockedInvariant` | `NumPba = 1 => (Spec => []PendingIsBlocked)` | inductive together with `TypeOK`, thanks to the clause about the vectors the loop has passed; needs `OneEntrySearch`: with one entry, of any width, the code's mask is the mask that is meant |
| `MsiProofs!MsiTypeCorrect`, `MsiLatchRefined` | `MsiSpec => []MsiTypeOK`, `MsiSpec => MsiRefinesLatch` | as for MSI-X; here a bit may be pending that is no vector's, and the latch leaves it out |
| `MsiProofs!MsiPendingIsBlockedInvariant` | `MsiSpec => []MsiPendingIsBlocked` | inductive with `MaskingOnly` (nothing is pending without per-vector masking); `DoneMeansNone`: the scan gives up at the first bit that is no vector's, and misses nothing because such bits lie behind all vectors |
| `MsiProofs!EnabledVectorDataInvariant` | `MsiSpec => []EnabledVectorData` | the invariant `MessageInv` (a step that sends changes no register), and that a number below `2 ^ m` has no bit from `m` on (`BitsOfBelow`), for the powers of two of a 16-bit register |
| `VirtioIrqProofs!LineFollowsStatusInvariant` | `IntxSpec => []LineFollowsStatus` | inductive with `IntxTypeOK`; the conjunct on the cached copy is the strengthening that makes "no interrupt is lost" inductive |
| `VirtioIrqProofs!IrqImplementsMsiX`, `IrqImplementsIntx` | `IrqSpec => Spec`, `IrqSpec => IntxSpec` | every step of the function is a step or a stutter of each mechanism: the shared command register is written for both, and a signal goes to one of them |
| `VirtioIrqProofs!MsiXStaysSoundInvariant`, `IrqLineFollowsStatus` | `IrqSpec => []LineFollowsStatus`, and with `NumPba = 1`, `IrqSpec => []MsiXStaysSound` | from the component's theorem and the implementation |
| `VirtioIrqProofs!IsrReadInvariant` | `IrqSpec => []IsrReadLeavesIntxLow` | `LineFollowsStatus` before the read: a line that is up has the status bit, so the read finds a change to make |
| `VirtioCommonCfgProofs!QueueRegsRefined` | `Disciplined => (CfgSpec => RefinesQueueRegs)` | the invariant `ShadowInv`: until an access reaches over them, the shadow selects are the ones the driver wrote last; `common_cfg_select` shows that the hypothesis cannot go |
| `PciBarsProofs!BarsDisjointInvariant` | `BarsSpec => []BarsDisjoint` | inductive together with the types of the BARs (`BarTypesInvariant`); the one step that matters is `AddBarDisjoint` |
| `PciBarsProofs!KnownCurrentInvariant` | `BarsSpec => []KnownCurrent` | needs `BarsDisjoint`, so that a write moves one BAR (`OtherBarsStay`), and that nothing is decoded while the function is built |
| `PciBarsProofs!SizeProbeInvariant`, `SizingUnreachableInvariant` | `BarsSpec => []SizeProbe`, `BarsSpec => []SizingUnreachable` | the invariant `OnesInv`: a register that was last written with ones holds what the masks leave of them, also after writes to every other register; then arithmetic, one case each for a size within one register and beyond (`OnesAboveSize`, `OnesBelowSize`) |
| `ConfigSpaceProofs!ConfigTypeCorrect`, `CapabilitiesDisjointInvariant`, `WalkFaithfulInvariant`, `ReadOnlyKeptInvariant` | `ConfigSpec => []P` for the run's four invariants | one inductive invariant, `ConfigInv`, see below |
| `VirtioWindowProofs!WindowTypeCorrect`, `WindowIsSelectedInvariant`, `FreshOrOnesInvariant`, `ReachesAdvertisedInvariant` | `WindowSpec => []P` for the run's four invariants | the invariant `AccessInv`, see below |
| `VirtioWindowProofs!IsrDeliveredTheorem` | `WindowSpec => IsrDelivered` | step by step: of all accesses only a read handled by the ISR region clears the byte, and its reply is that byte |
| `VhostNetProofs!NotifyInfoInvariant` | `Spec => []NotifyInfoCurrent` | only the BAR and command writes touch the three variables (`BarAccessKeepsConfig`) |
| `VhostNetProofs!NotificationInfoInvariant` | `Spec => []NotificationInfoSet` | from the former: `Activate` arrives through a decoded BAR |
| `VhostNetProofs!FirstNotifyReachesBackend` | `Spec => []NotifyReachesBackend` | the invariant `FirstActivation` determines every eventfd by its queue until there is a second activation, where the property ends |
| `VhostNetProofs!InterruptInvariant` | `Spec => []InterruptReachesDriver` | for any number of activations: the descriptors an activation binds are fresh (`IrqFdsFresh`), so the bindings of earlier ones, which reset leaves behind, never speak for it |
| `VhostNetProofs!NotifyStaysInQueueInvariant` | `Spec => []NotifyStaysInQueue` | the invariant `QueueInv`: what is bound to the address of a queue was created for it, and the first eventfds of the device's list, which is all an index reaches, are those of the first activation, in the order of the queues |
| `IoLoopProofs!RequestsTrackedInvariant` | `IoSpec => []RequestsTracked` | inductive with `OwnRequests` (a vCPU waits for its own request) and `HandsFree` (the loop holds a request between dequeue and completion only) |
| `IoLoopProofs!AnswersFitTheorem` | `IoSpec => AnswersFit` | `OutputFits`: between handling and completion the answer in hand fits the request in hand; `RequestsTracked` makes that the request of the vCPU that goes on |
| `IoLoopProofs!GuestStartsCompleteInvariant` | `IoSpec => []GuestStartsComplete` | the invariant `StartInv`: what is held is what the steps so far acquire, in their order; `ConfigIsLast`: folding a command line without errors ends with its last parameter for this machine |

`WalkFaithful` is far from inductive, because the list is nowhere but in
registers. `ConfigInv` says where it is: the register that points behind
capability `k` holds the start of capability `k + 1`, or 0 (`Chain`), the
identities are in front of the data (`Identities`), and none of these bits is
writable. That the guest cannot break the chain needs `CapabilitiesDisjoint`
(no capability declares bits of another's header writable) and that nothing is
writable yet where the next capability goes (`FreeReadOnly`); that a new
capability goes behind the last needs `last_cap_size` to be its room
(`LastSize`), which holds because `update_capability` leaves it alone.
`WalkReads` then shows that the iterator, after `k` items, stands at the register
behind capability `k`; it also shows that its guard against a cycle never ends a
walk early. `EncodingAssumption` (the binary notation of pointers is one to one,
and 0 has no bits) is an assumption because it is about powers of two; TLC
evaluates it for the width of the run.

`AccessInv` joins three facts about the last access: it lies within the BAR, it is
the selected one if the window made it, and a reply of the data register repeats
it or is all ones. That a search of the BARs leads back to the BAR and the offset
the window selected (`Found`, `Led`) is proved from the decoding of `PciBars`,
with the one BAR the virtio function has, for any BAR register and width.
`ReachesAdvertised` is about the layout: the pages of the structures do not meet
(`PagesApart`), so that the order in which the regions are asked does not matter
(`OneTarget`, `FirstTargetedIs`).

### Assumptions

Every constant has named assumptions in the module that declares it; TLC evaluates
them in the runs. Beyond types they say:

- `PowersOfTwoAssumption` (`PciBars`): of two powers of two, the width of a
  register and a BAR's size, the larger is a multiple of the smaller. This is
  arithmetic about 2^32; it is an assumption because the provers know no
  induction over exponents. `MaxSizeAssumption` bounds 32-bit and I/O BARs by
  what a register holds, as `validate_bar_size` does.
- `EncodingAssumption` (`ConfigSpace`): see above, for the same reason.
- `DataBitsAssumption` (`Msi`): message data has at most 16 bits, as in the code;
  the proof goes through the sixteen powers of two.
- `CmdlinesAssumption` (`IoLoop`): a command line is a sequence of parameters, each
  with a name, an identity and a region.
- `PageAssumption`, `BarAssumption` and `NoneAssumption` (`VirtioWindow`): pages are
  aligned to eight bytes, as `PciMsiXCapability::new` demands, each structure
  fits its page, the BAR fits a register's range; "no access" and "no address" are neither.

Two hypotheses of theorems are not guaranteed by the code, and runs show that
they are needed: `NumPba = 1` (a function has at most 64 vectors;
`msix_two_entries`) and `Disciplined` (the driver selects its queue again;
`common_cfg_select`).

Only model-checked: the liveness properties `EvaluationEnds`, `WalkEnds` and
`RequestsAnswered`, since fairness and ENABLED are out of the prover's reach.

## 5. Not modelled

- The vring addresses, feature bits and TAP offloads that activation hands to
  the kernel unchanged; what the ioctls and mappings of the start do; generated
  bindings. The start itself is modelled as a sequence of steps that may fail.
- Port I/O accesses of the window: the virtio function has one memory BAR. The
  type bits at the bottom of a BAR, which nothing reads back.
- What the structures make of an access in `VirtioWindow`, the ISR byte
  excepted: this is in `VirtioCommonCfg`, `MsiX` and `VhostNet`. The contents of
  the device configuration belong to the virtio library.
- The guest's right to write MSI pending bits (`msi.rs:271`), which no driver
  uses; the message address of MSI, which nothing consumes.
- In the common configuration: reads of the four registers that are `todo!()`,
  and what the virtio library does on a write to the device status.
- A configuration space after `update_capability` overran a capability.
- Linux helpers and core traits: types and wrappers without state of their own.

## 6. Plan

Done: the interrupt mechanisms and their composition, the Base Address
Registers, configuration space and capability list, the ways into the BAR, the
notification and interrupt paths of vhost-net, the common configuration
structure, the start and the request loop.

Proved: every invariant, action property and refinement that a passing run
checks.

Left: the safety half of the liveness properties (a loop that has passed a vector
or a capability does not come back to it), which is provable although the
liveness itself is not.
