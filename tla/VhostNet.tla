------------------------------ MODULE VhostNet ------------------------------
(***************************************************************************)
(* A vhost-net virtio PCI device from the driver's first BAR write to the  *)
(* notifications that reach the kernel backend                             *)
(* (greens-sel4-pci-vhost-net/src/vhost_net.rs and pci.rs, with the BAR    *)
(* decoding of greens-pci/src/configuration_space.rs and function.rs and   *)
(* the notify region of greens-pci-virtio/src/pci_notify_cfg.rs).          *)
(*                                                                         *)
(* The device hears of the notify region's address through events of the   *)
(* configuration space; activation uses what it heard to bind eventfds in  *)
(* the hypervisor.  The device model is one process that serves one        *)
(* request at a time; an expect that fails ends it.                        *)
(***************************************************************************)
EXTENDS Naturals, Sequences

CONSTANTS
  NumQueues,       \* virtqueues; vhost-net has two
  Addrs,           \* addresses the guest may program into the BAR
  Zero, Probe,     \* the BAR values that are not addresses
  Vectors, Data,   \* MSI-X vectors and message data
  NotificationData,  \* VIRTIO_F_NOTIFICATION_DATA was negotiated
  None,            \* nothing: an Option that is not set, an unmapped vector
  MaxActivations   \* bound on the number of activations

ASSUME NumQueuesAssumption == NumQueues \in Nat \ {0}
ASSUME BarAssumption == {Zero, Probe, None} \cap Addrs = {}
ASSUME MappingAssumption == None \notin Vectors /\ None \notin Data
ASSUME NotificationDataAssumption == NotificationData \in BOOLEAN
ASSUME MaxActivationsAssumption == MaxActivations \in Nat

VARIABLES
  memSpace,     \* Memory Space bit of the command register
  bar,          \* BAR 0
  notify,       \* notify_cfg_info: the BAR address it was made from
  msixData,     \* msix_data, by vector
  queueVector,  \* queue_msix_vector, by queue
  rewritten,    \* history: queues whose vector or message changed since activation
  active,       \* DRIVER_OK was acknowledged and no reset followed
  activations,  \* how often activate ran
  ioeventfds,   \* the device's ioeventfds, in the order they were pushed
  ioBound,      \* the hypervisor's ioeventfd bindings
  irqBound,     \* the hypervisor's irqfd bindings
  kick, call,   \* the backend's kick and call eventfds, by queue
  kicked,       \* the notification of the last step, and the eventfd it hit
  panicked      \* the expect that failed, or "no"

vars == <<memSpace, bar, notify, msixData, queueVector, rewritten, active,
          activations, ioeventfds, ioBound, irqBound, kick, call, kicked, panicked>>
configVars == <<memSpace, bar, notify>>
vectorVars == <<msixData, queueVector, rewritten>>
backendVars == <<active, activations, ioeventfds, ioBound, irqBound, kick, call>>

Queues == 0 .. NumQueues - 1
BarValues == Addrs \cup {Zero, Probe}
NoKick == [queue |-> None, data |-> None, fd |-> None, via |-> None]

-----------------------------------------------------------------------------
(***************************************************************************)
(* BAR decoding and the notify region.                                     *)
(***************************************************************************)

\* get_bar(0) = Some(bar at b): decoded, and neither unset nor being sized.
Decodes(mem, b) == mem /\ b \in Addrs

\* set_notification_info, when the region is decoded.
NotifyInfo(mem, b) == IF Decodes(mem, b) THEN b ELSE notify

Init ==
  /\ memSpace = FALSE /\ bar = Zero /\ notify = None
  /\ msixData = [v \in Vectors |-> None]
  /\ queueVector = [q \in Queues |-> None]
  /\ rewritten = {}
  /\ active = FALSE /\ activations = 0
  /\ ioeventfds = <<>>
  /\ ioBound = {} /\ irqBound = {}
  /\ kick = [q \in Queues |-> None] /\ call = [q \in Queues |-> None]
  /\ kicked = NoKick
  /\ panicked = "no"

WriteBarIgnored(b) ==
  /\ panicked = "no"
  /\ bar' = b
  /\ kicked' = NoKick
  /\ UNCHANGED <<memSpace, notify, vectorVars, backendVars, panicked>>

\* The guest writes BAR 0 (Bar event, on_bar_changed).
WriteBar(b) ==
  /\ panicked = "no"
  /\ bar' = b
  /\ notify' = NotifyInfo(memSpace, b)
  /\ kicked' = NoKick
  /\ UNCHANGED <<memSpace, vectorVars, backendVars, panicked>>

WriteCommandIgnored(mem) ==
  /\ panicked = "no"
  /\ memSpace' = mem
  /\ kicked' = NoKick
  /\ UNCHANGED <<bar, notify, vectorVars, backendVars, panicked>>

\* The guest writes the command register (SpaceChanged event when the Memory
\* Space bit changes, on_space_changed).
WriteCommand(mem) ==
  /\ panicked = "no"
  /\ memSpace' = mem
  /\ notify' = IF mem # memSpace THEN NotifyInfo(mem, bar) ELSE notify
  /\ kicked' = NoKick
  /\ UNCHANGED <<bar, vectorVars, backendVars, panicked>>

-----------------------------------------------------------------------------
(***************************************************************************)
(* Accesses to the BAR.  They reach the device only while it is decoded;   *)
(* an access the hypervisor forwards for an address that is not ends the   *)
(* device model, whose run loop unwraps the error.                         *)
(***************************************************************************)
Mmio == panicked = "no" /\ Decodes(memSpace, bar)

MmioMiss ==
  /\ panicked = "no" /\ ~Decodes(memSpace, bar)
  /\ panicked' = "bar not found"
  /\ kicked' = NoKick
  /\ UNCHANGED <<configVars, vectorVars, backendVars>>

\* A write to the MSI-X table, reported to the device (set_msi_message).
SetMsiMessage(v, d) ==
  /\ Mmio
  /\ msixData' = [msixData EXCEPT ![v] = d]
  /\ rewritten' = rewritten \cup {q \in Queues : queueVector[q] = v /\ msixData[v] # d}
  /\ kicked' = NoKick
  /\ UNCHANGED <<configVars, queueVector, backendVars, panicked>>

\* set_queue_msix_vector of the selected queue.
SetQueueMsixVector(q, v) ==
  /\ Mmio
  /\ queueVector' = [queueVector EXCEPT ![q] = v]
  /\ rewritten' = IF v # queueVector[q] THEN rewritten \cup {q} ELSE rewritten
  /\ kicked' = NoKick
  /\ UNCHANGED <<configVars, msixData, backendVars, panicked>>

-----------------------------------------------------------------------------
(***************************************************************************)
(* Activation.  Every activation creates two eventfds per queue, numbered  *)
(* here in the order they are created; none is ever unbound or closed.     *)
(***************************************************************************)
Mapped(q) == queueVector[q] # None /\ msixData[queueVector[q]] # None

IrqFdReused(q) == 2 * q

IrqFd(q) == 2 * (activations * NumQueues + q)
IoFd(q) == IrqFd(q) + 1

NotificationGpaNoMultiplier(q) == <<notify, 0>>

\* notification_gpa(q): the address of queue q's notifications.
NotificationGpa(q) == <<notify, q>>

\* bind_irqfd and bind_ioeventfd: what the hypervisor is told to bind for
\* queue q.
IrqFdBinding(q) == [fd |-> IrqFd(q), irq |-> msixData[queueVector[q]]]
IoEventFdBinding(q) == [fd |-> IoFd(q), gpa |-> NotificationGpa(q)]

\* An expect of activate fails: a refusal by the kernel or the hypervisor, no
\* message data for a queue's vector, no notification info.  The process ends,
\* and what it had bound with it.
ActivatePanics(why) ==
  /\ panicked' = why
  /\ UNCHANGED <<backendVars, rewritten>>

\* The driver acknowledges DRIVER_OK: activate, with every call accepted.
ActivateSucceeds ==
  /\ irqBound' = irqBound \cup {IrqFdBinding(q) : q \in Queues}
  /\ call' = [q \in Queues |-> IrqFd(q)]
  /\ ioBound' = ioBound \cup {IoEventFdBinding(q) : q \in Queues}
  /\ kick' = [q \in Queues |-> IoFd(q)]
  /\ ioeventfds' = ioeventfds \o [i \in 1 .. NumQueues |-> IoFd(i - 1)]
  /\ rewritten' = {}
  /\ active' = TRUE
  /\ activations' = activations + 1
  /\ UNCHANGED panicked

\* The queues are set up one after the other: the vector of queue 0 is looked
\* at before the notification info, those of the others after it.
Activate(accepted) ==
  /\ Mmio
  /\ ~active /\ activations < MaxActivations
  /\ CASE ~accepted -> ActivatePanics("refused")
       [] accepted /\ ~Mapped(0) -> ActivatePanics("msix data")
       [] accepted /\ Mapped(0) /\ notify = None ->
            ActivatePanics("notification info not set")
       [] accepted /\ Mapped(0) /\ notify # None /\ (\E q \in Queues : ~Mapped(q)) ->
            ActivatePanics("msix data")
       [] OTHER -> ActivateSucceeds
  /\ kicked' = NoKick
  /\ UNCHANGED <<configVars, msixData, queueVector>>

\* The driver resets the device.  The virtio layer may activate it again; the
\* device itself keeps everything it bound.
Reset ==
  /\ Mmio
  /\ active
  /\ active' = FALSE
  /\ kicked' = NoKick
  /\ UNCHANGED <<configVars, vectorVars, activations, ioeventfds, ioBound,
                 irqBound, kick, call, panicked>>

-----------------------------------------------------------------------------
(***************************************************************************)
(* Notifications.  The hypervisor signals a bound ioeventfd itself; only   *)
(* an address nothing is bound to reaches the device's queue_notify.       *)
(* Which of several eventfds bound to one address it signals is its own    *)
(* affair.                                                                 *)
(***************************************************************************)
BoundAt(gpa) == {b.fd : b \in {c \in ioBound : c.gpa = gpa}}

\* What the driver writes to notify queue q: its index, under which it writes
\* the ring offset in the upper half when it has notification data.
IndexValues == 65536
NotifyValues(q) ==
  {q + IndexValues * offset : offset \in IF NotificationData THEN {0, 1} ELSE {0}}

QueueNotifyFdFromLast(data) ==
  IF data < Len(ioeventfds) THEN ioeventfds[Len(ioeventfds) - data] ELSE None

\* queue_notify: the eventfd at the index written, which is taken whole.
QueueNotifyFd(data) == IF data < Len(ioeventfds) THEN ioeventfds[data + 1] ELSE None

\* The driver notifies queue q.
Notify(q, data) ==
  /\ Mmio
  /\ IF BoundAt(<<bar, q>>) # {}
       THEN \E fd \in BoundAt(<<bar, q>>) :
              kicked' = [queue |-> q, data |-> data, fd |-> fd, via |-> "ioeventfd"]
       ELSE kicked' = [queue |-> q, data |-> data, fd |-> QueueNotifyFd(data),
                       via |-> "queue_notify"]
  /\ UNCHANGED <<configVars, vectorVars, backendVars, panicked>>

Next ==
  \/ \E b \in BarValues : WriteBar(b)
  \/ \E mem \in BOOLEAN : WriteCommand(mem)
  \/ MmioMiss
  \/ \E v \in Vectors, d \in Data : SetMsiMessage(v, d)
  \/ \E q \in Queues, v \in Vectors \cup {None} : SetQueueMsixVector(q, v)
  \/ \E accepted \in BOOLEAN : Activate(accepted)
  \/ Reset
  \/ \E q \in Queues : \E data \in NotifyValues(q) : Notify(q, data)

Spec == Init /\ [][Next]_vars

-----------------------------------------------------------------------------
\* While the BAR is decoded the device's notification info is that of the
\* BAR's present address: whichever of the BAR and the Memory Space bit the
\* guest writes last, and whatever it probes in between, an event tells the
\* device.
NotifyInfoCurrent == Decodes(memSpace, bar) => notify = bar

\* An activation never fails for want of notification info
\* (expect("notification info not set")): the write that starts it arrives
\* through the decoded BAR.
NotificationInfoSet == panicked # "notification info not set"

\* A notification of a device in its first activation hits the eventfd the
\* backend listens to for that queue, through the hypervisor's binding or, when
\* the guest moved the BAR since, through queue_notify.  The latter only where
\* the driver writes no more than the index: queue_notify finds no queue
\* otherwise.
NotifyReachesBackend ==
  /\ active /\ activations = 1 /\ kicked.queue # None
  /\ kicked.via = "queue_notify" => kicked.data = kicked.queue
  => kicked.fd = kick[kicked.queue]

\* The ioeventfds that activations so far created for queue q.
EventFds(q) == {2 * (a * NumQueues + q) + 1 : a \in 0 .. activations - 1}

\* A notification signals no eventfd of another queue, whatever was bound by
\* earlier activations and never unbound, wherever the BAR is, and between a
\* reset and the next activation too.  (It may be an eventfd of an earlier
\* activation.)
NotifyStaysInQueue ==
  /\ kicked.fd # None
  /\ kicked.via = "queue_notify" => kicked.data = kicked.queue
  => kicked.fd \in EventFds(kicked.queue)

\* The backend's call eventfd of a queue of an active device raises the
\* interrupt whose message the MSI-X table holds for the queue's vector, and
\* no other, in whatever order the driver wrote the table and the vectors
\* before it activated the device.  An interrupt it moves later, by writing
\* either, stays where it was: nothing tells the hypervisor.
InterruptReachesDriver ==
  active => \A q \in Queues \ rewritten :
    {b.irq : b \in {c \in irqBound : c.fd = call[q]}} = {msixData[queueVector[q]]}

=============================================================================
