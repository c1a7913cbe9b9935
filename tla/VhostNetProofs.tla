--------------------------- MODULE VhostNetProofs ---------------------------
(***************************************************************************)
(* Proofs about VhostNet, for any number of queues, BAR addresses, vectors *)
(* and activations.                                                        *)
(***************************************************************************)
EXTENDS VhostNet, TLAPS

-----------------------------------------------------------------------------
(***************************************************************************)
(* The notification info follows the BAR.  NotifyInfoCurrent is inductive: *)
(* the two writes that change what is decoded recompute the info, and no   *)
(* other step touches the three registers.                                 *)
(***************************************************************************)

\* The steps that only reach the BAR leave the configuration registers alone.
LEMMA BarAccessKeepsConfig ==
  ASSUME \/ MmioMiss
         \/ \E v \in Vectors, d \in Data : SetMsiMessage(v, d)
         \/ \E q \in Queues, v \in Vectors \cup {None} : SetQueueMsixVector(q, v)
         \/ \E accepted \in BOOLEAN : Activate(accepted)
         \/ Reset
         \/ \E q \in Queues : \E data \in NotifyValues(q) : Notify(q, data)
  PROVE  UNCHANGED configVars
  BY DEF MmioMiss, SetMsiMessage, SetQueueMsixVector, Activate, Reset, Notify

\* While the BAR is decoded the device's notification info is that of its
\* address (on_bar_changed, on_space_changed).
THEOREM NotifyInfoInvariant == Spec => []NotifyInfoCurrent
<1>1. Init => NotifyInfoCurrent
  BY DEF Init, NotifyInfoCurrent, Decodes
<1>2. NotifyInfoCurrent /\ [Next]_vars => NotifyInfoCurrent'
  <2> SUFFICES ASSUME NotifyInfoCurrent, [Next]_vars
               PROVE  NotifyInfoCurrent'
    OBVIOUS
  <2>1. ASSUME NEW b \in BarValues, WriteBar(b)
        PROVE  NotifyInfoCurrent'
    BY <2>1 DEF WriteBar, NotifyInfo, NotifyInfoCurrent, Decodes
  <2>2. ASSUME NEW mem \in BOOLEAN, WriteCommand(mem)
        PROVE  NotifyInfoCurrent'
    BY <2>2 DEF WriteCommand, NotifyInfo, NotifyInfoCurrent, Decodes
  <2>3. ASSUME UNCHANGED configVars
        PROVE  NotifyInfoCurrent'
    BY <2>3 DEF configVars, NotifyInfoCurrent, Decodes
  <2>4. CASE UNCHANGED vars
    BY <2>3, <2>4 DEF vars, configVars
  <2> QED
    BY <2>1, <2>2, <2>3, <2>4, BarAccessKeepsConfig DEF Next
<1> QED
  BY <1>1, <1>2, PTL DEF Spec

\* No activation fails for want of notification info: the expect in activate
\* that asks for it cannot fail, because the request came through the decoded
\* BAR.
THEOREM NotificationInfoInvariant == Spec => []NotificationInfoSet
<1>1. Init => NotificationInfoSet
  BY DEF Init, NotificationInfoSet
<1>2. NotificationInfoSet /\ NotifyInfoCurrent /\ [Next]_vars => NotificationInfoSet'
  <2> SUFFICES ASSUME NotificationInfoSet, NotifyInfoCurrent, [Next]_vars
               PROVE  NotificationInfoSet'
    OBVIOUS
  <2> USE DEF NotificationInfoSet
  <2>1. ASSUME NEW b \in BarValues, WriteBar(b)
        PROVE  NotificationInfoSet'
    BY <2>1 DEF WriteBar
  <2>2. ASSUME NEW mem \in BOOLEAN, WriteCommand(mem)
        PROVE  NotificationInfoSet'
    BY <2>2 DEF WriteCommand
  <2>3. CASE MmioMiss
    BY <2>3 DEF MmioMiss
  <2>4. ASSUME NEW v \in Vectors, NEW d \in Data, SetMsiMessage(v, d)
        PROVE  NotificationInfoSet'
    BY <2>4 DEF SetMsiMessage
  <2>5. ASSUME NEW q \in Queues, NEW v \in Vectors \cup {None},
               SetQueueMsixVector(q, v)
        PROVE  NotificationInfoSet'
    BY <2>5 DEF SetQueueMsixVector
  <2>6. ASSUME NEW accepted \in BOOLEAN, Activate(accepted)
        PROVE  NotificationInfoSet'
    <3>1. notify # None
      BY <2>6, BarAssumption DEF Activate, Mmio, NotifyInfoCurrent, Decodes
    <3>2. \/ ActivatePanics("msix data")
          \/ ActivatePanics("refused")
          \/ ActivateSucceeds
      BY <2>6, <3>1 DEF Activate
    <3> QED
      BY <3>2 DEF ActivatePanics, ActivateSucceeds
  <2>7. CASE Reset
    BY <2>7 DEF Reset
  <2>8. ASSUME NEW q \in Queues, NEW data \in NotifyValues(q), Notify(q, data)
        PROVE  NotificationInfoSet'
    BY <2>8 DEF Notify
  <2>9. CASE UNCHANGED vars
    BY <2>9 DEF vars
  <2> QED
    BY <2>1, <2>2, <2>3, <2>4, <2>5, <2>6, <2>7, <2>8, <2>9 DEF Next
<1> QED
  BY <1>1, <1>2, NotifyInfoInvariant, PTL DEF Spec

-----------------------------------------------------------------------------
(***************************************************************************)
(* Notifications in the first activation.  Until there is a second one,    *)
(* the invariant fixes the eventfds: queue q's is 2q + 1, wherever it is   *)
(* looked up.                                                              *)
(***************************************************************************)
FirstFd(q) == 2 * q + 1

FirstActivation ==
  /\ activations \in Nat
  /\ activations = 0 => ~active /\ ioBound = {} /\ ioeventfds = <<>>
  /\ activations = 1 =>
       /\ kick = [q \in Queues |-> FirstFd(q)]
       /\ ioeventfds = [i \in 1 .. NumQueues |-> FirstFd(i - 1)]
  /\ activations <= 1 => \A b \in ioBound : b.fd = FirstFd(b.gpa[2])
  /\ kicked.queue # None =>
       /\ kicked.queue \in Queues
       /\ /\ active /\ activations = 1
          /\ kicked.via = "queue_notify" => kicked.data = kicked.queue
          => kicked.fd = FirstFd(kicked.queue)

\* What every step but Activate, Reset and Notify does to this state.
LEMMA QuietStep ==
  ASSUME FirstActivation, UNCHANGED backendVars, kicked' = NoKick \/ kicked' = kicked
  PROVE  FirstActivation'
  BY DEF FirstActivation, backendVars, NoKick

\* Every step keeps the eventfds where the first activation put them.
LEMMA FirstActivationStep ==
  ASSUME FirstActivation, [Next]_vars
  PROVE  FirstActivation'
<1>1. ASSUME NEW b \in BarValues, WriteBar(b)
      PROVE  FirstActivation'
  BY <1>1, QuietStep DEF WriteBar
<1>2. ASSUME NEW mem \in BOOLEAN, WriteCommand(mem)
      PROVE  FirstActivation'
  BY <1>2, QuietStep DEF WriteCommand
<1>3. CASE MmioMiss
  BY <1>3, QuietStep DEF MmioMiss
<1>4. ASSUME NEW v \in Vectors, NEW d \in Data, SetMsiMessage(v, d)
      PROVE  FirstActivation'
  BY <1>4, QuietStep DEF SetMsiMessage
<1>5. ASSUME NEW q \in Queues, NEW v \in Vectors \cup {None},
             SetQueueMsixVector(q, v)
      PROVE  FirstActivation'
  BY <1>5, QuietStep DEF SetQueueMsixVector
<1>6. ASSUME NEW accepted \in BOOLEAN, Activate(accepted)
      PROVE  FirstActivation'
  <2>1. CASE UNCHANGED backendVars
    BY <1>6, <2>1, QuietStep DEF Activate
  <2>2. CASE ActivateSucceeds /\ activations # 0
    <3>1. activations' = activations + 1 /\ kicked' = NoKick
      BY <1>6, <2>2 DEF Activate, ActivateSucceeds
    <3> QED
      BY <2>2, <3>1 DEF FirstActivation, NoKick
  <2>3. CASE ActivateSucceeds /\ activations = 0
    <3>1. activations = 0 /\ ioBound = {} /\ ioeventfds = <<>>
      BY <2>3 DEF FirstActivation
    <3>2. \A q \in Queues : IoFd(q) = FirstFd(q)
      BY <3>1, NumQueuesAssumption DEF IoFd, IrqFd, FirstFd, Queues
    <3>3. activations' = 1
      BY <2>3, <3>1 DEF ActivateSucceeds
    <3>4. kick' = [q \in Queues |-> FirstFd(q)]
      BY <2>3, <3>2 DEF ActivateSucceeds
    <3>5. ioeventfds' = [i \in 1 .. NumQueues |-> FirstFd(i - 1)]
      <4> DEFINE s == [i \in 1 .. NumQueues |-> IoFd(i - 1)]
      <4>1. s = [i \in 1 .. NumQueues |-> FirstFd(i - 1)]
        BY <3>2, NumQueuesAssumption DEF Queues
      <4>2. s \in Seq(Nat)
        BY <4>1, NumQueuesAssumption DEF FirstFd
      <4>3. ioeventfds' = <<>> \o s
        BY <2>3, <3>1 DEF ActivateSucceeds
      <4> HIDE DEF s
      <4>4. <<>> \o s = s
        BY <4>2
      <4> QED
        BY <4>1, <4>3, <4>4
    <3>6. \A b \in ioBound' : b.fd = FirstFd(b.gpa[2])
      BY <2>3, <3>1, <3>2 DEF ActivateSucceeds, IoEventFdBinding, NotificationGpa
    <3>7. kicked' = NoKick
      BY <1>6 DEF Activate
    <3> QED
      BY <3>3, <3>4, <3>5, <3>6, <3>7 DEF FirstActivation, NoKick
  <2> QED
    BY <1>6, <2>1, <2>2, <2>3 DEF Activate, ActivatePanics
<1>7. CASE Reset
  BY <1>7 DEF Reset, FirstActivation, NoKick
<1>8. ASSUME NEW q \in Queues, NEW data \in NotifyValues(q), Notify(q, data)
      PROVE  FirstActivation'
  <2>1. UNCHANGED backendVars
    BY <1>8 DEF Notify
  <2>2. kicked'.queue = q
    BY <1>8 DEF Notify
  <2>3. ASSUME active, activations = 1,
               kicked'.via = "queue_notify" => kicked'.data = q
        PROVE  kicked'.fd = FirstFd(q)
    <3>1. CASE BoundAt(<<bar, q>>) # {}
      <4>1. PICK fd \in BoundAt(<<bar, q>>) : kicked'.fd = fd
        BY <1>8, <3>1 DEF Notify
      <4>2. PICK b \in ioBound : b.gpa = <<bar, q>> /\ b.fd = fd
        BY <4>1 DEF BoundAt
      <4> QED
        BY <2>3, <4>1, <4>2 DEF FirstActivation
    <3>2. CASE BoundAt(<<bar, q>>) = {}
      <4>1. ioeventfds = [i \in 1 .. NumQueues |-> FirstFd(i - 1)]
        BY <2>3 DEF FirstActivation
      <4>2. Len(ioeventfds) = NumQueues /\ q + 1 \in 1 .. NumQueues /\ q \in Nat
        BY <4>1, NumQueuesAssumption DEF Queues
      <4>3. ioeventfds[q + 1] = FirstFd(q)
        BY <4>1, <4>2 DEF FirstFd
      <4>4. QueueNotifyFd(q) = FirstFd(q)
        BY <4>2, <4>3 DEF QueueNotifyFd
      <4>5. data = q
        BY <1>8, <2>3, <3>2 DEF Notify
      <4> QED
        BY <1>8, <3>2, <4>4, <4>5 DEF Notify
    <3> QED
      BY <3>1, <3>2
  <2> QED
    BY <2>1, <2>2, <2>3 DEF FirstActivation, backendVars
<1>9. CASE UNCHANGED vars
  BY <1>9, QuietStep DEF vars, backendVars
<1> QED
  BY <1>1, <1>2, <1>3, <1>4, <1>5, <1>6, <1>7, <1>8, <1>9 DEF Next

\* A notification in the first activation hits the backend's eventfd for its
\* queue, whether the hypervisor's ioeventfd takes it or, after the guest moved
\* the BAR, queue_notify.
THEOREM FirstNotifyReachesBackend == Spec => []NotifyReachesBackend
<1>1. Init => FirstActivation
  BY DEF Init, FirstActivation, NoKick
<1>2. FirstActivation /\ [Next]_vars => FirstActivation'
  BY FirstActivationStep
<1>3. FirstActivation => NotifyReachesBackend
  BY DEF FirstActivation, NotifyReachesBackend
<1> QED
  BY <1>1, <1>2, <1>3, PTL DEF Spec

-----------------------------------------------------------------------------
(***************************************************************************)
(* Interrupts, after any number of activations.  The eventfds of earlier   *)
(* activations stay bound; that none of them is mistaken for one of the    *)
(* present activation follows from the numbers, which only grow.           *)
(***************************************************************************)
IrqInv ==
  /\ activations \in Nat
  /\ msixData \in [Vectors -> Data \cup {None}]
  /\ queueVector \in [Queues -> Vectors \cup {None}]
  /\ \A b \in irqBound : b.fd \in Nat /\ b.fd < 2 * (activations * NumQueues)
  /\ active => \A q \in Queues \ rewritten : queueVector[q] # None
  /\ InterruptReachesDriver

\* What an activation binds: eventfds that no earlier one bound, one for each
\* queue.
LEMMA IrqFdsFresh ==
  ASSUME activations \in Nat
  PROVE  \A q \in Queues :
           /\ IrqFd(q) \in Nat
           /\ 2 * (activations * NumQueues) <= IrqFd(q)
           /\ IrqFd(q) < 2 * ((activations + 1) * NumQueues)
           /\ \A p \in Queues : IrqFd(p) = IrqFd(q) => p = q
<1> DEFINE m == activations * NumQueues
<1>1. m \in Nat /\ (activations + 1) * NumQueues = m + NumQueues
  BY NumQueuesAssumption
<1>2. \A q \in Queues : IrqFd(q) = 2 * (m + q)
  BY DEF IrqFd
<1> HIDE DEF m
<1>3. \A q \in Queues : /\ IrqFd(q) \in Nat /\ 2 * m <= IrqFd(q)
                        /\ IrqFd(q) < 2 * (m + NumQueues)
                        /\ \A p \in Queues : IrqFd(p) = IrqFd(q) => p = q
  BY <1>1, <1>2, NumQueuesAssumption DEF Queues
<1> QED
  BY <1>1, <1>3 DEF m

\* An activation binds fresh descriptors to the vectors of the queues.
LEMMA IrqActivate ==
  ASSUME IrqInv, ActivateSucceeds, \A q \in Queues : Mapped(q),
         UNCHANGED <<msixData, queueVector>>
  PROVE  IrqInv'
<1>1. activations' = activations + 1 /\ activations \in Nat
  BY DEF ActivateSucceeds, IrqInv
<1>2. \A q \in Queues :
        /\ IrqFd(q) \in Nat /\ 2 * (activations * NumQueues) <= IrqFd(q)
        /\ IrqFd(q) < 2 * ((activations + 1) * NumQueues)
        /\ \A p \in Queues : IrqFd(p) = IrqFd(q) => p = q
  BY <1>1, IrqFdsFresh
<1> DEFINE m == activations * NumQueues
           n == (activations + 1) * NumQueues
<1>3. m \in Nat /\ n = m + NumQueues /\ n \in Nat
  BY <1>1, NumQueuesAssumption
<1>4. \A b \in irqBound : b.fd \in Nat /\ b.fd < 2 * m
  BY DEF IrqInv
<1>5. \A q \in Queues : /\ IrqFd(q) \in Nat /\ 2 * m <= IrqFd(q) /\ IrqFd(q) < 2 * n
                        /\ \A p \in Queues : IrqFd(p) = IrqFd(q) => p = q
  BY <1>2
<1> HIDE DEF m, n
<1>6. irqBound' = irqBound \cup {IrqFdBinding(q) : q \in Queues}
  BY DEF ActivateSucceeds
<1>7. \A b \in irqBound' : b.fd \in Nat /\ b.fd < 2 * n
  BY <1>3, <1>4, <1>5, <1>6, NumQueuesAssumption DEF IrqFdBinding
<1>8. ASSUME NEW q \in Queues
      PROVE  {b.irq : b \in {c \in irqBound' : c.fd = call'[q]}} = {msixData'[queueVector'[q]]}
  <2>1. call'[q] = IrqFd(q)
    BY DEF ActivateSucceeds
  <2>2. {c \in irqBound' : c.fd = call'[q]} = {IrqFdBinding(q)}
    BY <1>3, <1>4, <1>5, <1>6, <2>1 DEF IrqFdBinding
  <2>3. {b.irq : b \in {c \in irqBound' : c.fd = call'[q]}} = {IrqFdBinding(q).irq}
    BY <2>2
  <2>4. IrqFdBinding(q).irq = msixData'[queueVector'[q]]
    BY DEF IrqFdBinding
  <2> QED
    BY <2>3, <2>4, Zenon
<1>9. \A q \in Queues : queueVector'[q] # None
  BY DEF Mapped
<1>10. \A b \in irqBound' : b.fd \in Nat /\ b.fd < 2 * (activations' * NumQueues)
  BY <1>1, <1>7 DEF n
<1>11. InterruptReachesDriver'
  BY <1>8 DEF InterruptReachesDriver
<1> QED
  BY <1>1, <1>9, <1>10, <1>11 DEF IrqInv

\* The steps that write neither a vector nor a message, and activate nothing.
LEMMA IrqQuiet ==
  ASSUME IrqInv, UNCHANGED <<vectorVars, activations, irqBound, call>>, active' => active
  PROVE  IrqInv'
  BY DEF IrqInv, InterruptReachesDriver, vectorVars

\* Every step keeps the bindings of the interrupts.
LEMMA IrqStep ==
  ASSUME IrqInv, [Next]_vars
  PROVE  IrqInv'
<1>1. ASSUME NEW v \in Vectors, NEW d \in Data, SetMsiMessage(v, d)
      PROVE  IrqInv'
  <2>1. /\ msixData' = [msixData EXCEPT ![v] = d]
        /\ rewritten' = rewritten \cup {q \in Queues : queueVector[q] = v /\ msixData[v] # d}
        /\ UNCHANGED <<queueVector, active, activations, irqBound, call>>
    BY <1>1 DEF SetMsiMessage, backendVars
  <2>2. \A q \in Queues \ rewritten' :
          active => msixData'[queueVector'[q]] = msixData[queueVector[q]]
    BY <2>1, MappingAssumption DEF IrqInv
  <2>3. InterruptReachesDriver'
    BY <2>1, <2>2 DEF IrqInv, InterruptReachesDriver
  <2> QED
    BY <2>1, <2>3 DEF IrqInv
<1>2. ASSUME NEW q \in Queues, NEW v \in Vectors \cup {None}, SetQueueMsixVector(q, v)
      PROVE  IrqInv'
  <2>1. /\ queueVector' = [queueVector EXCEPT ![q] = v]
        /\ rewritten' = IF v # queueVector[q] THEN rewritten \cup {q} ELSE rewritten
        /\ UNCHANGED <<msixData, active, activations, irqBound, call>>
    BY <1>2 DEF SetQueueMsixVector, backendVars
  <2>2. \A p \in Queues \ rewritten' : p \notin rewritten /\ queueVector'[p] = queueVector[p]
    BY <2>1 DEF IrqInv
  <2>3. InterruptReachesDriver'
    BY <2>1, <2>2 DEF IrqInv, InterruptReachesDriver
  <2> QED
    BY <2>1, <2>2, <2>3 DEF IrqInv
<1>3. ASSUME NEW accepted \in BOOLEAN, Activate(accepted)
      PROVE  IrqInv'
  <2>1. CASE UNCHANGED <<backendVars, rewritten>>
    BY <1>3, <2>1, IrqQuiet DEF Activate, vectorVars, backendVars
  <2>2. CASE ActivateSucceeds /\ \A q \in Queues : Mapped(q)
    BY <1>3, <2>2, IrqActivate DEF Activate
  <2> QED
    BY <1>3, <2>1, <2>2 DEF Activate, ActivatePanics
<1>4. CASE Reset
  BY <1>4, IrqQuiet DEF Reset
<1>5. ASSUME UNCHANGED <<vectorVars, backendVars>>
      PROVE  IrqInv'
  BY <1>5, IrqQuiet DEF backendVars
<1>6. ASSUME NEW b \in BarValues, WriteBar(b)
      PROVE  IrqInv'
  BY <1>5, <1>6 DEF WriteBar
<1>7. ASSUME NEW mem \in BOOLEAN, WriteCommand(mem)
      PROVE  IrqInv'
  BY <1>5, <1>7 DEF WriteCommand
<1>8. CASE MmioMiss
  BY <1>5, <1>8 DEF MmioMiss
<1>9. ASSUME NEW q \in Queues, NEW data \in NotifyValues(q), Notify(q, data)
      PROVE  IrqInv'
  BY <1>5, <1>9 DEF Notify
<1>10. CASE UNCHANGED vars
  BY <1>5, <1>10 DEF vars, vectorVars, backendVars
<1> QED
  BY <1>1, <1>2, <1>3, <1>4, <1>6, <1>7, <1>8, <1>9, <1>10 DEF Next

\* However often the device is reset and activated, the backend's call eventfd
\* of a queue raises the interrupt of the queue's vector, until the driver
\* writes the vector or its message again.
THEOREM InterruptInvariant == Spec => []InterruptReachesDriver
<1>1. Init => IrqInv
  BY NumQueuesAssumption DEF Init, IrqInv, InterruptReachesDriver
<1>2. IrqInv /\ [Next]_vars => IrqInv'
  BY IrqStep
<1>3. IrqInv => InterruptReachesDriver
  BY DEF IrqInv
<1> QED
  BY <1>1, <1>2, <1>3, PTL DEF Spec

-----------------------------------------------------------------------------
(***************************************************************************)
(* Notifications, after any number of activations.  What is bound to the   *)
(* address of a queue, and what the device keeps at its index, was created *)
(* for that queue.                                                         *)
(***************************************************************************)
QueueInv ==
  /\ activations \in Nat
  /\ \A b \in ioBound : b.fd \in EventFds(b.gpa[2])
  /\ ioeventfds \in Seq(Nat)
  /\ activations = 0 => ioeventfds = <<>>
  /\ activations # 0 => NumQueues <= Len(ioeventfds)
  /\ \A i \in 1 .. NumQueues : i <= Len(ioeventfds) => ioeventfds[i] = FirstFd(i - 1)
  /\ NotifyStaysInQueue

\* What a concatenation is made of.
LEMMA ConcatAt ==
  ASSUME NEW S, NEW a \in Seq(S), NEW b \in Seq(S)
  PROVE  /\ a \o b \in Seq(S)
         /\ Len(a \o b) = Len(a) + Len(b)
         /\ \A i \in 1 .. Len(a) + Len(b) :
              (a \o b)[i] = IF i <= Len(a) THEN a[i] ELSE b[i - Len(a)]
  OBVIOUS

\* What the steps that neither activate nor notify do to this state.
LEMMA QueueQuiet ==
  ASSUME QueueInv, UNCHANGED <<activations, ioeventfds, ioBound>>,
         kicked' = NoKick \/ kicked' = kicked
  PROVE  QueueInv'
<1>1. NotifyStaysInQueue'
  BY DEF QueueInv, NotifyStaysInQueue, NoKick, EventFds
<1> QED
  BY <1>1 DEF QueueInv, EventFds

\* An activation adds an eventfd of its own to each queue (bind_ioeventfd, and
\* the push to the device's list).
LEMMA QueueActivate ==
  ASSUME QueueInv, ActivateSucceeds, kicked' = NoKick
  PROVE  QueueInv'
<1> USE NumQueuesAssumption
<1>1. activations \in Nat /\ activations' = activations + 1
  BY DEF ActivateSucceeds, QueueInv
<1>2. \A q : EventFds(q) \subseteq EventFds(q)'
  BY <1>1 DEF EventFds
<1>3. \A q \in Queues : IoFd(q) \in EventFds(q)'
  BY <1>1 DEF EventFds, IoFd, IrqFd
<1>4. \A b \in ioBound' : b.fd \in EventFds(b.gpa[2])'
  <2> SUFFICES ASSUME NEW b \in ioBound'
               PROVE  b.fd \in EventFds(b.gpa[2])'
    OBVIOUS
  <2>1. CASE b \in ioBound
    BY <1>2, <2>1 DEF QueueInv
  <2>2. ASSUME NEW q \in Queues, b = IoEventFdBinding(q)
        PROVE  b.fd \in EventFds(b.gpa[2])'
    <3>1. b.fd = IoFd(q) /\ b.gpa[2] = q
      BY <2>2 DEF IoEventFdBinding, NotificationGpa
    <3> QED
      BY <1>3, <3>1
  <2> QED
    BY <2>1, <2>2 DEF ActivateSucceeds
<1> DEFINE s == [i \in 1 .. NumQueues |-> IoFd(i - 1)]
<1>5. s \in Seq(Nat) /\ Len(s) = NumQueues
  <2>1. \A i \in 1 .. NumQueues : IoFd(i - 1) \in Nat
    BY <1>1 DEF IoFd, IrqFd
  <2> QED
    BY <2>1
<1>6. activations = 0 => \A i \in 1 .. NumQueues : s[i] = FirstFd(i - 1)
  BY DEF IoFd, IrqFd, FirstFd
<1>7. ioeventfds' = ioeventfds \o s /\ ioeventfds \in Seq(Nat)
  BY DEF ActivateSucceeds, QueueInv
<1> HIDE DEF s
<1>8. /\ ioeventfds' \in Seq(Nat)
      /\ Len(ioeventfds') = Len(ioeventfds) + Len(s)
      /\ \A i \in 1 .. Len(ioeventfds') :
           ioeventfds'[i] = IF i <= Len(ioeventfds) THEN ioeventfds[i]
                            ELSE s[i - Len(ioeventfds)]
  BY <1>5, <1>7, ConcatAt
<1>9. NumQueues <= Len(ioeventfds')
  BY <1>5, <1>7, <1>8
<1>10. ASSUME NEW i \in 1 .. NumQueues
       PROVE  ioeventfds'[i] = FirstFd(i - 1)
  <2>1. i \in 1 .. Len(ioeventfds')
    BY <1>8, <1>9
  <2>2. CASE activations = 0
    <3>1. Len(ioeventfds) = 0
      BY <2>2 DEF QueueInv
    <3>2. ioeventfds'[i] = s[i]
      BY <1>8, <2>1, <3>1
    <3> QED
      BY <1>6, <2>2, <3>2
  <2>3. CASE activations # 0
    <3>1. i <= Len(ioeventfds) /\ ioeventfds[i] = FirstFd(i - 1)
      BY <1>7, <2>3 DEF QueueInv
    <3> QED
      BY <1>8, <2>1, <3>1
  <2> QED
    BY <2>2, <2>3
<1>11. NotifyStaysInQueue'
  BY DEF NotifyStaysInQueue, NoKick
<1>12. ioeventfds' \in Seq(Nat)
  BY <1>8
<1>13. activations' \in Nat /\ activations' # 0
  BY <1>1
<1> QED
  BY <1>4, <1>9, <1>10, <1>11, <1>12, <1>13, Zenon DEF QueueInv

\* A notification goes to what is bound to the queue's address, or to what the
\* device keeps at the index (queue_notify).
LEMMA QueueNotified ==
  ASSUME QueueInv, NEW q \in Queues, NEW data \in NotifyValues(q), Notify(q, data)
  PROVE  NotifyStaysInQueue'
<1>1. kicked'.queue = q /\ activations' = activations
  BY DEF Notify, backendVars
<1> SUFFICES ASSUME kicked'.fd # None, kicked'.via = "queue_notify" => kicked'.data = q
             PROVE  kicked'.fd \in EventFds(q)
  BY <1>1 DEF NotifyStaysInQueue, EventFds
<1>2. CASE BoundAt(<<bar, q>>) # {}
  <2>1. PICK b \in ioBound : b.gpa = <<bar, q>> /\ b.fd = kicked'.fd
    BY <1>2 DEF Notify, BoundAt
  <2> QED
    BY <2>1 DEF QueueInv
<1>3. CASE BoundAt(<<bar, q>>) = {}
  <2>1. kicked'.fd = QueueNotifyFd(q)
    BY <1>3 DEF Notify
  <2>2. q < Len(ioeventfds) /\ kicked'.fd = ioeventfds[q + 1]
    BY <2>1 DEF QueueNotifyFd
  <2>3. ioeventfds \in Seq(Nat) /\ activations \in Nat
    BY DEF QueueInv
  <2>4. activations # 0
    BY <2>2, <2>3 DEF QueueInv, Queues
  <2>5. q + 1 \in 1 .. NumQueues /\ q + 1 <= Len(ioeventfds) /\ (q + 1) - 1 = q
    BY <2>2, <2>3, NumQueuesAssumption DEF Queues
  <2>6. kicked'.fd = FirstFd(q)
    BY <2>2, <2>5 DEF QueueInv
  <2>7. FirstFd(q) = 2 * (0 * NumQueues + q) + 1
    BY NumQueuesAssumption DEF FirstFd, Queues
  <2>8. 0 \in 0 .. activations - 1
    BY <2>3, <2>4
  <2> QED
    BY <2>6, <2>7, <2>8 DEF EventFds
<1> QED
  BY <1>2, <1>3

\* Every step keeps the eventfds with their queues.
LEMMA QueueStep ==
  ASSUME QueueInv, [Next]_vars
  PROVE  QueueInv'
<1>1. CASE UNCHANGED backendVars /\ (kicked' = NoKick \/ kicked' = kicked)
  BY <1>1, QueueQuiet DEF backendVars
<1>2. ASSUME NEW accepted \in BOOLEAN, Activate(accepted)
      PROVE  QueueInv'
  <2>1. kicked' = NoKick
    BY <1>2 DEF Activate
  <2>2. UNCHANGED backendVars \/ ActivateSucceeds
    BY <1>2 DEF Activate, ActivatePanics
  <2> QED
    BY <1>1, <2>1, <2>2, QueueActivate
<1>3. CASE Reset
  BY <1>3, QueueQuiet DEF Reset
<1>4. ASSUME NEW q \in Queues, NEW data \in NotifyValues(q), Notify(q, data)
      PROVE  QueueInv'
  <2>1. UNCHANGED <<activations, ioeventfds, ioBound>>
    BY <1>4 DEF Notify, backendVars
  <2>2. NotifyStaysInQueue'
    BY <1>4, QueueNotified
  <2> QED
    BY <2>1, <2>2 DEF QueueInv, EventFds
<1>5. CASE UNCHANGED vars
  BY <1>1, <1>5 DEF vars, backendVars
<1> QED
  BY <1>1, <1>2, <1>3, <1>4, <1>5
  DEF Next, WriteBar, WriteCommand, MmioMiss, SetMsiMessage, SetQueueMsixVector

\* However often the device is reset and activated again (activate appends and
\* binds, reset takes nothing back), a notification stays with its queue.
THEOREM NotifyStaysInQueueInvariant == Spec => []NotifyStaysInQueue
<1>1. Init => QueueInv
  BY DEF Init, QueueInv, NotifyStaysInQueue, NoKick
<1>2. QueueInv /\ [Next]_vars => QueueInv'
  BY QueueStep
<1>3. QueueInv => NotifyStaysInQueue
  BY DEF QueueInv
<1> QED
  BY <1>1, <1>2, <1>3, PTL DEF Spec

=============================================================================
