------------------------------- MODULE IoLoop -------------------------------
(***************************************************************************)
(* The device model's start (greens-sel4-pci-vhost-net/src/main.rs) and    *)
(* its request loop: DeviceModel::run (device_model.rs) over               *)
(* Sel4IoInterface::handle_next_io (greens-sel4/src/io_interface.rs) and   *)
(* DriverRpc (rpc.rs).                                                     *)
(*                                                                         *)
(* The vCPUs of the guest put I/O requests into a queue in shared memory   *)
(* and stop until they are answered.  The process sets everything up first *)
(* and ends at the first step that fails; the loop starts the guest in its *)
(* first turn.  A turn waits for one wakeup of the kernel and takes one    *)
(* request, without a look at the queue before it waits.  It ends at the   *)
(* first error, and with a panic when the device refuses an access.        *)
(*                                                                         *)
(* The kernel and the queue are external.  A request leaves the kernel     *)
(* with a wakeup to deliver, which it may merge with one it already has,   *)
(* and SEL4_WAIT_IO may return without one: nothing in wait_io says more. *)
(***************************************************************************)
EXTENDS Naturals, Sequences

CONSTANTS
  Vcpus,     \* the guest's virtual CPUs
  Values,    \* the data of a write, and what the device reads as
  AllOnes,   \* what an absent device reads as
  Own,       \* device_model_id, from the command line
  Cmdlines,  \* kernel command lines
  MaxWakeups, \* wakeups the kernel remembers: 1 merges them all
  None       \* no request, no answer, a field that does not parse

\* A request is for the config space or a BAR of the device, or for the config
\* space of a device that is not there (any device number but 0).
Requests ==
  [from : Vcpus, space : {"config", "mmio", "absent"},
   op : {"read"}, data : {None}]
    \cup
  [from : Vcpus, space : {"config", "mmio", "absent"},
   op : {"write"}, data : Values]

ASSUME ValuesAssumption == AllOnes \notin Values /\ None \notin Values \cup {AllOnes}
ASSUME MaxWakeupsAssumption == MaxWakeups \in Nat \ {0}
ASSUME RequestsAssumption == None \notin Requests

\* A command line is a list of parameters: a name, and what parsed of an
\* identity and of a region.
ASSUME CmdlinesAssumption ==
  \A c \in Cmdlines :
    /\ Len(c) \in Nat /\ DOMAIN c = 1 .. Len(c)
    /\ \A i \in DOMAIN c :
         c[i] = [name |-> c[i].name, id |-> c[i].id, ram |-> c[i].ram]

VARIABLES
  cmdline,   \* the parameters of the kernel command line
  held,      \* the steps of the start that are done
  memory,    \* the RAM of the guest that was mapped
  ready,     \* Sel4IoInterface.ready: the guest was started
  pc,        \* where the loop is, or how it ended
  wakeups,   \* wakeups the kernel remembers
  queue,     \* the request queue
  current,   \* the request the loop has taken
  output,    \* what its handler returned
  request,   \* by vCPU, the request it waits for
  answer     \* by vCPU, the answer to its last request

startVars == <<cmdline, held, memory>>
ioVars == <<startVars, ready, pc, wakeups, queue, current, output, request, answer>>
guestVars == <<request, answer>>

Running == {"loop", "wait", "dequeue", "handle", "complete"}

IoInit ==
  /\ cmdline \in Cmdlines /\ held = {} /\ memory = None
  /\ ready = FALSE /\ pc = "start"
  /\ wakeups = 0 /\ queue = <<>>
  /\ current = None /\ output = None
  /\ request = [c \in Vcpus |-> None]
  /\ answer = [c \in Vcpus |-> None]

-----------------------------------------------------------------------------
(***************************************************************************)
(* The start: the configuration, the virtual machine with its memory and   *)
(* request channel (Sel4IoInterface::new), its PCI device, the guest       *)
(* memory, the vhost backend, the TAP and the PCI function                 *)
(* (DeviceModel::new).  A step that fails ends the process, by an error or *)
(* by a panic; what it holds goes with it.                                 *)
(***************************************************************************)
Mappings == <<"ram", "iobuf", "event">>
InterfaceSteps == <<"config", "vm">> \o Mappings \o <<"rpc">>
DeviceSteps == <<"backend", "tap", "function">>
Steps == InterfaceSteps \o <<"vpci", "memory">> \o DeviceSteps
Resources == {Steps[i] : i \in DOMAIN Steps}

\* kernel_param: the parameters whose names start with "uservm".
UserVms == {i \in DOMAIN cmdline : cmdline[i].name \in {"uservm", "uservmx"}}

\* IoInterfaceConfig::try_from, parse_u64: the identity and every field of the
\* region are numbers.
ParamParses(p) == p.id # None /\ p.ram # None

\* parse_io_interface_configs: all of them have to parse.
Parses == \A i \in UserVms : cmdline[i].name = "uservm" /\ ParamParses(cmdline[i])

IoInterfaceConfigFirst ==
  LET own == {i \in UserVms : cmdline[i].id = Own}
  IN IF Parses /\ own # {}
       THEN cmdline[CHOOSE i \in own : \A j \in own : i <= j].ram ELSE None

\* io_interface_config: of several parameters for one identity the last one
\* counts.  NoIoInterfaceConfig and ParseIoInterface are None.
IoInterfaceConfig ==
  LET own == {i \in UserVms : cmdline[i].id = Own}
  IN IF Parses /\ own # {}
       THEN cmdline[CHOOSE i \in own : \A j \in own : i >= j].ram ELSE None

\* The next step of the start; "ok" when the kernel grants it.
Start(ok) ==
  LET next == CHOOSE i \in DOMAIN Steps :
                Steps[i] \notin held /\ \A j \in 1 .. i - 1 : Steps[j] \in held
      step == Steps[next]
  IN /\ pc = "start"
     /\ IF ok /\ (step = "config" => IoInterfaceConfig # None)
          THEN /\ held' = held \cup {step}
               /\ memory' = IF step = "memory" THEN IoInterfaceConfig ELSE memory
               /\ pc' = IF next = Len(Steps) THEN "loop" ELSE "start"
          ELSE held' = {} /\ memory' = None /\ pc' = "failed"
     /\ UNCHANGED <<cmdline, ready, wakeups, queue, current, output, guestVars>>

-----------------------------------------------------------------------------
(***************************************************************************)
(* The guest and the kernel (external).                                    *)
(***************************************************************************)
\* A vCPU stops at an access: its request is queued, and the kernel has a
\* wakeup for the loop, a new one or one it had before.
Issue(r) ==
  /\ ready
  /\ request[r.from] = None
  /\ request' = [request EXCEPT ![r.from] = r]
  /\ answer' = [answer EXCEPT ![r.from] = None]
  /\ queue' = Append(queue, r)
  /\ wakeups' \in {wakeups, wakeups + 1} \cap 1 .. MaxWakeups
  /\ UNCHANGED <<startVars, ready, pc, current, output>>

-----------------------------------------------------------------------------
(***************************************************************************)
(* The loop.                                                               *)
(***************************************************************************)

\* signal_ready: SEL4_START_VM, once.
SignalReady(ok) ==
  /\ pc = "loop"
  /\ ready' = (ready \/ ok)
  /\ pc' = IF ready \/ ok THEN "wait" ELSE "SignalReady"
  /\ UNCHANGED <<startVars, wakeups, queue, current, output, guestVars>>

\* wait_io: SEL4_WAIT_IO returns when there is a wakeup.
WaitIo ==
  /\ pc = "wait"
  /\ wakeups > 0
  /\ wakeups' = wakeups - 1
  /\ pc' = "dequeue"
  /\ UNCHANGED <<startVars, ready, queue, current, output, guestVars>>

\* ... or early, for whatever reason the kernel has.
WaitIoEarly ==
  /\ pc = "wait"
  /\ pc' = "dequeue"
  /\ UNCHANGED <<startVars, ready, wakeups, queue, current, output, guestVars>>

\* ... or fails, which ends the loop.
WaitIoFails ==
  /\ pc = "wait"
  /\ pc' = "WaitIo"
  /\ UNCHANGED <<startVars, ready, wakeups, queue, current, output, guestVars>>

\* try_dequeue_ioreq
Dequeue ==
  /\ pc = "dequeue"
  /\ IF queue = <<>>
       THEN pc' = "RequestQueueEmpty" /\ UNCHANGED <<queue, current>>
       ELSE pc' = "handle" /\ current' = Head(queue) /\ queue' = Tail(queue)
  /\ UNCHANGED <<startVars, ready, wakeups, output, guestVars>>

\* The closure of run: a read returns the bytes it read, a write nothing.
Handle(value) ==
  /\ pc = "handle"
  /\ output' = CASE current.op = "write" -> None
                 [] current.op = "read" /\ current.space = "absent" -> AllOnes
                 [] OTHER -> value
  /\ pc' = "complete"
  /\ UNCHANGED <<startVars, ready, wakeups, queue, current, guestVars>>

\* The device returns an error, which run unwraps.
HandlePanics ==
  /\ pc = "handle"
  /\ current.space # "absent"
  /\ pc' = "panicked"
  /\ UNCHANGED <<startVars, ready, wakeups, queue, current, output, guestVars>>

CompleteReadsOnly ==
  /\ pc = "complete"
  /\ answer' = [answer EXCEPT ![current.from] = output]
  /\ request' = [request EXCEPT ![current.from] =
                   IF output = None THEN current ELSE None]
  /\ current' = None /\ output' = None
  /\ pc' = "loop"
  /\ UNCHANGED <<startVars, ready, wakeups, queue>>

CompleteWithOutput ==
  /\ pc = "complete"
  /\ answer' = [answer EXCEPT ![current.from] = output]
  /\ request' = [request EXCEPT ![current.from] = None]
  /\ current' = None /\ output' = None
  /\ pc' = "loop"
  /\ UNCHANGED <<startVars, ready, wakeups, queue>>

\* try_complete_ioreq: the answer goes back in the request's message, with the
\* data of the request when the handler returned none.
Complete ==
  /\ pc = "complete"
  /\ answer' = [answer EXCEPT ![current.from] =
                  IF output = None THEN current.data ELSE output]
  /\ request' = [request EXCEPT ![current.from] = None]
  /\ current' = None /\ output' = None
  /\ pc' = "loop"
  /\ UNCHANGED <<startVars, ready, wakeups, queue>>

\* The answer queue refuses the message.
CompleteFails ==
  /\ pc = "complete"
  /\ pc' = "IoRequestComplete"
  /\ UNCHANGED <<startVars, ready, wakeups, queue, current, output, guestVars>>

Progress ==
  \/ SignalReady(TRUE)
  \/ WaitIo
  \/ Dequeue
  \/ \E value \in Values : Handle(value)
  \/ Complete

IoNext ==
  \/ \E ok \in BOOLEAN : Start(ok)
  \/ \E ok \in BOOLEAN : SignalReady(ok)
  \/ WaitIo \/ WaitIoEarly \/ WaitIoFails
  \/ Dequeue
  \/ \E value \in Values : Handle(value)
  \/ HandlePanics
  \/ Complete \/ CompleteFails
  \/ \E r \in Requests : Issue(r)

IoSpec == IoInit /\ [][IoNext]_ioVars

\* The loop is a thread of its own that the kernel keeps scheduling, and
\* SEL4_WAIT_IO returns once there is a wakeup.
IoFairSpec == IoSpec /\ WF_ioVars(Progress)

-----------------------------------------------------------------------------
(***************************************************************************)
(* Properties.                                                             *)
(***************************************************************************)

\* A guest that runs finds a device model that is complete, and one that looks
\* at the guest's own RAM: the region of the last "uservm" parameter with its
\* identity, whatever other machines the kernel command line describes.
GuestStartsComplete ==
  ready /\ pc \in Running =>
    /\ held = Resources
    /\ \E i \in DOMAIN cmdline :
         /\ cmdline[i] = [name |-> "uservm", id |-> Own, ram |-> memory]
         /\ \A j \in i + 1 .. Len(cmdline) :
              cmdline[j].name = "uservm" => cmdline[j].id # Own

\* A vCPU that is stopped has its request in the queue once, or in the hands
\* of the loop, and nowhere twice: none is lost between the queue, the handler
\* and the answer, and none is handled twice.
RequestsTracked ==
  \A c \in Vcpus :
    LET places == {i \in 1 .. Len(queue) : queue[i].from = c} IN
    /\ \A i, j \in places : i = j
    /\ \A i \in places : queue[i] = request[c]
    /\ current # None /\ current.from = c => current = request[c] /\ places = {}
    /\ request[c] # None => places # {} \/ (current # None /\ current.from = c)

\* What a request may be answered with.
Answers(r) ==
  CASE r.op = "write" -> {r.data}
    [] r.op = "read" /\ r.space = "absent" -> {AllOnes}
    [] OTHER -> Values

\* A vCPU resumes with the answer to its own request, however the requests of
\* the others interleave: the data of its write, all ones from a device that
\* is not there, else a value of the device.
AnswersFit ==
  [][\A c \in Vcpus : request[c] # None /\ request'[c] = None =>
       answer'[c] \in Answers(request[c])]_ioVars

\* The loop sits in SEL4_WAIT_IO over requests for which no wakeup will come.
Blocked == pc = "wait" /\ wakeups = 0 /\ queue # <<>>

\* Every request is answered while the loop runs.  What may keep a request
\* waiting for good is the one thing wait_io leaves to the kernel: wakeups
\* that were merged while requests kept queueing, so that the loop blocks
\* although the queue is not empty.
RequestsAnswered ==
  \A c \in Vcpus :
    request[c] # None ~> request[c] = None \/ pc \notin Running \/ []Blocked

=============================================================================
