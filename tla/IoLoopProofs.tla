---------------------------- MODULE IoLoopProofs ----------------------------
(***************************************************************************)
(* Proofs about IoLoop, for any number of vCPUs.                           *)
(*                                                                         *)
(* The kernel's wakeups have no part in them: the safety of the loop rests *)
(* on the queue and on the request in its hand alone.                      *)
(***************************************************************************)
EXTENDS IoLoop, TLAPS, WellFoundedInduction

-----------------------------------------------------------------------------
(***************************************************************************)
(* Requests.  RequestsTracked is nearly inductive: it needs that a turn    *)
(* takes a request only when it has none, and that a vCPU waits for a      *)
(* request of its own.                                                     *)
(***************************************************************************)
TrackTypes ==
  /\ queue \in Seq(Requests)
  /\ request \in [Vcpus -> Requests \cup {None}]
  /\ current \in Requests \cup {None}

OwnRequests == \A c \in Vcpus : request[c] # None => request[c].from = c

HandsFree ==
  /\ pc \in {"start", "loop", "wait", "dequeue"} => current = None
  /\ pc \in {"handle", "complete"} => current # None

TrackInv == TrackTypes /\ OwnRequests /\ HandsFree /\ RequestsTracked

\* The steps that move no request.
LEMMA TrackQuiet ==
  ASSUME TrackInv, UNCHANGED <<queue, current, request>>, HandsFree'
  PROVE  TrackInv'
  BY DEF TrackInv, TrackTypes, OwnRequests, RequestsTracked

\* A vCPU that stops puts its one request into the queue.
LEMMA IssueTracked ==
  ASSUME TrackInv, NEW r \in Requests, Issue(r)
  PROVE  TrackInv'
<1>1. /\ queue \in Seq(Requests) /\ request \in [Vcpus -> Requests \cup {None}]
      /\ r.from \in Vcpus /\ r # None /\ request[r.from] = None
  BY RequestsAssumption DEF TrackInv, TrackTypes, Issue, Requests
<1>2. /\ request' = [request EXCEPT ![r.from] = r]
      /\ queue' = Append(queue, r) /\ UNCHANGED <<pc, current>>
  BY DEF Issue
<1>3. /\ queue' \in Seq(Requests) /\ Len(queue') = Len(queue) + 1 /\ Len(queue) \in Nat
      /\ queue'[Len(queue) + 1] = r /\ \A i \in 1 .. Len(queue) : queue'[i] = queue[i]
  BY <1>1, <1>2
<1>4. TrackTypes' /\ OwnRequests' /\ HandsFree'
  <2>1. request' \in [Vcpus -> Requests \cup {None}]
    BY <1>1, <1>2
  <2>2. OwnRequests'
    BY <1>1, <1>2 DEF TrackInv, OwnRequests
  <2> QED
    BY <1>2, <1>3, <2>1, <2>2 DEF TrackInv, TrackTypes, HandsFree
<1>5. ASSUME NEW i \in 1 .. Len(queue)
      PROVE  queue[i].from # r.from
  <2>1. queue[i] \in Requests
    BY <1>1
  <2>2. queue[i].from = r.from => queue[i] = request[r.from]
    BY <1>1 DEF TrackInv, RequestsTracked
  <2> QED
    BY <1>1, <2>1, <2>2, RequestsAssumption
<1>6. current # None => current.from # r.from
  <2>1. current # None /\ current.from = r.from => current = request[r.from]
    BY <1>1 DEF TrackInv, RequestsTracked
  <2> QED
    BY <1>1, <2>1
<1>7. ASSUME NEW c \in Vcpus
      PROVE  LET places == {i \in 1 .. Len(queue') : queue'[i].from = c} IN
             /\ \A i, j \in places : i = j
             /\ \A i \in places : queue'[i] = request'[c]
             /\ current' # None /\ current'.from = c => current' = request'[c] /\ places = {}
             /\ request'[c] # None => places # {} \/ (current' # None /\ current'.from = c)
  <2> DEFINE places == {i \in 1 .. Len(queue) : queue[i].from = c}
             placesN == {i \in 1 .. Len(queue') : queue'[i].from = c}
  <2>1. /\ \A i, j \in places : i = j
        /\ \A i \in places : queue[i] = request[c]
        /\ current # None /\ current.from = c => current = request[c] /\ places = {}
        /\ request[c] # None => places # {} \/ (current # None /\ current.from = c)
    BY DEF TrackInv, RequestsTracked
  <2>2. CASE c = r.from
    <3>1. placesN = {Len(queue) + 1}
      BY <1>3, <1>5, <2>2
    <3>2. request'[c] = r
      BY <1>1, <1>2, <2>2
    <3> HIDE DEF placesN
    <3>3. current' # None => current'.from # c
      BY <1>2, <1>6, <2>2
    <3>4. \A i \in placesN : queue'[i] = request'[c]
      BY <1>3, <3>1, <3>2
    <3> QED
      BY <3>1, <3>3, <3>4 DEF placesN
  <2>3. CASE c # r.from
    <3>1. placesN = places
      BY <1>3, <2>3
    <3>2. request'[c] = request[c]
      BY <1>1, <1>2, <2>3
    <3>3. \A i \in places : queue'[i] = queue[i]
      BY <1>3
    <3> HIDE DEF placesN, places
    <3>4. /\ \A i, j \in placesN : i = j
          /\ \A i \in placesN : queue'[i] = request'[c]
          /\ current' # None /\ current'.from = c => current' = request'[c] /\ placesN = {}
          /\ request'[c] # None => placesN # {} \/ (current' # None /\ current'.from = c)
      BY <1>2, <2>1, <3>1, <3>2, <3>3
    <3> QED
      BY <3>4 DEF placesN
  <2> QED
    BY <2>2, <2>3
<1>8. RequestsTracked'
  BY <1>7 DEF RequestsTracked
<1> QED
  BY <1>4, <1>8 DEF TrackInv

\* The loop takes the first request of the queue into its hand.
LEMMA DequeueTracked ==
  ASSUME TrackInv, Dequeue
  PROVE  TrackInv'
<1>1. queue \in Seq(Requests) /\ current = None
  BY DEF TrackInv, TrackTypes, HandsFree, Dequeue
<1>2. CASE queue = <<>>
  <2>1. UNCHANGED <<queue, current, request>> /\ HandsFree'
    BY <1>2 DEF Dequeue, guestVars, HandsFree
  <2> QED
    BY <2>1, TrackQuiet
<1>3. CASE queue # <<>>
  <2>1. /\ pc' = "handle" /\ current' = queue[1] /\ queue' = Tail(queue) /\ request' = request
    BY <1>1, <1>3 DEF Dequeue, guestVars
  <2>2. /\ Len(queue) \in Nat /\ 1 \in 1 .. Len(queue) /\ queue[1] \in Requests
        /\ queue' \in Seq(Requests) /\ Len(queue') = Len(queue) - 1
        /\ \A i \in 1 .. Len(queue) - 1 : queue'[i] = queue[i + 1]
    BY <1>1, <1>3, <2>1
  <2>3. TrackTypes' /\ OwnRequests' /\ HandsFree'
    BY <2>1, <2>2, RequestsAssumption DEF TrackInv, TrackTypes, OwnRequests, HandsFree
  <2>4. ASSUME NEW c \in Vcpus
        PROVE  LET places == {i \in 1 .. Len(queue') : queue'[i].from = c} IN
               /\ \A i, j \in places : i = j
               /\ \A i \in places : queue'[i] = request'[c]
               /\ current' # None /\ current'.from = c => current' = request'[c] /\ places = {}
               /\ request'[c] # None => places # {} \/ (current' # None /\ current'.from = c)
    <3> DEFINE places == {i \in 1 .. Len(queue) : queue[i].from = c}
               placesN == {i \in 1 .. Len(queue') : queue'[i].from = c}
    <3>1. /\ \A i, j \in places : i = j
          /\ \A i \in places : queue[i] = request[c]
          /\ request[c] # None => places # {}
      BY <1>1 DEF TrackInv, RequestsTracked
    <3>2. \A i \in placesN : i \in Nat /\ i + 1 \in places /\ queue'[i] = queue[i + 1] /\ i # 0
      BY <2>2
    <3>3. 1 \in places <=> current'.from = c
      BY <2>1, <2>2
    <3>4. ASSUME NEW i \in places, i # 1
          PROVE  i - 1 \in placesN
      <4>1. i - 1 \in 1 .. Len(queue) - 1 /\ (i - 1) + 1 = i
        BY <2>2, <3>4
      <4>2. queue'[i - 1] = queue[i]
        BY <2>2, <4>1
      <4> QED
        BY <2>2, <4>1, <4>2
    <3> HIDE DEF places, placesN
    <3>5. \A i, j \in placesN : i = j
      BY <3>1, <3>2
    <3>6. \A i \in placesN : queue'[i] = request'[c]
      BY <2>1, <3>1, <3>2
    <3>7. current'.from = c => current' = request'[c] /\ placesN = {}
      <4>1. SUFFICES ASSUME 1 \in places
                     PROVE  current' = request'[c] /\ placesN = {}
        BY <3>3
      <4>2. current' = request'[c]
        BY <2>1, <3>1, <4>1
      <4>3. ASSUME NEW i \in placesN
            PROVE  FALSE
        BY <3>1, <3>2, <4>1
      <4> QED
        BY <4>2, <4>3
    <3>8. request'[c] # None => placesN # {} \/ current'.from = c
      BY <2>1, <3>1, <3>3, <3>4
    <3>9. current' # None
      BY <2>1, <2>2, RequestsAssumption
    <3> QED
      BY <3>5, <3>6, <3>7, <3>8, <3>9 DEF placesN
  <2>5. RequestsTracked'
    BY <2>4 DEF RequestsTracked
  <2> QED
    BY <2>3, <2>5 DEF TrackInv
<1> QED
  BY <1>2, <1>3

\* The request that is completed is nowhere afterwards.
LEMMA CompleteTracked ==
  ASSUME TrackInv, Complete
  PROVE  TrackInv'
<1>1. /\ current \in Requests /\ current # None
      /\ request \in [Vcpus -> Requests \cup {None}]
  BY DEF TrackInv, TrackTypes, HandsFree, Complete
<1>2. /\ request' = [request EXCEPT ![current.from] = None]
      /\ current' = None /\ queue' = queue /\ pc' = "loop"
  BY DEF Complete
<1>3. current.from \in Vcpus
  BY <1>1 DEF Requests
<1>4. TrackTypes' /\ OwnRequests' /\ HandsFree'
  <2>1. request' \in [Vcpus -> Requests \cup {None}]
    BY <1>1, <1>2
  <2>2. OwnRequests'
    BY <1>1, <1>2, <1>3 DEF TrackInv, OwnRequests
  <2> QED
    BY <1>2, <2>1, <2>2 DEF TrackInv, TrackTypes, HandsFree
<1>5. ASSUME NEW c \in Vcpus
      PROVE  LET places == {i \in 1 .. Len(queue') : queue'[i].from = c} IN
             /\ \A i, j \in places : i = j
             /\ \A i \in places : queue'[i] = request'[c]
             /\ current' # None /\ current'.from = c => current' = request'[c] /\ places = {}
             /\ request'[c] # None => places # {} \/ (current' # None /\ current'.from = c)
  <2> DEFINE places == {i \in 1 .. Len(queue) : queue[i].from = c}
  <2>1. /\ \A i, j \in places : i = j
        /\ \A i \in places : queue[i] = request[c]
        /\ current.from = c => places = {}
        /\ request[c] # None => places # {} \/ current.from = c
    BY <1>1 DEF TrackInv, RequestsTracked
  <2> HIDE DEF places
  <2>2. request'[c] = IF c = current.from THEN None ELSE request[c]
    BY <1>1, <1>2, <1>3
  <2>3. /\ \A i \in places : queue'[i] = request'[c]
        /\ request'[c] # None => places # {}
    BY <1>2, <2>1, <2>2
  <2> QED
    BY <1>2, <2>1, <2>3 DEF places
<1>6. RequestsTracked'
  BY <1>5 DEF RequestsTracked
<1> QED
  BY <1>4, <1>6 DEF TrackInv

\* Every step keeps track of the requests.
LEMMA TrackStep == TrackInv /\ [IoNext]_ioVars => TrackInv'
<1> SUFFICES ASSUME TrackInv, [IoNext]_ioVars PROVE TrackInv'
  OBVIOUS
<1>1. HandsFree
  BY DEF TrackInv
<1>2. CASE \E ok \in BOOLEAN : Start(ok)
  <2>1. PICK ok \in BOOLEAN : Start(ok)
    BY <1>2
  <2>2. pc = "start" /\ pc' \in {"start", "loop", "failed"}
        /\ UNCHANGED <<queue, current, request>>
    BY <2>1 DEF Start, guestVars
  <2> QED
    BY <1>1, <2>2, TrackQuiet DEF HandsFree
<1>3. CASE \E ok \in BOOLEAN : SignalReady(ok)
  BY <1>1, <1>3, TrackQuiet DEF SignalReady, guestVars, HandsFree
<1>4. CASE WaitIo \/ WaitIoEarly \/ WaitIoFails
  BY <1>1, <1>4, TrackQuiet DEF WaitIo, WaitIoEarly, WaitIoFails, guestVars, HandsFree
<1>5. CASE Dequeue
  BY <1>5, DequeueTracked
<1>6. CASE (\E value \in Values : Handle(value)) \/ HandlePanics
  BY <1>1, <1>6, TrackQuiet DEF Handle, HandlePanics, guestVars, HandsFree
<1>7. CASE Complete
  BY <1>7, CompleteTracked
<1>8. CASE CompleteFails
  BY <1>1, <1>8, TrackQuiet DEF CompleteFails, guestVars, HandsFree
<1>9. CASE \E r \in Requests : Issue(r)
  BY <1>9, IssueTracked
<1>10. CASE UNCHANGED ioVars
  BY <1>1, <1>10, TrackQuiet DEF ioVars, HandsFree
<1> QED
  BY <1>2, <1>3, <1>4, <1>5, <1>6, <1>7, <1>8, <1>9, <1>10 DEF IoNext

\* However many vCPUs there are, no request is lost between the queue, the
\* handler and the answer, and none is handled twice.
THEOREM RequestsTrackedInvariant == IoSpec => []RequestsTracked
<1>1. IoInit => TrackInv
  BY DEF IoInit, TrackInv, TrackTypes, OwnRequests, HandsFree, RequestsTracked
<1>2. TrackInv => RequestsTracked
  BY DEF TrackInv
<1> QED
  BY <1>1, <1>2, TrackStep, PTL DEF IoSpec

-----------------------------------------------------------------------------
(***************************************************************************)
(* Answers.  What the handler returned fits the request it was given, and  *)
(* RequestsTracked says whose request that is.                             *)
(***************************************************************************)
OutputFits ==
  pc = "complete" =>
    output \in IF current.op = "write" THEN {None} ELSE Answers(current)

\* Every vCPU has an answer, if none yet.
HasAnswer == DOMAIN answer = Vcpus

\* A request reads or writes, and carries data only when it writes.
LEMMA RequestFields ==
  ASSUME NEW r \in Requests
  PROVE  /\ r.op \in {"read", "write"} /\ r.from \in Vcpus
         /\ r.op = "write" => r.data \in Values
  BY DEF Requests

\* Answers are replaced, never added.
LEMMA HasAnswerStep == HasAnswer /\ [IoNext]_ioVars => HasAnswer'
BY DEF HasAnswer, IoNext, ioVars, Start, SignalReady, WaitIo, WaitIoEarly, WaitIoFails, Dequeue, Handle,
       HandlePanics, Complete, CompleteFails, Issue, guestVars

\* A handler's output fits the request that the turn holds.
LEMMA OutputStep == TrackInv /\ OutputFits /\ [IoNext]_ioVars => OutputFits'
<1> SUFFICES ASSUME TrackInv, OutputFits, [IoNext]_ioVars PROVE OutputFits'
  OBVIOUS
<1>1. ASSUME NEW value \in Values, Handle(value)
      PROVE  OutputFits'
  <2>1. current \in Requests /\ current' = current
    BY <1>1 DEF Handle, TrackInv, TrackTypes, HandsFree
  <2>2. current.op \in {"read", "write"}
    BY <2>1, RequestFields
  <2>3. CASE current.op = "write"
    BY <1>1, <2>1, <2>3 DEF Handle, OutputFits
  <2>4. CASE current.op = "read"
    BY <1>1, <2>1, <2>4 DEF Handle, OutputFits, Answers
  <2> QED
    BY <2>2, <2>3, <2>4
<1>2. CASE pc' # "complete"
  BY <1>2 DEF OutputFits
<1>3. CASE UNCHANGED <<pc, current, output>>
  BY <1>3 DEF OutputFits, Answers
<1> QED
  BY <1>1, <1>2, <1>3
  DEF IoNext, ioVars, Start, SignalReady, WaitIo, WaitIoEarly, WaitIoFails, Dequeue, HandlePanics,
      Complete, CompleteFails, Issue

\* However many vCPUs wait, and in whatever order their requests are taken, a
\* vCPU resumes with an answer to the request it made (run's closure,
\* try_complete_ioreq).
THEOREM AnswersFitTheorem == IoSpec => AnswersFit
<1>1. IoInit => TrackInv /\ OutputFits /\ HasAnswer
  BY DEF IoInit, TrackInv, TrackTypes, OwnRequests, HandsFree, RequestsTracked, OutputFits,
      HasAnswer
<1>2. ASSUME TrackInv, OutputFits, HasAnswer, IoNext,
             NEW c \in Vcpus, request[c] # None, request'[c] = None
      PROVE  answer'[c] \in Answers(request[c])
  <2>1. ~\E r \in Requests : Issue(r)
    <3> SUFFICES ASSUME NEW r \in Requests, Issue(r) PROVE FALSE
      OBVIOUS
    <3>1. request' = [request EXCEPT ![r.from] = r]
      BY DEF Issue
    <3> QED
      BY <1>2, <3>1, RequestsAssumption DEF TrackInv, TrackTypes
  <2>2. Complete
    BY <1>2, <2>1
    DEF IoNext, Start, SignalReady, WaitIo, WaitIoEarly, WaitIoFails, Dequeue, Handle, HandlePanics,
        CompleteFails, guestVars
  <2>3. /\ request' = [request EXCEPT ![current.from] = None]
        /\ answer' = [answer EXCEPT ![current.from] =
                        IF output = None THEN current.data ELSE output]
    BY <2>2 DEF Complete
  <2>4. current.from = c /\ current \in Requests
    BY <1>2, <2>2, <2>3 DEF Complete, TrackInv, TrackTypes, HandsFree
  <2>5. current = request[c]
    BY <1>2, <2>2, <2>4 DEF Complete, TrackInv, HandsFree, RequestsTracked
  <2>6. answer'[c] = IF output = None THEN current.data ELSE output
    BY <1>2, <2>3, <2>4 DEF HasAnswer
  <2>7. (IF output = None THEN current.data ELSE output) \in Answers(current)
    <3>1. output \in IF current.op = "write" THEN {None} ELSE Answers(current)
      BY <1>2, <2>2 DEF OutputFits, Complete
    <3>2. CASE current.op = "write"
      BY <3>1, <3>2 DEF Answers
    <3>3. CASE current.op = "read"
      <4>1. output \in Answers(current) /\ Answers(current) \in {{AllOnes}, Values}
        BY <3>1, <3>3 DEF Answers
      <4>2. output # None
        BY <4>1, ValuesAssumption
      <4> QED
        BY <4>1, <4>2
    <3> QED
      BY <2>4, <3>2, <3>3, RequestFields
  <2> QED
    BY <2>5, <2>6, <2>7
<1>3. TrackInv /\ OutputFits /\ HasAnswer /\ [IoNext]_ioVars =>
        [\A c \in Vcpus : request[c] # None /\ request'[c] = None =>
           answer'[c] \in Answers(request[c])]_ioVars
  BY <1>2
<1> QED
  BY <1>1, <1>3, TrackStep, OutputStep, HasAnswerStep, PTL DEF IoSpec, AnswersFit

-----------------------------------------------------------------------------
(***************************************************************************)
(* The start.  The steps that are done are the first ones of the list, so  *)
(* the loop starts when all are, the configuration and the guest memory    *)
(* among them.                                                             *)
(***************************************************************************)
Names == {"config", "vm", "ram", "iobuf", "event", "rpc", "vpci", "memory",
          "backend", "tap", "function"}

\* The steps of Sel4IoInterface::new, one by one.
LEMMA Interface ==
  /\ InterfaceSteps \in Seq(Names) /\ Len(InterfaceSteps) = 6
  /\ InterfaceSteps[1] = "config" /\ InterfaceSteps[2] = "vm"
  /\ InterfaceSteps[3] = "ram" /\ InterfaceSteps[4] = "iobuf"
  /\ InterfaceSteps[5] = "event" /\ InterfaceSteps[6] = "rpc"
  <1> DEFINE a == <<"config", "vm">>
             r == <<"rpc">>
             am == a \o Mappings
             s == am \o r
  <1>1. a \in Seq(Names) /\ Len(a) = 2 /\ a[1] = "config" /\ a[2] = "vm"
    BY DEF Names
  <1>2. /\ Mappings \in Seq(Names) /\ Len(Mappings) = 3
        /\ Mappings[1] = "ram" /\ Mappings[2] = "iobuf" /\ Mappings[3] = "event"
    BY DEF Names, Mappings
  <1>3. r \in Seq(Names) /\ Len(r) = 1 /\ r[1] = "rpc"
    BY DEF Names
  <1>joins. am = a \o Mappings /\ s = am \o r /\ InterfaceSteps = s
    BY DEF InterfaceSteps
  <1>types. a \in Seq(Names) /\ Mappings \in Seq(Names) /\ r \in Seq(Names)
    BY <1>1, <1>2, <1>3
  <1> HIDE DEF a, r, am, s
  <1>4. am \in Seq(Names) /\ Len(am) = Len(a) + Len(Mappings)
    BY <1>types, <1>joins
  <1>5. \A i \in 1 .. Len(a) : am[i] = a[i]
    BY <1>types, <1>joins
  <1>6. \A i \in Len(a) + 1 .. Len(a) + Len(Mappings) : am[i] = Mappings[i - Len(a)]
    BY <1>types, <1>joins
  <1>7. Len(am) = 5 /\ am[1] = "config" /\ am[2] = "vm" /\ am[3] = "ram"
        /\ am[4] = "iobuf" /\ am[5] = "event"
    BY <1>1, <1>2, <1>4, <1>5, <1>6
  <1>8. s \in Seq(Names) /\ Len(s) = Len(am) + Len(r)
    BY <1>types, <1>4, <1>joins
  <1>9. \A i \in 1 .. Len(am) : s[i] = am[i]
    BY <1>types, <1>4, <1>joins
  <1>10. \A i \in Len(am) + 1 .. Len(am) + Len(r) : s[i] = r[i - Len(am)]
    BY <1>types, <1>4, <1>joins
  <1>12. QED
    BY <1>3, <1>7, <1>8, <1>9, <1>10, <1>joins

\* The start takes eleven steps: the configuration first, the guest memory eighth.
LEMMA StepList ==
  /\ Steps \in Seq(Names) /\ Len(Steps) = 11 /\ DOMAIN Steps = 1 .. 11
  /\ Steps[1] = "config" /\ Steps[2] = "vm" /\ Steps[3] = "ram" /\ Steps[4] = "iobuf"
  /\ Steps[5] = "event" /\ Steps[6] = "rpc" /\ Steps[7] = "vpci" /\ Steps[8] = "memory"
  /\ Steps[9] = "backend" /\ Steps[10] = "tap" /\ Steps[11] = "function"
  <1> DEFINE a == InterfaceSteps
             b == <<"vpci", "memory">>
             ab == a \o b
             s == ab \o DeviceSteps
  <1>0. /\ a \in Seq(Names) /\ Len(a) = 6
        /\ a[1] = "config" /\ a[2] = "vm" /\ a[3] = "ram" /\ a[4] = "iobuf"
        /\ a[5] = "event" /\ a[6] = "rpc"
    BY Interface
  <1>1. b \in Seq(Names) /\ Len(b) = 2 /\ b[1] = "vpci" /\ b[2] = "memory"
    BY DEF Names
  <1>2. /\ DeviceSteps \in Seq(Names) /\ Len(DeviceSteps) = 3
        /\ DeviceSteps[1] = "backend" /\ DeviceSteps[2] = "tap" /\ DeviceSteps[3] = "function"
    BY DEF Names, DeviceSteps
  <1>joins. ab = a \o b /\ s = ab \o DeviceSteps /\ Steps = s
    BY DEF Steps
  <1>types. a \in Seq(Names) /\ b \in Seq(Names) /\ DeviceSteps \in Seq(Names)
    BY <1>0, <1>1, <1>2
  <1> HIDE DEF a, b, ab, s
  <1>4. ab \in Seq(Names) /\ Len(ab) = Len(a) + Len(b)
    BY <1>types, <1>joins
  <1>5. \A i \in 1 .. Len(a) : ab[i] = a[i]
    BY <1>types, <1>joins
  <1>6. \A i \in Len(a) + 1 .. Len(a) + Len(b) : ab[i] = b[i - Len(a)]
    BY <1>types, <1>joins
  <1>7. /\ Len(ab) = 8 /\ ab[1] = "config" /\ ab[2] = "vm" /\ ab[3] = "ram"
        /\ ab[4] = "iobuf" /\ ab[5] = "event" /\ ab[6] = "rpc"
        /\ ab[7] = "vpci" /\ ab[8] = "memory"
    BY <1>1, <1>4, <1>5, <1>6, <1>0
  <1>8. s \in Seq(Names) /\ Len(s) = Len(ab) + Len(DeviceSteps)
    BY <1>types, <1>4, <1>joins
  <1>9. \A i \in 1 .. Len(ab) : s[i] = ab[i]
    BY <1>types, <1>4, <1>joins
  <1>10. \A i \in Len(ab) + 1 .. Len(ab) + Len(DeviceSteps) : s[i] = DeviceSteps[i - Len(ab)]
    BY <1>types, <1>4, <1>joins
  <1>11. Steps \in Seq(Names) /\ Len(Steps) = 11
    BY <1>2, <1>7, <1>8, <1>joins
  <1>12. DOMAIN Steps = 1 .. 11
    BY <1>11
  <1>13. \A i \in 1 .. 8 : Steps[i] = ab[i]
    BY <1>7, <1>9, <1>joins
  <1>14. \A i \in 9 .. 11 : Steps[i] = DeviceSteps[i - 8]
    <2>1. Len(ab) = 8 /\ Len(DeviceSteps) = 3 /\ Steps = s
      BY <1>2, <1>7, <1>joins
    <2>2. QED
      BY <1>10, <2>1
  <1>15. QED
    BY <1>2, <1>7, <1>11, <1>12, <1>13, <1>14

\* The start has no step twice.
LEMMA StepsDistinct ==
  /\ \A i, j \in 1 .. 11 : Steps[i] = Steps[j] => i = j
  /\ Resources = {Steps[i] : i \in 1 .. 11}
  BY StepList DEF Resources

\* The first k steps.
Done(k) == {Steps[i] : i \in 1 .. k}

Configured == IoInterfaceConfig # None
Mapped == memory = IoInterfaceConfig

StartInv ==
  /\ cmdline \in Cmdlines
  /\ pc = "start" =>
       \E k \in 0 .. 10 : /\ held = Done(k)
                          /\ k >= 1 => Configured
                          /\ k >= 8 => Mapped
  /\ pc \notin {"start", "failed"} => held = Resources /\ Configured /\ Mapped

\* After the first k steps comes the next one.
LEMMA NextStep ==
  ASSUME NEW k \in 0 .. 10, held = Done(k)
  PROVE  k + 1 = CHOOSE i \in DOMAIN Steps :
                   Steps[i] \notin held /\ \A j \in 1 .. i - 1 : Steps[j] \in held
<1> DEFINE Next(i) == Steps[i] \notin held /\ \A j \in 1 .. i - 1 : Steps[j] \in held
<1>1. DOMAIN Steps = 1 .. 11 /\ \A i, j \in 1 .. 11 : Steps[i] = Steps[j] => i = j
  BY StepList, StepsDistinct
<1>2. \A j \in 1 .. 11 : Steps[j] \in held <=> j <= k
  BY <1>1 DEF Done
<1>3. ASSUME NEW i \in 1 .. 11
      PROVE  Next(i) <=> i = k + 1
  <2>1. CASE i <= k
    BY <1>2, <2>1
  <2>2. CASE i = k + 1
    BY <1>2, <2>2
  <2>3. CASE i > k + 1
    <3>1. k + 1 \in 1 .. i - 1 /\ k + 1 \in 1 .. 11
      BY <2>3
    <3> QED
      BY <1>2, <2>3, <3>1
  <2> QED
    BY <2>1, <2>2, <2>3
<1> HIDE DEF Next
<1>4. k + 1 = CHOOSE i \in DOMAIN Steps : Next(i)
  BY <1>1, <1>3
<1> QED
  BY <1>4 DEF Next

\* A step of the start does the next one, or ends the process.
LEMMA StartStep ==
  ASSUME StartInv, NEW ok \in BOOLEAN, Start(ok)
  PROVE  StartInv'
<1>1. pc = "start" /\ cmdline' = cmdline
  BY DEF Start
<1>2. PICK k \in 0 .. 10 : /\ held = Done(k)
                           /\ k >= 1 => Configured
                           /\ k >= 8 => Mapped
  BY <1>1 DEF StartInv
<1>3. IoInterfaceConfig' = IoInterfaceConfig
  BY <1>1 DEF IoInterfaceConfig, UserVms, Parses, ParamParses
<1>4. CASE pc' = "failed"
  BY <1>1, <1>4 DEF StartInv
<1>5. CASE pc' # "failed"
  <2>1. /\ Steps[k + 1] = "config" => Configured
        /\ held' = held \cup {Steps[k + 1]}
        /\ memory' = IF Steps[k + 1] = "memory" THEN IoInterfaceConfig ELSE memory
        /\ pc' = IF k + 1 = Len(Steps) THEN "loop" ELSE "start"
    BY <1>2, <1>5, NextStep DEF Start, Configured
  <2>2. held' = Done(k + 1)
    BY <1>2, <2>1 DEF Done
  <2>3. Configured'
    <3>1. CASE k = 0
      BY <1>3, <2>1, <3>1, StepList DEF Configured
    <3>2. CASE k >= 1
      BY <1>2, <1>3, <3>2 DEF Configured
    <3> QED
      BY <3>1, <3>2
  <2>4. k + 1 >= 8 => Mapped'
    <3>1. CASE k = 7
      BY <1>3, <2>1, <3>1, StepList DEF Mapped
    <3>2. CASE k >= 8
      BY <1>2, <1>3, <2>1, <3>2 DEF Mapped
    <3> QED
      BY <3>1, <3>2
  <2>5. CASE k = 10
    <3>1. held' = Resources /\ pc' = "loop"
      BY <2>1, <2>2, <2>5, StepList, StepsDistinct DEF Done
    <3> QED
      BY <1>1, <2>3, <2>4, <2>5, <3>1 DEF StartInv
  <2>6. CASE k # 10
    <3>1. k + 1 \in 0 .. 10 /\ pc' = "start"
      BY <2>1, <2>6, StepList
    <3>2. Done(k + 1)' = Done(k + 1)
      BY DEF Done, Steps, InterfaceSteps, Mappings, DeviceSteps
    <3> QED
      BY <1>1, <2>2, <2>3, <2>4, <3>1, <3>2 DEF StartInv
  <2> QED
    BY <2>5, <2>6
<1> QED
  BY <1>4, <1>5

\* The loop and the guest leave what the start made.
LEMMA StartInvStep == StartInv /\ [IoNext]_ioVars => StartInv'
<1> SUFFICES ASSUME StartInv, [IoNext]_ioVars PROVE StartInv'
  OBVIOUS
<1>1. CASE \E ok \in BOOLEAN : Start(ok)
  BY <1>1, StartStep
<1>2. ASSUME UNCHANGED startVars, pc' # "failed", pc' = "start" => pc = "start",
             pc' # "start" => pc \notin {"start", "failed"}
      PROVE  StartInv'
  <2>1. IoInterfaceConfig' = IoInterfaceConfig
    BY <1>2 DEF startVars, IoInterfaceConfig, UserVms, Parses, ParamParses
  <2> QED
    BY <1>2, <2>1 DEF startVars, StartInv, Configured, Mapped
<1>3. CASE UNCHANGED <<startVars, pc>>
  <2>1. IoInterfaceConfig' = IoInterfaceConfig
    BY <1>3 DEF startVars, IoInterfaceConfig, UserVms, Parses, ParamParses
  <2> QED
    BY <1>3, <2>1 DEF startVars, StartInv, Configured, Mapped
<1> QED
  BY <1>1, <1>2, <1>3
  DEF IoNext, ioVars, SignalReady, WaitIo, WaitIoEarly, WaitIoFails, Dequeue, Handle, HandlePanics,
      Complete, CompleteFails, Issue

\* A set of natural numbers with an upper bound has a greatest one.
LEMMA Greatest ==
  ASSUME NEW n \in Nat, NEW S, S \subseteq 1 .. n, S # {}
  PROVE  \E x \in S : \A y \in S : x >= y
<1> DEFINE R == OpToRel(<, Nat)
           T == {n - x : x \in S}
<1>1. IsWellFoundedOn(R, Nat)
  BY NatLessThanWellFounded
<1>2. ASSUME NEW x \in Nat, NEW y \in Nat, y < x
      PROVE  <<y, x>> \in R
  <2>1. <<y, x>> \in Nat \X Nat /\ <<y, x>>[1] = y /\ <<y, x>>[2] = x
    OBVIOUS
  <2> QED
    BY <1>2, <2>1, Zenon DEF OpToRel
<1>3. T \subseteq Nat /\ T # {}
  <2>1. \A x \in S : n - x \in Nat
    OBVIOUS
  <2> QED
    BY <2>1, Zenon
<1>4. \A x \in S : n - x \in T
  OBVIOUS
<1>5. \A t \in T : \E x \in S : t = n - x
  OBVIOUS
<1> HIDE DEF R, T
<1>6. PICK t \in T : \A u \in T : ~(<<u, t>> \in R)
  BY <1>1, <1>3, WFMin, Zenon
<1>7. PICK x \in S : t = n - x
  BY <1>5, <1>6
<1>8. ASSUME NEW y \in S
      PROVE  x >= y
  <2>1. ~(n - y < n - x)
    BY <1>2, <1>3, <1>4, <1>6, <1>7
  <2> QED
    BY <2>1
<1> QED
  BY <1>8

\* The configuration is the region of the last parameter with this machine's
\* identity (io_interface_config).
LEMMA ConfigIsLast ==
  ASSUME cmdline \in Cmdlines, IoInterfaceConfig # None
  PROVE  \E i \in DOMAIN cmdline :
           /\ cmdline[i] = [name |-> "uservm", id |-> Own, ram |-> IoInterfaceConfig]
           /\ \A j \in i + 1 .. Len(cmdline) :
                cmdline[j].name = "uservm" => cmdline[j].id # Own
<1> DEFINE own == {i \in UserVms : cmdline[i].id = Own}
           last == CHOOSE i \in own : \A j \in own : i >= j
<1>1. Parses /\ own # {} /\ IoInterfaceConfig = cmdline[last].ram
  BY DEF IoInterfaceConfig
<1>2. Len(cmdline) \in Nat /\ DOMAIN cmdline = 1 .. Len(cmdline)
  BY CmdlinesAssumption
<1>3. own \subseteq 1 .. Len(cmdline)
  BY <1>2 DEF UserVms
<1>4. ASSUME NEW j \in 1 .. Len(cmdline), cmdline[j].name = "uservm", cmdline[j].id = Own
      PROVE  j \in own
  BY <1>2, <1>4 DEF UserVms
<1>5. ASSUME NEW i \in own
      PROVE  cmdline[i].name = "uservm" /\ cmdline[i].id = Own
  BY <1>1, <1>5 DEF Parses
<1> HIDE DEF own
<1>6. last \in own /\ \A j \in own : last >= j
  <2>1. \E i \in own : \A j \in own : i >= j
    BY <1>1, <1>2, <1>3, Greatest
  <2> QED
    BY <2>1
<1> HIDE DEF last
<1>7. cmdline[last] = [name |-> "uservm", id |-> Own, ram |-> IoInterfaceConfig]
  BY <1>1, <1>2, <1>3, <1>5, <1>6, CmdlinesAssumption
<1>8. ASSUME NEW j \in last + 1 .. Len(cmdline), cmdline[j].name = "uservm"
      PROVE  cmdline[j].id # Own
  <2>1. j \in 1 .. Len(cmdline) /\ ~(last >= j)
    BY <1>2, <1>3, <1>6
  <2> QED
    BY <1>4, <1>6, <1>8, <2>1
<1> QED
  BY <1>2, <1>3, <1>6, <1>7, <1>8

\* A guest that runs finds every part of the device model in place and its own
\* RAM behind it, for every kernel command line and whatever step of the start
\* may fail (main.rs, Sel4IoInterface::new, DeviceModel::new).
THEOREM GuestStartsCompleteInvariant == IoSpec => []GuestStartsComplete
<1>1. IoInit => StartInv
  <2> SUFFICES ASSUME IoInit PROVE StartInv
    OBVIOUS
  <2>1. held = Done(0)
    BY DEF IoInit, Done
  <2> QED
    BY <2>1 DEF IoInit, StartInv
<1>2. StartInv => GuestStartsComplete
  <2> SUFFICES ASSUME StartInv, pc \in Running
               PROVE  GuestStartsComplete
    BY DEF GuestStartsComplete
  <2>1. held = Resources /\ IoInterfaceConfig # None /\ memory = IoInterfaceConfig
        /\ cmdline \in Cmdlines
    BY DEF StartInv, Configured, Mapped, Running
  <2> QED
    BY <2>1, ConfigIsLast DEF GuestStartsComplete
<1> QED
  BY <1>1, <1>2, StartInvStep, PTL DEF IoSpec

=============================================================================
