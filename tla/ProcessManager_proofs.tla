------------------------ MODULE ProcessManager_proofs ------------------------
(* Theorems about ProcessManager, for every set of services and threads and   *)
(* any number of processes.                                                   *)
EXTENDS ProcessManager, FiniteSetTheorems, SequenceTheorems, TLAPS

(***************************************************************************)
(* The inductive invariant                                                 *)
(***************************************************************************)

\* The processes that exist are numbered from 1 on.
Numbered == \E n \in 1 .. MaxPid + 1 : \A p \in Pid : os[p].state # "none" <=> p < n

\* Where a thread is, given the step it works on, and what it has in hand.
Shape ==
  \A t \in Thread :
    LET r == req[t]
        o == Head(r.todo).op
    IN  /\ r.pc = "online"            => o \in {"start", "start-offline", "adopt"}
        /\ r.pc \in {"spawn", "insert"} => o = "start"
        /\ r.pc \in {"find", "take"}    => o = "adopt"
        /\ r.pc \in {"kill", "wait"}    => o = "stop"
        /\ r.pc = "kill" => r.handle.kind # "none"
        /\ r.pc = "take" => r.handle.kind = "adopted"
        /\ r.pc \in {"insert", "wait"} => r.handle.kind = "spawned"
        /\ r.pc \in {"idle", "check", "online", "spawn", "find"} => r.handle = NoHandle

\* A handle of service s is that of a process of s.
IsHandle(h, s) ==
  h # NoHandle => /\ h.kind # "none" /\ h.pid \in Pid
                  /\ os[h.pid].state # "none" /\ os[h.pid].service = s
                  /\ h.kind = "spawned" => os[h.pid].ui

HandlesReal ==
  /\ \A p \in Pid : os[p].ui => os[p].owned
  /\ \A s \in Service : IsHandle(processes[s], s)
  /\ \A t \in Thread : req[t].pc # "idle" => IsHandle(req[t].handle, Name(t))

\* Races are noticed: starts or adoptions of a service by two threads, and
\* requests for it while the window closes.
Noticed ==
  /\ \A t, u \in Thread :
       t # u => Inserts(req[t].todo) \cap Inserts(req[u].todo) \subseteq raced
  /\ window # "open" => \A t \in Request : Services(req[t].todo) \subseteq raced

\* A service that is being started or adopted has no handle.
Free ==
  \A t \in Thread :
    LET o == Head(req[t].todo).op
    IN  /\ req[t].pc \in {"online", "spawn", "insert", "find", "take"}
        /\ o \in {"start", "adopt"}
        => Name(t) \in raced \/ processes[Name(t)] = NoHandle

\* A child that has not ended, and that no failed look has lost, has its handle in
\* the map or in the hands of the thread that will put it there, unless its end is
\* awaited.
Awaited(p) == \E t \in Thread : /\ req[t].pc \in {"kill", "wait"}
                                /\ req[t].handle = [kind |-> "spawned", pid |-> p]
Brought(p) == \E t \in Thread : req[t].pc = "insert" /\ req[t].handle.pid = p

ChildHeld ==
  \A p \in Pid \ lost :
    os[p].ui /\ Alive(p) /\ os[p].service \notin raced =>
      \/ Awaited(p)
      \/ Brought(p)
      \/ processes[os[p].service] = [kind |-> "spawned", pid |-> p]

\* The closer is still to stop every service that has a handle.
StillToStop(s) ==
  LET r == req[Closer]
  IN  \E i \in DOMAIN r.todo : r.todo[i] = Task("stop", s) /\ (i = 1 => r.pc = "check")

Closing ==
  /\ window = "open" => req[Closer] = NoRequest
  /\ window = "closed" => \A t \in Thread : req[t] = NoRequest
  /\ Inserts(req[Closer].todo) = {} /\ ~req[Closer].strict
  /\ window = "closing" =>
       \A s \in Service \ raced : processes[s] # NoHandle => StillToStop(s)

ProcessInv ==
  /\ TypeOK /\ Numbered /\ Shape /\ HandlesReal /\ Noticed /\ Free /\ ChildHeld /\ Closing
  /\ Tracked /\ ExitStopsAll

(***************************************************************************)
(* Lists of steps                                                          *)
(***************************************************************************)

LEMMA Lists ==
  ASSUME NEW q \in Seq(TaskType), q # <<>>
  PROVE  /\ Len(q) \in Nat \ {0} /\ DOMAIN q = 1 .. Len(q)
         /\ Head(q) = q[1] /\ Head(q) \in TaskType
         /\ Tail(q) \in Seq(TaskType) /\ Len(Tail(q)) = Len(q) - 1
         /\ DOMAIN Tail(q) = 1 .. Len(q) - 1
         /\ \A i \in 1 .. Len(q) - 1 : Tail(q)[i] = q[i + 1]
         /\ Tail(q) = <<>> <=> Len(q) = 1
<1>1. Len(q) \in Nat \ {0} /\ DOMAIN q = 1 .. Len(q) /\ Head(q) = q[1]
  BY EmptySeq, LenProperties
<1>2. /\ Head(q) \in TaskType /\ Tail(q) \in Seq(TaskType) /\ Len(Tail(q)) = Len(q) - 1
      /\ \A i \in 1 .. Len(Tail(q)) : Tail(q)[i] = q[i + 1]
  BY HeadTailProperties
<1>3. DOMAIN Tail(q) = 1 .. Len(Tail(q))
  BY <1>2, LenProperties
<1>4. Tail(q) = <<>> <=> Len(q) = 1
  BY <1>1, <1>2, EmptySeq
<1> QED BY <1>1, <1>2, <1>3, <1>4

\* What a list has to do is what its head and its tail have to do.
LEMMA HeadTail ==
  ASSUME NEW q \in Seq(TaskType), q # <<>>
  PROVE  /\ Head(q).service \in Services(q)
         /\ Head(q).op # "stop" => Head(q).service \in Inserts(q)
         /\ Services(Tail(q)) \subseteq Services(q)
         /\ Inserts(Tail(q)) \subseteq Inserts(q)
<1>1. /\ Len(q) \in Nat \ {0} /\ DOMAIN q = 1 .. Len(q) /\ Head(q) = q[1]
      /\ DOMAIN Tail(q) = 1 .. Len(q) - 1
      /\ \A i \in 1 .. Len(q) - 1 : Tail(q)[i] = q[i + 1]
  BY Lists
<1>2. 1 \in DOMAIN q /\ \A i \in DOMAIN Tail(q) : i + 1 \in DOMAIN q /\ Tail(q)[i] = q[i + 1]
  BY <1>1
<1> QED BY <1>1, <1>2 DEF Services, Inserts

\* AskOffline: the head becomes a start of the same service.
LEMMA HeadRestarts ==
  ASSUME NEW q \in Seq(TaskType), q # <<>>, Head(q).op = "start-offline",
         NEW r, r = <<Task("start", Head(q).service)>> \o Tail(q)
  PROVE  /\ r \in Seq(TaskType) /\ r # <<>> /\ Head(r) = Task("start", Head(q).service)
         /\ Services(r) \subseteq Services(q) /\ Inserts(r) \subseteq Inserts(q)
<1> DEFINE h == Task("start", Head(q).service)
<1>1. /\ Len(q) \in Nat \ {0} /\ DOMAIN q = 1 .. Len(q) /\ Head(q) = q[1] /\ Head(q) \in TaskType
      /\ Tail(q) \in Seq(TaskType) /\ Len(Tail(q)) = Len(q) - 1
      /\ \A i \in 1 .. Len(q) - 1 : Tail(q)[i] = q[i + 1]
  BY Lists
<1>2. h \in TaskType /\ h.service = Head(q).service
  BY <1>1 DEF TaskType, Task
<1> HIDE DEF h
<1>3. <<h>> \in Seq(TaskType) /\ Len(<<h>>) = 1 /\ <<h>>[1] = h
  BY <1>2
<1>4. /\ r \in Seq(TaskType) /\ Len(r) = 1 + Len(Tail(q))
      /\ \A i \in 1 .. 1 + Len(Tail(q)) : r[i] = IF i <= 1 THEN <<h>>[i] ELSE Tail(q)[i - 1]
  BY <1>1, <1>3, ConcatProperties DEF h
<1>5. Len(r) = Len(q) /\ r[1] = h /\ \A i \in 2 .. Len(q) : r[i] = q[i]
  <2>1. \A i \in 2 .. Len(q) : r[i] = Tail(q)[i - 1]
    BY <1>1, <1>4
  <2>2. \A i \in 2 .. Len(q) : Tail(q)[i - 1] = q[i]
    <3> SUFFICES ASSUME NEW i \in 2 .. Len(q) PROVE Tail(q)[i - 1] = q[i]
      OBVIOUS
    <3>1. i - 1 \in 1 .. Len(q) - 1 /\ i - 1 + 1 = i
      BY <1>1
    <3> QED BY <1>1, <3>1
  <2> QED BY <1>1, <1>3, <1>4, <2>1, <2>2
<1>6. r # <<>> /\ Head(r) = h /\ DOMAIN r = DOMAIN q
  BY <1>1, <1>4, <1>5, EmptySeq, LenProperties
<1>7. \A i \in DOMAIN q : i = 1 \/ i \in 2 .. Len(q)
  BY <1>1
<1>8. Services(r) \subseteq Services(q)
  BY <1>1, <1>2, <1>5, <1>6, <1>7 DEF Services
<1>9. Inserts(r) \subseteq Inserts(q)
  BY <1>1, <1>2, <1>5, <1>6, <1>7 DEF Inserts
<1> QED BY <1>4, <1>6, <1>8, <1>9 DEF h

LEMMA ListsOfTasks ==
  ASSUME NEW o \in {"start", "start-offline", "stop", "adopt"}, NEW order \in Seq(Service)
  PROVE  /\ Tasks(o, order) \in Seq(TaskType)
         /\ Services(Tasks(o, order)) = {order[i] : i \in DOMAIN order}
         /\ o = "stop" => Inserts(Tasks(o, order)) = {}
<1>1. Len(order) \in Nat /\ DOMAIN order = 1 .. Len(order) /\ \A i \in 1 .. Len(order) : order[i] \in Service
  BY LenProperties, ElementOfSeq
<1>2. DOMAIN Tasks(o, order) = 1 .. Len(order)
  BY <1>1 DEF Tasks
<1>3. \A i \in 1 .. Len(order) : /\ Tasks(o, order)[i] = Task(o, order[i])
                                 /\ Tasks(o, order)[i] \in TaskType
                                 /\ Tasks(o, order)[i].service = order[i]
                                 /\ Tasks(o, order)[i].op = o
  BY <1>1 DEF Tasks, Task, TaskType
<1>4. Tasks(o, order) \in [1 .. Len(order) -> TaskType]
  BY <1>2, <1>3 DEF Tasks
<1> QED BY <1>1, <1>2, <1>3, <1>4 DEF Services, Inserts

LEMMA TodoType ==
  ASSUME NEW o \in Op, NEW s \in Service
  PROVE  Todo(o, s) \in Seq(TaskType)
<1>1. \A a \in {"start", "start-offline", "stop", "adopt"} : Task(a, s) \in TaskType
  BY DEF Task, TaskType
<1>2. StartOrder \in Seq(Service) /\ StopOrder \in Seq(Service)
  BY ProcessAssumption DEF StartOrder, StopOrder
<1>3. \A a \in {"start", "start-offline", "stop", "adopt"} :
        Tasks(a, StartOrder) \in Seq(TaskType) /\ Tasks(a, StopOrder) \in Seq(TaskType)
  BY <1>2, ListsOfTasks
<1>4. CASE o \in {"start", "stop", "adopt"}
  <2>1. Todo(o, s) = <<Task(o, s)>>
    BY <1>4 DEF Todo
  <2> QED BY <1>1, <1>4, <2>1
<1>5. CASE o = "restart"
  <2>1. Todo(o, s) = <<Task("stop", s), Task("start", s)>>
    BY <1>5 DEF Todo
  <2> QED BY <1>1, <2>1
<1>6. CASE o \in {"start-all", "start-offline", "stop-all"}
  BY <1>3, <1>6 DEF Todo
<1>7. CASE o = "restart-all"
  <2>1. Todo(o, s) = Tasks("stop", StopOrder) \o Tasks("start", StartOrder)
    BY <1>7 DEF Todo
  <2> HIDE DEF Tasks
  <2> QED BY <1>3, <2>1
<1> QED BY <1>4, <1>5, <1>6, <1>7, ProcessAssumption

(***************************************************************************)
(* Moves of a thread                                                       *)
(***************************************************************************)

\* The thread t, which has a request, goes on with r, and nothing of its list
\* is new.
Moves(t, r) ==
  /\ req[t].todo # <<>>
  /\ r \in RequestType
  /\ r.pc = "idle" <=> r.todo = <<>>
  /\ req' = [req EXCEPT ![t] = r]
  /\ Services(r.todo) \subseteq Services(req[t].todo)
  /\ Inserts(r.todo) \subseteq Inserts(req[t].todo)
  /\ r.strict => req[t].strict

\* The thread t has done a step, or given up its request.
Finishes(t, r) ==
  /\ Moves(t, r)
  /\ r.pc \in {"idle", "check"} /\ r.handle = NoHandle
  /\ ~req[t].strict =>
       \A i \in DOMAIN req[t].todo \ {1} :
         i - 1 \in DOMAIN r.todo /\ r.todo[i - 1] = req[t].todo[i] /\ r.pc = "check"

LEMMA NoRequestType == NoRequest \in RequestType /\ NoHandle \in Handle
  BY DEF NoRequest, RequestType, NoHandle, Handle

LEMMA Serving ==
  ASSUME TypeOK, NEW t \in Thread, req[t].pc # "idle"
  PROVE  /\ req[t] \in RequestType /\ req[t].todo # <<>> /\ req[t].todo \in Seq(TaskType)
         /\ Head(req[t].todo) \in TaskType /\ Name(t) \in Service
         /\ Name(t) \in Services(req[t].todo)
         /\ Head(req[t].todo).op # "stop" => Name(t) \in Inserts(req[t].todo)
<1>1. req[t] \in RequestType /\ req[t].todo # <<>> /\ req[t].todo \in Seq(TaskType)
  BY DEF TypeOK, RequestType
<1>2. Head(req[t].todo) \in TaskType
  BY <1>1, Lists
<1>3. /\ Name(t) \in Services(req[t].todo)
      /\ Head(req[t].todo).op # "stop" => Name(t) \in Inserts(req[t].todo)
  BY <1>1, HeadTail DEF Name
<1> QED BY <1>1, <1>2, <1>3 DEF TaskType, Name

LEMMA FinishMoves ==
  ASSUME TypeOK, NEW t \in Thread, req[t].pc # "idle", NEW ok \in BOOLEAN, Finish(t, ok)
  PROVE  \E r : Finishes(t, r)
<1>1. /\ req[t] \in RequestType /\ req[t].todo # <<>> /\ req[t].todo \in Seq(TaskType)
      /\ req \in [Thread -> RequestType]
  BY Serving DEF TypeOK
<1> DEFINE q == req[t].todo
<1>2. /\ Len(q) \in Nat \ {0} /\ DOMAIN q = 1 .. Len(q)
      /\ Tail(q) \in Seq(TaskType) /\ DOMAIN Tail(q) = 1 .. Len(q) - 1
      /\ \A i \in 1 .. Len(q) - 1 : Tail(q)[i] = q[i + 1]
      /\ Tail(q) = <<>> <=> Len(q) = 1
      /\ Services(Tail(q)) \subseteq Services(q) /\ Inserts(Tail(q)) \subseteq Inserts(q)
  BY <1>1, Lists, HeadTail
<1>3. PICK r : r = Done(t, ok)
  OBVIOUS
<1>4. req' = [req EXCEPT ![t] = r]
  BY <1>3 DEF Finish
<1>5. CASE Len(q) = 1 \/ (req[t].strict /\ ~ok)
  <2>1. r = NoRequest
    BY <1>3, <1>5 DEF Done
  <2>2. /\ r \in RequestType /\ r.pc = "idle" /\ r.todo = <<>> /\ r.handle = NoHandle
        /\ r.strict = FALSE
    BY <2>1, NoRequestType DEF NoRequest
  <2>3. Services(<<>>) = {} /\ Inserts(<<>>) = {}
    BY DEF Services, Inserts
  <2>4. ~req[t].strict => DOMAIN q \ {1} = {}
    <3>1. 1 .. 1 \ {1} = {}
      OBVIOUS
    <3>2. ~req[t].strict => Len(q) = 1
      BY <1>5
    <3>3. Len(q) = 1 => DOMAIN q \ {1} = {}
      BY <1>2, <3>1
    <3> QED BY <3>2, <3>3
  <2> QED BY <1>1, <1>4, <2>2, <2>3, <2>4 DEF Finishes, Moves
<1>6. CASE ~(Len(q) = 1 \/ (req[t].strict /\ ~ok))
  <2>1. r = [req[t] EXCEPT !.pc = "check", !.todo = Tail(@), !.handle = NoHandle]
    BY <1>3, <1>6 DEF Done
  <2>2. /\ r.pc = "check" /\ r.todo = Tail(q) /\ r.handle = NoHandle /\ r.strict = req[t].strict
        /\ r \in RequestType
    <3> HIDE DEF q
    <3>1. req[t].todo = q
      BY DEF q
    <3> QED BY <1>1, <1>2, <2>1, <3>1, NoRequestType DEF RequestType
  <2>3. \A i \in DOMAIN q \ {1} : i - 1 \in DOMAIN Tail(q) /\ Tail(q)[i - 1] = q[i]
    <3> SUFFICES ASSUME NEW i \in DOMAIN q \ {1}
                 PROVE  i - 1 \in DOMAIN Tail(q) /\ Tail(q)[i - 1] = q[i]
      OBVIOUS
    <3>1. i - 1 \in 1 .. Len(q) - 1 /\ i - 1 + 1 = i
      BY <1>2
    <3> QED BY <1>2, <3>1
  <2>4. r.todo # <<>>
    BY <1>2, <1>6, <2>2
  <2> QED BY <1>1, <1>2, <1>4, <2>2, <2>3, <2>4 DEF Finishes, Moves
<1> QED BY <1>5, <1>6

\* The thread goes to another place of the same step.
LEMMA GotoSame ==
  ASSUME TypeOK, NEW t \in Thread, req[t].pc # "idle",
         NEW pc \in {"online", "spawn", "insert", "kill", "wait", "find", "take"}, Goto(t, pc)
  PROVE  \E r : /\ Moves(t, r) /\ r.pc = pc /\ r.handle = req[t].handle
                /\ r.todo = req[t].todo /\ r.strict = req[t].strict
<1>1. req \in [Thread -> RequestType] /\ req[t] \in RequestType
  BY DEF TypeOK
<1>2. PICK h \in Handle : h = req[t].handle
  BY <1>1 DEF RequestType
<1>3. PICK r : r = [req[t] EXCEPT !.pc = pc, !.handle = h]
  OBVIOUS
<1>4. r = [req[t] EXCEPT !.pc = pc]
  BY <1>1, <1>2, <1>3 DEF RequestType
<1>5. req' = [req EXCEPT ![t] = r]
  BY <1>1, <1>4 DEF Goto
<1>6. /\ r.pc = pc /\ r.handle = h /\ r.todo = req[t].todo /\ r.strict = req[t].strict
      /\ r \in RequestType
  BY <1>1, <1>3 DEF RequestType
<1>7. Moves(t, r)
  BY <1>5, <1>6, Serving DEF Moves
<1> QED BY <1>2, <1>6, <1>7

\* What every move preserves.
LEMMA MovesKeep ==
  ASSUME ProcessInv, NEW t \in Thread, NEW r, Moves(t, r), UNCHANGED <<window, raced>>
  PROVE  /\ req' \in [Thread -> RequestType]
         /\ \A u \in Thread : req'[u].pc = "idle" <=> req'[u].todo = <<>>
         /\ \A u \in Thread \ {t} : req'[u] = req[u]
         /\ req'[t] = r
         /\ Noticed'
<1>1. /\ req \in [Thread -> RequestType]
      /\ \A u \in Thread : req[u].pc = "idle" <=> req[u].todo = <<>>
      /\ Noticed
  BY DEF ProcessInv, TypeOK
<1>2. req' \in [Thread -> RequestType] /\ req'[t] = r /\ \A u \in Thread \ {t} : req'[u] = req[u]
  BY <1>1 DEF Moves
<1>3. \A u \in Thread : /\ Inserts(req'[u].todo) \subseteq Inserts(req[u].todo)
                        /\ Services(req'[u].todo) \subseteq Services(req[u].todo)
  BY <1>2 DEF Moves
<1>4. Noticed'
  <2>1. Request \subseteq Thread
    BY DEF Thread
  <2> QED BY <1>1, <1>3, <2>1 DEF Noticed
<1> QED BY <1>1, <1>2, <1>4 DEF Moves

(***************************************************************************)
(* Steps that leave the processes alone and bring no handle                *)
(***************************************************************************)

\* The handle of process p may be dropped in this step: p has ended, or a look at
\* it has failed.
Droppable(p) == ~Alive(p) \/ p \in lost'

\* The map of handles stays as it is, or the service of t loses a handle that may
\* be dropped.
Drops(t) ==
  \/ processes' = processes
  \/ /\ processes[Name(t)] = NoHandle \/ Droppable(processes[Name(t)].pid)
     /\ processes' = [processes EXCEPT ![Name(t)] = NoHandle]

\* After the step, the thread is where Shape and Free allow it to be.
Placed(t, r) ==
  r.pc \in {"online", "spawn", "find"} =>
    LET o == Head(r.todo).op
    IN  /\ r.todo = req[t].todo
        /\ r.pc = "online" => o \in {"start", "start-offline", "adopt"}
        /\ r.pc = "spawn"  => o = "start"
        /\ r.pc = "find"   => o = "adopt"
        /\ o \in {"start", "adopt"} => Name(t) \in raced \/ processes'[Name(t)] = NoHandle

Quiet(t, r) ==
  /\ Moves(t, r)
  /\ UNCHANGED <<os, window, raced, refused>> /\ lost \subseteq lost' /\ lost' \subseteq Pid
  /\ r.pc \in {"idle", "check", "online", "spawn", "find"} /\ r.handle = NoHandle
  /\ req[t].handle = NoHandle \/ Droppable(req[t].handle.pid)
  /\ Drops(t)
  /\ Placed(t, r)
  /\ t = Closer => \A s \in Service :
       StillToStop(s) /\ processes'[s] # NoHandle => StillToStop(s)'

LEMMA NoPidIsNone == NoPid \notin Pid /\ NoHandle.pid = NoPid /\ NoHandle.kind = "none"
  BY ProcessAssumption DEF NoPid, Pid, NoHandle

LEMMA Parts ==
  ASSUME ProcessInv
  PROVE  /\ TypeOK /\ Numbered /\ Shape /\ HandlesReal /\ Noticed /\ Free /\ ChildHeld
         /\ Closing /\ Tracked /\ ExitStopsAll
  BY DEF ProcessInv

LEMMA QuietKeeps ==
  ASSUME ProcessInv, NEW t \in Thread, NEW r, Quiet(t, r)
  PROVE  ProcessInv'
<1>1. /\ TypeOK /\ Numbered /\ Shape /\ HandlesReal /\ Noticed /\ Free /\ ChildHeld
      /\ Closing /\ Tracked /\ ExitStopsAll
  BY Parts
<1>2. /\ Moves(t, r) /\ UNCHANGED <<os, window, raced, refused>>
      /\ lost \subseteq lost' /\ lost' \subseteq Pid
      /\ r.pc \in {"idle", "check", "online", "spawn", "find"} /\ r.handle = NoHandle
      /\ req[t].handle = NoHandle \/ Droppable(req[t].handle.pid)
      /\ Placed(t, r)
  BY DEF Quiet
<1>3. /\ req' \in [Thread -> RequestType]
      /\ \A u \in Thread : req'[u].pc = "idle" <=> req'[u].todo = <<>>
      /\ \A u \in Thread \ {t} : req'[u] = req[u]
      /\ req'[t] = r
      /\ Noticed'
  BY <1>2, MovesKeep
<1>4. req[t].pc # "idle" /\ req[t].todo # <<>> /\ Name(t) \in Service
  BY <1>1, <1>2, Serving DEF Moves, TypeOK
<1>5. /\ processes' \in [Service -> Handle]
      /\ \A s \in Service : \/ processes'[s] = processes[s]
                            \/ /\ processes'[s] = NoHandle
                               /\ processes[s] = NoHandle \/ Droppable(processes[s].pid)
  BY <1>1, <1>4, NoRequestType DEF Quiet, Drops, TypeOK
<1>6. TypeOK'
  BY <1>1, <1>2, <1>3, <1>5 DEF TypeOK
<1>7. Numbered'
  BY <1>1, <1>2 DEF Numbered
<1>8. Shape'
  BY <1>1, <1>2, <1>3 DEF Shape, Placed
<1>9. HandlesReal'
  <2>1. \A h, s : IsHandle(h, s) => IsHandle(h, s)'
    BY <1>2 DEF IsHandle
  <2>2. \A s \in Service : IsHandle(NoHandle, s)'
    BY DEF IsHandle
  <2>3. \A s \in Service : IsHandle(processes[s], s)'
    BY <1>1, <1>2, <1>5 DEF HandlesReal, IsHandle
  <2>4. ASSUME NEW u \in Thread, req'[u].pc # "idle" PROVE IsHandle(req[u].handle, Name(u))'
    <3>1. CASE u = t
      BY <1>2, <1>3, <3>1 DEF IsHandle
    <3>2. CASE u # t
      BY <1>1, <1>2, <1>3, <2>4, <3>2 DEF HandlesReal, IsHandle, Name
    <3> QED BY <3>1, <3>2
  <2> QED BY <1>1, <1>2, <2>3, <2>4 DEF HandlesReal
<1>10. Free'
  <2> SUFFICES ASSUME NEW u \in Thread,
                      req'[u].pc \in {"online", "spawn", "insert", "find", "take"},
                      Head(req'[u].todo).op \in {"start", "adopt"}
               PROVE  Name(u)' \in raced' \/ processes'[Name(u)'] = NoHandle
    BY DEF Free
  <2>1. CASE u = t
    BY <1>2, <1>3, <2>1 DEF Placed, Name
  <2>2. CASE u # t
    <3>1. req[u].pc # "idle" /\ Name(u)' = Name(u)
      BY <1>3, <2>2 DEF Name
    <3>2. Name(u) \in Service
      BY <1>1, <3>1, Serving
    <3> QED BY <1>1, <1>2, <1>3, <1>5, <2>2, <3>1, <3>2 DEF Free
  <2> QED BY <2>1, <2>2
<1>11. ASSUME NEW p \in Pid \ lost', Alive(p), NEW u \in Thread, req[u].handle.pid = p
       PROVE  u # t
  BY <1>2, <1>11, NoPidIsNone DEF Droppable
<1>12. ASSUME NEW p \in Pid \ lost', Alive(p), NEW s \in Service, processes[s].pid = p
       PROVE  processes'[s] = processes[s]
  BY <1>5, <1>12, NoPidIsNone DEF Droppable
<1>13. ChildHeld'
  <2> SUFFICES ASSUME NEW p \in Pid \ lost', os[p].ui, Alive(p), os[p].service \notin raced
               PROVE  \/ Awaited(p)' \/ Brought(p)'
                      \/ processes'[os[p].service] = [kind |-> "spawned", pid |-> p]
    BY <1>2 DEF ChildHeld, Alive
  <2>1. os[p].service \in Service
    BY <1>1 DEF TypeOK, Process
  <2>2. CASE Awaited(p)
    BY <1>3, <1>11, <2>2 DEF Awaited
  <2>3. CASE Brought(p)
    BY <1>3, <1>11, <2>3 DEF Brought
  <2>4. CASE processes[os[p].service] = [kind |-> "spawned", pid |-> p]
    BY <1>12, <2>1, <2>4
  <2> QED BY <1>1, <1>2, <2>2, <2>3, <2>4 DEF ChildHeld
<1>14. Closing'
  <2>1. window # "closed"
    BY <1>1, <1>4 DEF Closing, NoRequest
  <2>2. window = "open" => t # Closer
    BY <1>1, <1>4 DEF Closing, NoRequest
  <2>3. Closer \in Thread
    BY DEF Thread
  <2>4. Inserts(req'[Closer].todo) = {} /\ ~req'[Closer].strict
    BY <1>1, <1>2, <1>3, <2>3 DEF Closing, Moves
  <2>5. ASSUME NEW s \in Service \ raced, window = "closing", processes'[s] # NoHandle
        PROVE  StillToStop(s)'
    <3>1. StillToStop(s)
      BY <1>1, <1>5, <2>5 DEF Closing
    <3>2. CASE t = Closer
      BY <2>5, <3>1, <3>2 DEF Quiet
    <3>3. CASE t # Closer
      BY <1>3, <2>3, <3>1, <3>3 DEF StillToStop
    <3> QED BY <3>2, <3>3
  <2> QED BY <1>1, <1>2, <1>3, <2>1, <2>2, <2>3, <2>4, <2>5 DEF Closing
<1>15. Tracked'
  <2> SUFFICES ASSUME window # "closed", NEW s \in Calm, NEW p \in Owned(s) \ lost', Working(p)
               PROVE  \/ processes'[s].pid = p
                      \/ \E u \in Thread : req'[u].pc # "idle" /\ req'[u].handle.pid = p
    BY <1>2 DEF Tracked, Calm, Owned, Working
  <2>1. p \in Pid \ lost' /\ Alive(p) /\ s \in Service
    BY DEF Owned, Working, Alive, Calm
  <2>2. CASE processes[s].pid = p
    BY <1>12, <2>1, <2>2
  <2>3. CASE \E u \in Thread : req[u].pc # "idle" /\ req[u].handle.pid = p
    BY <1>3, <1>11, <2>1, <2>3
  <2> QED BY <1>1, <2>2, <2>3 DEF Tracked
<1>16. ExitStopsAll'
  BY <1>1, <1>2 DEF ExitStopsAll, Calm, Owned, Working
<1> QED BY <1>3, <1>6, <1>7, <1>8, <1>9, <1>10, <1>13, <1>14, <1>15, <1>16 DEF ProcessInv

\* The closer only stops.
LEMMA CloserStops ==
  ASSUME ProcessInv, req[Closer].pc # "idle"
  PROVE  Head(req[Closer].todo).op = "stop"
<1>1. Closer \in Thread /\ TypeOK /\ Inserts(req[Closer].todo) = {}
  BY Parts DEF Thread, Closing
<1> QED BY <1>1, Serving

LEMMA FinishIsQuiet ==
  ASSUME ProcessInv, NEW t \in Thread, req[t].pc # "idle", NEW ok \in BOOLEAN, Finish(t, ok),
         UNCHANGED <<os, window, raced, refused>>, lost \subseteq lost', lost' \subseteq Pid,
         req[t].handle = NoHandle \/ Droppable(req[t].handle.pid),
         Drops(t),
         t = Closer => req[t].pc # "check" \/ processes'[Name(t)] = NoHandle
  PROVE  \E r : Quiet(t, r)
<1>1. PICK r : Finishes(t, r)
  BY FinishMoves, Parts
<1>2. Moves(t, r) /\ r.pc \in {"idle", "check"} /\ r.handle = NoHandle
  BY <1>1 DEF Finishes
<1>3. Placed(t, r)
  BY <1>2 DEF Placed
<1>4. ASSUME t = Closer, NEW s \in Service, StillToStop(s), processes'[s] # NoHandle
      PROVE  StillToStop(s)'
  <2>1. PICK i \in DOMAIN req[t].todo :
          req[t].todo[i] = Task("stop", s) /\ (i = 1 => req[t].pc = "check")
    BY <1>4 DEF StillToStop
  <2>2. i # 1
    <3>1. SUFFICES ASSUME i = 1 PROVE FALSE
      OBVIOUS
    <3>2. req[t].todo \in Seq(TaskType) /\ req[t].todo # <<>>
      BY Serving, Parts
    <3>3. Head(req[t].todo) = Task("stop", s)
      BY <2>1, <3>1, <3>2, Lists
    <3>4. Name(t) = s
      BY <3>3 DEF Name, Task
    <3> QED BY <1>4, <2>1, <3>1, <3>4
  <2>3. ~req[t].strict
    BY <1>4, Parts DEF Closing
  <2>4. i - 1 \in DOMAIN r.todo /\ r.todo[i - 1] = req[t].todo[i] /\ r.pc = "check"
    BY <1>1, <2>2, <2>3 DEF Finishes
  <2>5. req'[Closer] = r
    BY <1>2, <1>4, MovesKeep
  <2> QED BY <2>1, <2>4, <2>5 DEF StillToStop
<1> QED BY <1>2, <1>3, <1>4 DEF Quiet

LEMMA GotoIsQuiet ==
  ASSUME ProcessInv, NEW t \in Thread, req[t].pc # "idle", t # Closer,
         NEW pc \in {"online", "spawn", "find"}, Goto(t, pc),
         UNCHANGED <<os, window, raced, refused>>, lost \subseteq lost', lost' \subseteq Pid,
         req[t].handle = NoHandle,
         Drops(t),
         NEW o, o = Head(req[t].todo).op,
         pc = "online" => o \in {"start", "start-offline", "adopt"},
         pc = "spawn"  => o = "start",
         pc = "find"   => o = "adopt",
         o \in {"start", "adopt"} => Name(t) \in raced \/ processes'[Name(t)] = NoHandle
  PROVE  \E r : Quiet(t, r)
<1>1. TypeOK
  BY Parts
<1>2. PICK r : Moves(t, r) /\ r.pc = pc /\ r.handle = req[t].handle /\ r.todo = req[t].todo
  <2>1. pc \in {"online", "spawn", "insert", "kill", "wait", "find", "take"}
    OBVIOUS
  <2> QED BY <1>1, <2>1, GotoSame
<1>3. Placed(t, r)
  BY <1>2 DEF Placed
<1> QED BY <1>2, <1>3 DEF Quiet

\* What a look at the service of t tells, and what it does.
LEMMA LookTells ==
  ASSUME ProcessInv, NEW t \in Thread, Name(t) \in Service, NEW running \in BOOLEAN,
         Look(Name(t), running)
  PROVE  /\ lost \subseteq lost' /\ lost' \subseteq Pid
         /\ running => Running(Name(t))
         /\ ~running /\ Reap(Name(t)) => Drops(t) /\ processes'[Name(t)] = NoHandle
<1> DEFINE h == processes[Name(t)]
<1>1. processes \in [Service -> Handle] /\ lost \subseteq Pid /\ IsHandle(h, Name(t))
  BY Parts DEF TypeOK, HandlesReal
<1>2. Running(Name(t)) => h.pid \in Pid
  BY <1>1, NoPidIsNone DEF Running, Managed, IsHandle
<1>3. lost \subseteq lost' /\ lost' \subseteq Pid
  BY <1>1, <1>2 DEF Look, Overlooked
<1>4. ~running => h = NoHandle \/ Droppable(h.pid)
  <2>1. CASE Running(Name(t)) /\ ~running
    BY <2>1 DEF Look, Overlooked, Droppable, Running
  <2>2. CASE ~Running(Name(t))
    BY <1>1, <2>2 DEF Running, Managed, Droppable, IsHandle
  <2> QED BY <2>1, <2>2
<1>5. running => Running(Name(t))
  BY DEF Look
<1> QED BY <1>1, <1>3, <1>4, <1>5 DEF Reap, Drops

LEMMA QuietSteps ==
  ASSUME ProcessInv, NEW t \in Thread,
         \/ NotConfigured(t) \/ CheckStart(t) \/ AskOnline(t) \/ SpawnFails(t) \/ CheckOffline(t)
         \/ AskOffline(t) \/ WaitChild(t) \/ WaitFails(t) \/ CheckAdopt(t) \/ AskAdopt(t)
         \/ (TakeHandle(t) /\ ~Managed(Name(t)))
         \/ (Find(t) /\ Cardinality(Images(Name(t))) # 1)
  PROVE  \E r : Quiet(t, r)
<1>1. TypeOK /\ Shape /\ HandlesReal /\ Free
  BY Parts
<1>2. req[t].pc # "idle" /\ UNCHANGED <<os, window, raced, refused>> /\ lost \subseteq Pid
  BY <1>1 DEF NotConfigured, CheckStart, AskOnline, SpawnFails, CheckOffline, AskOffline, WaitChild,
         WaitFails, CheckAdopt, AskAdopt, TakeHandle, Find, At, ghosts, TypeOK
<1>3. Name(t) \in Service /\ req[t].todo \in Seq(TaskType) /\ req[t].todo # <<>>
  BY <1>1, <1>2, Serving
<1>4. req[t].pc \in {"check", "online", "spawn", "find"} => req[t].handle = NoHandle
  BY <1>1 DEF Shape
<1>5. Head(req[t].todo).op # "stop" => t # Closer
  BY <1>2, CloserStops
<1>6. ASSUME NEW s \in Service, ~Managed(s) PROVE processes[s] = NoHandle /\ ~Running(s)
  BY <1>1, <1>6 DEF HandlesReal, IsHandle, Managed, Running
<1>7. /\ Head(req[t].todo).op \in {"start", "adopt"} /\ req[t].pc \in {"online", "spawn", "find"}
      => Name(t) \in raced \/ processes[Name(t)] = NoHandle
  BY <1>1 DEF Free
<1>18. UNCHANGED <<lost, processes>> => lost \subseteq lost' /\ lost' \subseteq Pid /\ Drops(t)
  BY <1>2 DEF Drops
<1> DEFINE o == Head(req[t].todo).op
<1>8. CASE NotConfigured(t) \/ SpawnFails(t)
  <2>1. /\ Finish(t, FALSE) /\ UNCHANGED <<lost, processes>> /\ o # "stop"
        /\ req[t].pc \in {"check", "spawn"}
    BY <1>8 DEF NotConfigured, SpawnFails, At, ghosts
  <2> QED BY <1>2, <1>4, <1>5, <1>18, <2>1, FinishIsQuiet
<1>9. CASE CheckStart(t)
  <2>1. req[t].pc = "check" /\ o = "start"
    BY <1>9 DEF CheckStart, At
  <2>2. PICK running \in BOOLEAN :
          /\ Look(Name(t), running)
          /\ IF running THEN Finish(t, FALSE) /\ UNCHANGED processes
             ELSE Goto(t, "online") /\ Reap(Name(t))
    BY <1>9 DEF CheckStart
  <2>3. lost \subseteq lost' /\ lost' \subseteq Pid
    BY <1>3, <2>2, LookTells
  <2>4. CASE running
    <3>1. Finish(t, FALSE) /\ Drops(t)
      BY <2>2, <2>4 DEF Drops
    <3> QED BY <1>2, <1>4, <1>5, <2>1, <2>3, <3>1, FinishIsQuiet
  <2>5. CASE ~running
    <3>1. Goto(t, "online") /\ Drops(t) /\ processes'[Name(t)] = NoHandle
      BY <1>3, <2>2, <2>5, LookTells
    <3> QED BY <1>2, <1>4, <1>5, <2>1, <2>3, <3>1, GotoIsQuiet
  <2> QED BY <2>4, <2>5
<1>10. CASE AskOnline(t)
  <2>1. /\ req[t].pc = "online" /\ o = "start" /\ UNCHANGED <<lost, processes>>
        /\ Finish(t, FALSE) \/ Goto(t, "spawn")
    BY <1>10 DEF AskOnline, At, ghosts
  <2>2. CASE Finish(t, FALSE)
    BY <1>2, <1>4, <1>5, <1>18, <2>1, <2>2, FinishIsQuiet
  <2>3. CASE Goto(t, "spawn")
    BY <1>2, <1>4, <1>5, <1>7, <1>18, <2>1, <2>3, GotoIsQuiet
  <2> QED BY <2>1, <2>2, <2>3
<1>11. CASE CheckOffline(t)
  <2>1. req[t].pc = "check" /\ o = "start-offline" /\ (Finish(t, TRUE) \/ Goto(t, "online"))
    BY <1>11 DEF CheckOffline, At
  <2>2. lost \subseteq lost' /\ lost' \subseteq Pid /\ Drops(t)
    <3>1. PICK running \in BOOLEAN :
            Look(Name(t), running) /\ IF running THEN UNCHANGED processes ELSE Reap(Name(t))
      BY <1>11 DEF CheckOffline
    <3>2. CASE running
      BY <1>3, <3>1, <3>2, LookTells DEF Drops
    <3>3. CASE ~running
      BY <1>3, <3>1, <3>3, LookTells
    <3> QED BY <3>2, <3>3
  <2>3. CASE Finish(t, TRUE)
    BY <1>2, <1>4, <1>5, <2>1, <2>2, <2>3, FinishIsQuiet
  <2>4. CASE Goto(t, "online")
    BY <1>2, <1>4, <1>5, <2>1, <2>2, <2>4, GotoIsQuiet
  <2> QED BY <2>1, <2>3, <2>4
<1>12. CASE AskOffline(t)
  <2>1. /\ req[t].pc = "online" /\ o = "start-offline" /\ UNCHANGED <<lost, processes>>
        /\ \/ Finish(t, TRUE)
           \/ req' = [req EXCEPT ![t].pc = "check",
                                 ![t].todo = <<Task("start", Name(t))>> \o Tail(@)]
    BY <1>12 DEF AskOffline, At, ghosts
  <2>2. CASE Finish(t, TRUE)
    BY <1>2, <1>4, <1>5, <1>18, <2>1, <2>2, FinishIsQuiet
  <2>3. CASE req' = [req EXCEPT ![t].pc = "check",
                                ![t].todo = <<Task("start", Name(t))>> \o Tail(@)]
    <3>1. PICK q : q = <<Task("start", Name(t))>> \o Tail(req[t].todo)
      OBVIOUS
    <3>2. /\ q \in Seq(TaskType) /\ q # <<>>
          /\ Services(q) \subseteq Services(req[t].todo)
          /\ Inserts(q) \subseteq Inserts(req[t].todo)
      BY <1>3, <2>1, <3>1, HeadRestarts DEF Name
    <3>3. req \in [Thread -> RequestType] /\ req[t] \in RequestType
      BY <1>1 DEF TypeOK
    <3>4. PICK r : r = [req[t] EXCEPT !.pc = "check", !.todo = q]
      OBVIOUS
    <3>5. req' = [req EXCEPT ![t] = r]
      BY <2>3, <3>1, <3>3, <3>4
    <3>6. /\ r \in RequestType /\ r.pc = "check" /\ r.todo = q /\ r.handle = NoHandle
          /\ r.strict = req[t].strict
      BY <1>4, <2>1, <3>2, <3>3, <3>4 DEF RequestType
    <3>7. Moves(t, r)
      BY <1>3, <3>2, <3>5, <3>6 DEF Moves
    <3>8. Placed(t, r)
      BY <3>6 DEF Placed
    <3> QED BY <1>2, <1>4, <1>5, <1>18, <2>1, <3>6, <3>7, <3>8 DEF Quiet
  <2> QED BY <2>1, <2>2, <2>3
<1>13. CASE WaitChild(t) \/ WaitFails(t)
  <2>1. req[t].pc = "wait" /\ Finish(t, TRUE) /\ UNCHANGED processes
    BY <1>13 DEF WaitChild, WaitFails, At
  <2>2. req[t].handle.pid \in Pid
    BY <1>1, <1>2, <2>1, NoPidIsNone DEF Shape, HandlesReal, IsHandle
  <2>3. /\ lost \subseteq lost' /\ lost' \subseteq Pid
        /\ Droppable(req[t].handle.pid)
    BY <1>2, <1>13, <2>2 DEF WaitChild, WaitFails, Overlooked, Droppable, ghosts
  <2> QED BY <1>2, <2>1, <2>3, FinishIsQuiet DEF Drops
<1>14. CASE CheckAdopt(t)
  <2>1. /\ req[t].pc = "check" /\ o = "adopt"
        /\ \/ Finish(t, FALSE)
           \/ ~Managed(Name(t)) /\ Goto(t, "online")
    BY <1>14 DEF CheckAdopt, At
  <2>2. /\ lost \subseteq lost' /\ lost' \subseteq Pid /\ Drops(t)
        /\ ~Managed(Name(t)) => processes'[Name(t)] = NoHandle
    <3>1. PICK running \in BOOLEAN :
            Look(Name(t), running) /\ IF running THEN UNCHANGED processes ELSE Reap(Name(t))
      BY <1>14 DEF CheckAdopt
    <3>2. CASE running
      BY <1>3, <1>6, <3>1, <3>2, LookTells DEF Drops
    <3>3. CASE ~running
      BY <1>3, <3>1, <3>3, LookTells
    <3> QED BY <3>2, <3>3
  <2>3. CASE Finish(t, FALSE)
    BY <1>2, <1>4, <1>5, <2>1, <2>2, <2>3, FinishIsQuiet
  <2>4. CASE ~Managed(Name(t)) /\ Goto(t, "online")
    BY <1>2, <1>4, <1>5, <2>1, <2>2, <2>4, GotoIsQuiet
  <2> QED BY <2>1, <2>3, <2>4
<1>15. CASE AskAdopt(t)
  <2>1. /\ req[t].pc = "online" /\ o = "adopt" /\ UNCHANGED <<lost, processes>>
        /\ Finish(t, FALSE) \/ Goto(t, "find")
    BY <1>15 DEF AskAdopt, At, ghosts
  <2>2. CASE Finish(t, FALSE)
    BY <1>2, <1>4, <1>5, <1>18, <2>1, <2>2, FinishIsQuiet
  <2>3. CASE Goto(t, "find")
    BY <1>2, <1>4, <1>5, <1>7, <1>18, <2>1, <2>3, GotoIsQuiet
  <2> QED BY <2>1, <2>2, <2>3
<1>16. CASE TakeHandle(t) /\ ~Managed(Name(t))
  <2>1. req[t].pc = "check" /\ Finish(t, TRUE) /\ Reap(Name(t)) /\ UNCHANGED lost
    BY <1>16 DEF TakeHandle, At, ghosts
  <2>2. Drops(t) /\ processes'[Name(t)] = NoHandle
    BY <1>1, <1>3, <1>6, <1>16, <2>1 DEF Drops, Reap, TypeOK
  <2> QED BY <1>2, <1>4, <2>1, <2>2, FinishIsQuiet
<1>17. CASE Find(t) /\ Cardinality(Images(Name(t))) # 1
  <2>1. /\ req[t].pc = "find" /\ o = "adopt" /\ Finish(t, FALSE)
        /\ UNCHANGED <<lost, processes>>
    BY <1>17 DEF Find, At, ghosts
  <2> QED BY <1>2, <1>4, <1>5, <1>18, <2>1, FinishIsQuiet
<1> QED BY <1>8, <1>9, <1>10, <1>11, <1>12, <1>13, <1>14, <1>15, <1>16, <1>17

(***************************************************************************)
(* Steps that carry a handle or act on a process                           *)
(***************************************************************************)

\* The processes go on: what a process is does not change.
Evolves ==
  \A p \in Pid : os[p].state # "none" => /\ os'[p].state # "none"
                                         /\ os'[p].service = os[p].service
                                         /\ os'[p].ui = os[p].ui

\* The move of t to r keeps the shape of the thread, and the map only gains the
\* handle that t had in hand for its service.
Carries(t, r) ==
  /\ Moves(t, r)
  /\ UNCHANGED <<window, raced, lost>> /\ refused \subseteq refused' /\ refused' \subseteq Service
  /\ os' \in [Pid -> Process] /\ Evolves /\ \A p \in Pid : os'[p].ui => os'[p].owned
  /\ \/ r.todo = req[t].todo /\ r.pc \in {"insert", "kill", "wait", "take"}
     \/ r.pc \in {"idle", "check"} /\ r.handle = NoHandle
  /\ LET o == Head(r.todo).op
     IN  /\ r.pc = "insert" => o = "start" /\ r.handle.kind = "spawned"
         /\ r.pc = "take"   => o = "adopt" /\ r.handle.kind = "adopted"
         /\ r.pc = "kill"   => o = "stop"  /\ r.handle.kind # "none"
         /\ r.pc = "wait"   => o = "stop"  /\ r.handle.kind = "spawned"
  /\ r.handle = NoHandle \/ (r.todo = req[t].todo /\ IsHandle(r.handle, Name(t))')
  /\ processes' \in [Service -> Handle]
  /\ \A s \in Service :
       \/ processes'[s] \in {processes[s], NoHandle}
       \/ s = Name(t) /\ processes'[s] = req[t].handle /\ req[t].pc \in {"insert", "take"}
  /\ r.pc \in {"insert", "take"} => Name(t) \in raced \/ processes'[Name(t)] = NoHandle
  /\ t = Closer => \A s \in Service :
       StillToStop(s) /\ processes'[s] # NoHandle => StillToStop(s)'

LEMMA CarriesKeeps ==
  ASSUME ProcessInv, NEW t \in Thread, NEW r, Carries(t, r)
  PROVE  /\ TypeOK' /\ Shape' /\ HandlesReal' /\ Noticed' /\ Free' /\ Closing' /\ ExitStopsAll'
         /\ req'[t] = r /\ \A u \in Thread \ {t} : req'[u] = req[u]
<1>1. /\ TypeOK /\ Shape /\ HandlesReal /\ Noticed /\ Free /\ Closing
  BY Parts
<1>2. /\ Moves(t, r) /\ UNCHANGED <<window, raced, lost>> /\ Evolves
      /\ \/ r.todo = req[t].todo /\ r.pc \in {"insert", "kill", "wait", "take"}
         \/ r.pc \in {"idle", "check"} /\ r.handle = NoHandle
  BY DEF Carries
<1>3. /\ req' \in [Thread -> RequestType]
      /\ \A u \in Thread : req'[u].pc = "idle" <=> req'[u].todo = <<>>
      /\ \A u \in Thread \ {t} : req'[u] = req[u]
      /\ req'[t] = r
      /\ Noticed'
  BY <1>2, MovesKeep
<1>4. req[t].pc # "idle" /\ req[t].todo # <<>> /\ Name(t) \in Service
  BY <1>1, <1>2, Serving DEF Moves, TypeOK
<1>5. \A u \in Thread \ {t} : Name(u)' = Name(u)
  BY <1>3 DEF Name
<1>6. r.todo = req[t].todo => Name(t)' = Name(t)
  BY <1>3 DEF Name
<1>7. TypeOK'
  BY <1>1, <1>3 DEF TypeOK, Carries
<1>8. Shape'
  <2>1. ASSUME NEW u \in Thread
        PROVE  LET q == req'[u]
                   o == Head(q.todo).op
               IN  /\ q.pc = "online"            => o \in {"start", "start-offline", "adopt"}
                   /\ q.pc \in {"spawn", "insert"} => o = "start"
                   /\ q.pc \in {"find", "take"}    => o = "adopt"
                   /\ q.pc \in {"kill", "wait"}    => o = "stop"
                   /\ q.pc = "kill" => q.handle.kind # "none"
                   /\ q.pc = "take" => q.handle.kind = "adopted"
                   /\ q.pc \in {"insert", "wait"} => q.handle.kind = "spawned"
                   /\ q.pc \in {"idle", "check", "online", "spawn", "find"} => q.handle = NoHandle
    <3>1. CASE u = t
      BY <1>2, <1>3, <3>1 DEF Carries
    <3>2. CASE u # t
      BY <1>1, <1>3, <3>2 DEF Shape
    <3> QED BY <3>1, <3>2
  <2> QED BY <2>1 DEF Shape
<1>9. HandlesReal'
  <2>1. ASSUME NEW h, NEW s, IsHandle(h, s) PROVE IsHandle(h, s)'
    BY <1>2, <2>1 DEF IsHandle, Evolves
  <2>2. ASSUME NEW s \in Service PROVE IsHandle(processes[s], s)'
    <3>1. \E h : processes'[s] = h /\ IsHandle(h, s)
      <4>1. processes'[s] \in {processes[s], NoHandle} \/ (s = Name(t) /\ processes'[s] = req[t].handle)
        BY DEF Carries
      <4>2. IsHandle(processes[s], s) /\ IsHandle(NoHandle, s) /\ IsHandle(req[t].handle, Name(t))
        BY <1>1, <1>4 DEF HandlesReal, IsHandle
      <4> QED BY <4>1, <4>2
    <3>2. PICK h : processes'[s] = h /\ IsHandle(h, s)
      BY <3>1
    <3>3. IsHandle(h, s)'
      BY <2>1, <3>2
    <3> QED BY <3>2, <3>3 DEF IsHandle
  <2>3. ASSUME NEW u \in Thread, req'[u].pc # "idle" PROVE IsHandle(req[u].handle, Name(u))'
    <3>1. CASE u = t
      <4>1. CASE r.handle = NoHandle
        BY <1>3, <3>1, <4>1 DEF IsHandle
      <4>2. CASE IsHandle(r.handle, Name(t))'
        BY <1>3, <3>1, <4>2 DEF IsHandle
      <4> QED BY <4>1, <4>2 DEF Carries
    <3>2. CASE u # t
      <4>1. IsHandle(req[u].handle, Name(u))
        BY <1>1, <1>3, <2>3, <3>2 DEF HandlesReal
      <4>2. PICK h, s : h = req[u].handle /\ s = Name(u)
        OBVIOUS
      <4>3. IsHandle(h, s)'
        BY <2>1, <4>1, <4>2
      <4>4. req'[u].handle = h /\ Name(u)' = s
        BY <1>3, <1>5, <3>2, <4>2
      <4> QED BY <4>3, <4>4 DEF IsHandle
    <3> QED BY <3>1, <3>2
  <2> QED BY <2>2, <2>3 DEF HandlesReal, Carries
<1>10. Head(req[t].todo).op # "stop" => Name(t) \in Inserts(req[t].todo)
  BY <1>1, <1>4, Serving
<1>11. Free'
  <2> SUFFICES ASSUME NEW u \in Thread,
                      req'[u].pc \in {"online", "spawn", "insert", "find", "take"},
                      Head(req'[u].todo).op \in {"start", "adopt"}
               PROVE  Name(u)' \in raced' \/ processes'[Name(u)'] = NoHandle
    BY DEF Free
  <2>1. CASE u = t
    BY <1>2, <1>3, <1>6, <2>1 DEF Carries
  <2>2. CASE u # t
    <3>1. req[u] = req'[u] /\ req[u].pc # "idle" /\ Name(u)' = Name(u)
      BY <1>3, <1>5, <2>2
    <3>2. Name(u) \in Service /\ Name(u) \in Inserts(req[u].todo)
      BY <1>1, <3>1, Serving
    <3>3. Name(u) \in raced \/ processes[Name(u)] = NoHandle
      BY <1>1, <3>1 DEF Free
    <3>4. CASE processes'[Name(u)] \in {processes[Name(u)], NoHandle}
      BY <1>2, <3>1, <3>3, <3>4
    <3>5. CASE Name(u) = Name(t) /\ req[t].pc \in {"insert", "take"}
      <4>1. Name(t) \in Inserts(req[t].todo)
        BY <1>1, <1>10, <3>5 DEF Shape
      <4> QED BY <1>1, <1>2, <2>2, <3>1, <3>2, <3>5, <4>1 DEF Noticed
    <3> QED BY <3>2, <3>4, <3>5 DEF Carries
  <2> QED BY <2>1, <2>2
<1>12. window # "closed" /\ (window = "open" => t # Closer)
  BY <1>1, <1>4 DEF Closing, NoRequest
<1>13. Closing'
  <2>1. Closer \in Thread
    BY DEF Thread
  <2>2. Inserts(req'[Closer].todo) = {} /\ ~req'[Closer].strict
    BY <1>1, <1>2, <1>3, <2>1 DEF Closing, Moves
  <2>3. ASSUME NEW s \in Service \ raced, window = "closing", processes'[s] # NoHandle
        PROVE  StillToStop(s)'
    <3>1. CASE processes'[s] = processes[s]
      <4>1. StillToStop(s)
        BY <1>1, <2>3, <3>1 DEF Closing
      <4>2. CASE t = Closer
        BY <2>3, <4>1, <4>2 DEF Carries
      <4>3. CASE t # Closer
        BY <1>3, <2>1, <4>1, <4>3 DEF StillToStop
      <4> QED BY <4>2, <4>3
    <3>2. CASE s = Name(t) /\ req[t].pc \in {"insert", "take"}
      <4>1. t # Closer
        BY <1>1, <3>2, CloserStops DEF Shape
      <4>2. t \in Request /\ Name(t) \in Services(req[t].todo)
        BY <1>1, <1>4, <4>1, Serving DEF Thread
      <4> QED BY <1>1, <2>3, <3>2, <4>2 DEF Noticed
    <3> QED BY <2>3, <3>1, <3>2 DEF Carries
  <2> QED BY <1>1, <1>2, <1>3, <1>12, <2>1, <2>2, <2>3 DEF Closing
<1>14. ExitStopsAll'
  BY <1>2, <1>12 DEF ExitStopsAll
<1> QED BY <1>3, <1>7, <1>8, <1>9, <1>11, <1>13, <1>14

\* A new process gets a number that is not taken.
LEMMA NewProcess ==
  ASSUME TypeOK, Numbered, NEW s \in Service, NEW ui \in BOOLEAN, StartProcess(s, ui)
  PROVE  /\ NextPid \in Pid /\ os[NextPid].state = "none"
         /\ os' \in [Pid -> Process] /\ Numbered' /\ Evolves
         /\ os'[NextPid] = [state |-> "starting", service |-> s, ui |-> ui, owned |-> ui]
         /\ \A p \in Pid \ {NextPid} : os'[p] = os[p]
<1>1. PICK n \in 1 .. MaxPid + 1 : \A p \in Pid : os[p].state # "none" <=> p < n
  BY DEF Numbered
<1>2. /\ NextPid \in 1 .. MaxPid + 1
      /\ \A p \in Pid : os[p].state # "none" <=> p < NextPid
  BY <1>1 DEF NextPid
<1>3. PICK new : new = NextPid
  OBVIOUS
<1>4. /\ new \in Pid /\ os \in [Pid -> Process]
      /\ os' = [os EXCEPT ![new] = [state |-> "starting", service |-> s, ui |-> ui, owned |-> ui]]
  BY <1>3 DEF StartProcess, TypeOK
<1>5. new \in 1 .. MaxPid /\ MaxPid \in Nat /\ os[new].state = "none"
  BY <1>2, <1>3, <1>4, ProcessAssumption DEF Pid
<1>6. [state |-> "starting", service |-> s, ui |-> ui, owned |-> ui] \in Process
  BY DEF Process
<1>7. /\ os' \in [Pid -> Process] /\ \A p \in Pid \ {new} : os'[p] = os[p]
      /\ os'[new] = [state |-> "starting", service |-> s, ui |-> ui, owned |-> ui]
  BY <1>4, <1>6
<1>8. Evolves
  BY <1>5, <1>7 DEF Evolves
<1>9. Numbered'
  <2>1. new + 1 \in 1 .. MaxPid + 1
    BY <1>5
  <2>2. os'[new].state # "none"
    BY <1>7
  <2>3. \A p \in Pid : os'[p].state # "none" <=> p < new + 1
    <3>1. \A p \in Pid : p < new + 1 <=> p < new \/ p = new
      BY <1>5 DEF Pid
    <3> QED BY <1>2, <1>3, <1>7, <2>2, <3>1
  <2> QED BY <2>1, <2>3 DEF Numbered
<1> QED BY <1>3, <1>4, <1>5, <1>7, <1>8, <1>9

LEMMA SpawnKeeps ==
  ASSUME ProcessInv, NEW t \in Thread, Spawn(t)
  PROVE  ProcessInv'
<1>1. /\ TypeOK /\ Numbered /\ Shape /\ HandlesReal /\ Free /\ ChildHeld /\ Tracked
  BY Parts
<1>2. /\ req[t].pc = "spawn" /\ req[t].todo # <<>> /\ Head(req[t].todo).op = "start"
      /\ req[t].handle = NoHandle /\ processes' = processes /\ UNCHANGED <<window, raced, refused, lost>>
      /\ StartProcess(Name(t), TRUE)
  BY <1>1 DEF Spawn, At, Shape, ghosts
<1>3. PICK p \in Pid : p = NextPid /\ os[p].state = "none"
  BY <1>1, <1>2, NewProcess, Serving
<1>4. /\ os' \in [Pid -> Process] /\ Numbered' /\ Evolves
      /\ os'[p] = [state |-> "starting", service |-> Name(t), ui |-> TRUE, owned |-> TRUE]
      /\ \A q \in Pid \ {p} : os'[q] = os[q]
  BY <1>1, <1>2, <1>3, NewProcess, Serving
<1>5. PICK h \in Handle : h = [kind |-> "spawned", pid |-> p]
  BY DEF Handle
<1>6. req[t] \in RequestType /\ req \in [Thread -> RequestType] /\ Name(t) \in Service
  BY <1>1, <1>2, Serving DEF TypeOK
<1>7. PICK r : r = [req[t] EXCEPT !.pc = "insert", !.handle = h]
  OBVIOUS
<1>8. /\ r.pc = "insert" /\ r.handle = h /\ r.todo = req[t].todo /\ r.strict = req[t].strict
      /\ r \in RequestType
  BY <1>6, <1>7 DEF RequestType
<1>9. req' = [req EXCEPT ![t] = r]
  BY <1>3, <1>5, <1>6, <1>7 DEF Spawn
<1>10. Moves(t, r)
  BY <1>2, <1>8, <1>9 DEF Moves
<1>11. t # Closer
  BY <1>2, CloserStops
<1>12. req'[t] = r /\ Name(t)' = Name(t)
  BY <1>6, <1>8, <1>9 DEF Name
<1>13. IsHandle(r.handle, Name(t))'
  BY <1>4, <1>5, <1>8, <1>12 DEF IsHandle
<1>14. refused \subseteq Service
  BY <1>1 DEF TypeOK
<1>15. Carries(t, r)
  <2>1. Name(t) \in raced \/ processes[Name(t)] = NoHandle
    BY <1>1, <1>2 DEF Free
  <2>2. \A q \in Pid : os'[q].ui => os'[q].owned
    BY <1>1, <1>4 DEF HandlesReal
  <2> QED BY <1>1, <1>2, <1>4, <1>5, <1>8, <1>10, <1>11, <1>13, <1>14, <2>1, <2>2 DEF Carries, TypeOK
<1>16. /\ TypeOK' /\ Shape' /\ HandlesReal' /\ Noticed' /\ Free' /\ Closing' /\ ExitStopsAll'
       /\ \A u \in Thread \ {t} : req'[u] = req[u]
  BY <1>15, CarriesKeeps
<1>17. \A q \in Pid, u \in Thread : req[u].handle.pid = q => u # t
  BY <1>2, NoPidIsNone
<1>18. ChildHeld'
  <2> SUFFICES ASSUME NEW q \in Pid \ lost, os'[q].ui, Alive(q)', os'[q].service \notin raced
               PROVE  \/ Awaited(q)' \/ Brought(q)'
                      \/ processes'[os'[q].service] = [kind |-> "spawned", pid |-> q]
    BY <1>2 DEF ChildHeld
  <2>1. CASE q = p
    BY <1>5, <1>8, <1>12, <2>1 DEF Brought
  <2>2. CASE q # p
    <3>1. os'[q] = os[q] /\ Alive(q)
      BY <1>4, <2>2 DEF Alive
    <3>2. Awaited(q) => Awaited(q)'
      BY <1>16, <1>17 DEF Awaited
    <3>3. Brought(q) => Brought(q)'
      BY <1>16, <1>17 DEF Brought
    <3> QED BY <1>1, <1>2, <3>1, <3>2, <3>3 DEF ChildHeld
  <2> QED BY <2>1, <2>2
<1>19. Tracked'
  <2> SUFFICES ASSUME window # "closed", NEW s \in Calm, NEW q \in Pid \ lost, os'[q].owned,
                      os'[q].service = s, Working(q)'
               PROVE  \/ processes'[s].pid = q
                      \/ \E u \in Thread : req'[u].pc # "idle" /\ req'[u].handle.pid = q
    BY <1>2 DEF Tracked, Calm, Owned
  <2>1. CASE q = p
    BY <1>5, <1>8, <1>12, <2>1
  <2>2. CASE q # p
    <3>1. os'[q] = os[q] /\ Working(q) /\ q \in Owned(s)
      BY <1>4, <2>2 DEF Working, Owned
    <3> QED BY <1>1, <1>2, <1>16, <1>17, <3>1 DEF Tracked
  <2> QED BY <2>1, <2>2
<1> QED BY <1>4, <1>16, <1>18, <1>19 DEF ProcessInv

\* Insert and Take: the handle in hand goes into the map, where there was none.
LEMMA PutKeeps ==
  ASSUME ProcessInv, NEW t \in Thread, req[t].pc \in {"insert", "take"},
         processes' = [processes EXCEPT ![Name(t)] = req[t].handle], Finish(t, TRUE),
         UNCHANGED <<window, raced, refused, lost>>,
         os' = os \/ (req[t].pc = "take" /\ os' = [os EXCEPT ![req[t].handle.pid].owned = TRUE])
  PROVE  ProcessInv'
<1>1. /\ TypeOK /\ Numbered /\ Shape /\ HandlesReal /\ Free /\ ChildHeld /\ Tracked
  BY Parts
<1>2. /\ Head(req[t].todo).op \in {"start", "adopt"} /\ req[t].handle # NoHandle
      /\ req[t].pc = "insert" => req[t].handle.kind = "spawned"
  BY <1>1, NoPidIsNone DEF Shape
<1>3. PICK h : h = req[t].handle
  OBVIOUS
<1>4. h \in Handle /\ Name(t) \in Service
  BY <1>1, <1>3, Serving DEF RequestType
<1>5. PICK p \in Pid : p = h.pid
  BY <1>1, <1>2, <1>3 DEF HandlesReal, IsHandle
<1>6. os[p].state # "none" /\ os[p].service = Name(t)
  BY <1>1, <1>2, <1>3, <1>5 DEF HandlesReal, IsHandle
<1>7. /\ os' \in [Pid -> Process]
      /\ \A q \in Pid : /\ os'[q].state = os[q].state /\ os'[q].service = os[q].service
                        /\ os'[q].ui = os[q].ui /\ (os[q].owned => os'[q].owned)
                        /\ q # p => os'[q] = os[q]
  <2>1. os \in [Pid -> Process]
    BY <1>1 DEF TypeOK
  <2>2. CASE os' = os
    BY <2>1, <2>2
  <2>3. CASE os' = [os EXCEPT ![p].owned = TRUE]
    <3>1. PICK x : x = [os[p] EXCEPT !.owned = TRUE]
      OBVIOUS
    <3>2. os' = [os EXCEPT ![p] = x]
      BY <2>1, <2>3, <3>1
    <3>3. /\ x \in Process /\ x.state = os[p].state /\ x.service = os[p].service
          /\ x.ui = os[p].ui /\ x.owned = TRUE
      BY <2>1, <3>1 DEF Process
    <3> QED BY <2>1, <3>2, <3>3
  <2> QED BY <1>3, <1>5, <2>2, <2>3
<1>8. PICK r : Finishes(t, r)
  BY <1>1, FinishMoves
<1>9. Moves(t, r) /\ r.pc \in {"idle", "check"} /\ r.handle = NoHandle
  BY <1>8 DEF Finishes
<1>10. t # Closer
  BY <1>2, CloserStops
<1>11. /\ processes' \in [Service -> Handle] /\ processes'[Name(t)] = h
       /\ \A s \in Service \ {Name(t)} : processes'[s] = processes[s]
  BY <1>1, <1>3, <1>4 DEF TypeOK
<1>12. Carries(t, r)
  <2>1. Evolves
    BY <1>7 DEF Evolves
  <2>2. \A q \in Pid : os'[q].ui => os'[q].owned
    BY <1>1, <1>7 DEF HandlesReal
  <2>3. refused \subseteq Service
    BY <1>1 DEF TypeOK
  <2> QED BY <1>3, <1>7, <1>9, <1>10, <1>11, <2>1, <2>2, <2>3 DEF Carries
<1>13. /\ TypeOK' /\ Shape' /\ HandlesReal' /\ Noticed' /\ Free' /\ Closing' /\ ExitStopsAll'
       /\ \A u \in Thread \ {t} : req'[u] = req[u]
  BY <1>12, CarriesKeeps
<1>14. Numbered'
  BY <1>1, <1>7 DEF Numbered
<1>15. Name(t) \in raced \/ processes[Name(t)] = NoHandle
  BY <1>1, <1>2 DEF Free
<1>16. ChildHeld'
  <2> SUFFICES ASSUME NEW q \in Pid \ lost, os'[q].ui, Alive(q)', os'[q].service \notin raced
               PROVE  \/ Awaited(q)' \/ Brought(q)'
                      \/ processes'[os'[q].service] = [kind |-> "spawned", pid |-> q]
    BY DEF ChildHeld
  <2>1. os[q].ui /\ Alive(q) /\ os'[q].service = os[q].service /\ os[q].service \in Service
    BY <1>1, <1>7 DEF Alive, TypeOK, Process
  <2>2. CASE Awaited(q)
    BY <1>13, <2>2 DEF Awaited
  <2>3. CASE \E u \in Thread \ {t} : req[u].pc = "insert" /\ req[u].handle.pid = q
    BY <1>13, <2>3 DEF Brought
  <2>4. CASE req[t].pc = "insert" /\ h.pid = q
    <3>1. os[q].service = Name(t) /\ h.kind = "spawned"
      BY <1>2, <1>3, <1>5, <1>6, <2>4
    <3>2. h = [kind |-> "spawned", pid |-> q]
      BY <1>4, <2>4, <3>1 DEF Handle
    <3> QED BY <1>11, <2>1, <3>1, <3>2
  <2>5. CASE processes[os[q].service] = [kind |-> "spawned", pid |-> q]
    <3>1. processes[os[q].service] # NoHandle
      BY <2>5, NoPidIsNone
    <3>2. os[q].service # Name(t)
      BY <1>15, <2>1, <3>1
    <3> QED BY <1>11, <2>1, <2>5, <3>2
  <2> QED BY <1>1, <1>3, <2>1, <2>2, <2>3, <2>4, <2>5 DEF ChildHeld, Brought
<1>17. Tracked'
  <2> SUFFICES ASSUME window # "closed", NEW s \in Calm, NEW q \in Pid \ lost, os'[q].owned,
                      os'[q].service = s, Working(q)'
               PROVE  \/ processes'[s].pid = q
                      \/ \E u \in Thread : req'[u].pc # "idle" /\ req'[u].handle.pid = q
    BY DEF Tracked, Calm, Owned
  <2>1. Working(q) /\ os[q].service = s /\ s \in Service /\ s \notin raced
    BY <1>7 DEF Working, Calm
  <2>2. CASE q = p
    BY <1>5, <1>6, <1>11, <2>1, <2>2
  <2>3. CASE q # p
    <3>1. q \in Owned(s)
      BY <1>7, <2>1, <2>3 DEF Owned
    <3>2. CASE processes[s].pid = q
      <4>1. processes[s] # NoHandle
        BY <3>2, NoPidIsNone
      <4>2. s # Name(t)
        BY <1>15, <2>1, <4>1
      <4> QED BY <1>11, <2>1, <3>2, <4>2
    <3>3. CASE \E u \in Thread : req[u].pc # "idle" /\ req[u].handle.pid = q
      BY <1>3, <1>5, <1>13, <2>3, <3>3
    <3> QED BY <1>1, <2>1, <3>1, <3>2, <3>3 DEF Tracked
  <2> QED BY <2>2, <2>3
<1> QED BY <1>13, <1>14, <1>16, <1>17 DEF ProcessInv

LEMMA FindKeeps ==
  ASSUME ProcessInv, NEW t \in Thread, Find(t), Cardinality(Images(Name(t))) = 1
  PROVE  ProcessInv'
<1>1. /\ TypeOK /\ Numbered /\ Shape /\ HandlesReal /\ Free /\ ChildHeld /\ Tracked
  BY Parts
<1>2. /\ req[t].pc = "find" /\ req[t].todo # <<>> /\ Head(req[t].todo).op = "adopt"
      /\ req[t].handle = NoHandle /\ UNCHANGED <<os, processes, window, raced, refused, lost>>
  BY <1>1 DEF Find, At, Shape, ghosts
<1>3. PICK p \in Images(Name(t)) :
        req' = [req EXCEPT ![t].pc = "take", ![t].handle = [kind |-> "adopted", pid |-> p]]
  BY DEF Find
<1>4. p \in Pid /\ os[p].state # "none" /\ os[p].service = Name(t)
  BY DEF Images, Alive
<1>5. PICK h \in Handle : h = [kind |-> "adopted", pid |-> p]
  BY <1>4 DEF Handle
<1>6. req[t] \in RequestType /\ req \in [Thread -> RequestType] /\ Name(t) \in Service
  BY <1>1, <1>2, Serving DEF TypeOK
<1>7. PICK r : r = [req[t] EXCEPT !.pc = "take", !.handle = h]
  OBVIOUS
<1>8. /\ r.pc = "take" /\ r.handle = h /\ r.todo = req[t].todo /\ r.strict = req[t].strict
      /\ r \in RequestType
  BY <1>6, <1>7 DEF RequestType
<1>9. req' = [req EXCEPT ![t] = r]
  BY <1>3, <1>5, <1>6, <1>7
<1>10. Moves(t, r)
  BY <1>2, <1>8, <1>9 DEF Moves
<1>11. t # Closer
  BY <1>2, CloserStops
<1>12. req'[t] = r /\ Name(t)' = Name(t)
  BY <1>6, <1>8, <1>9 DEF Name
<1>13. IsHandle(r.handle, Name(t))'
  BY <1>2, <1>4, <1>5, <1>8, <1>12 DEF IsHandle
<1>14. Carries(t, r)
  <2>1. Name(t) \in raced \/ processes[Name(t)] = NoHandle
    BY <1>1, <1>2 DEF Free
  <2>2. Evolves /\ \A q \in Pid : os'[q].ui => os'[q].owned
    BY <1>1, <1>2 DEF HandlesReal, Evolves
  <2>3. refused \subseteq Service /\ os \in [Pid -> Process] /\ processes \in [Service -> Handle]
    BY <1>1 DEF TypeOK
  <2> QED BY <1>2, <1>5, <1>8, <1>10, <1>11, <1>13, <2>1, <2>2, <2>3 DEF Carries
<1>15. /\ TypeOK' /\ Shape' /\ HandlesReal' /\ Noticed' /\ Free' /\ Closing' /\ ExitStopsAll'
       /\ \A u \in Thread \ {t} : req'[u] = req[u]
  BY <1>14, CarriesKeeps
<1>16. \A q \in Pid, u \in Thread : req[u].handle.pid = q => u # t
  BY <1>2, NoPidIsNone
<1>17. Numbered'
  BY <1>1, <1>2 DEF Numbered
<1>18. ChildHeld'
  <2>1. \A q \in Pid : (Awaited(q) => Awaited(q)') /\ (Brought(q) => Brought(q)')
    BY <1>15, <1>16 DEF Awaited, Brought
  <2> QED BY <1>1, <1>2, <2>1 DEF ChildHeld, Alive
<1>19. Tracked'
  <2> SUFFICES ASSUME window # "closed", NEW s \in Calm, NEW q \in Owned(s), Working(q)
               PROVE  \/ processes[s].pid = q
                      \/ \E u \in Thread : req'[u].pc # "idle" /\ req'[u].handle.pid = q
    BY <1>2 DEF Tracked, Calm, Owned, Working
  <2>1. q \in Pid
    BY DEF Owned
  <2> QED BY <1>1, <1>15, <1>16, <2>1 DEF Tracked
<1> QED BY <1>15, <1>17, <1>18, <1>19 DEF ProcessInv

LEMMA TakeHandleKeeps ==
  ASSUME ProcessInv, NEW t \in Thread, TakeHandle(t), Managed(Name(t))
  PROVE  ProcessInv'
<1>1. /\ TypeOK /\ Numbered /\ Shape /\ HandlesReal /\ Free /\ ChildHeld /\ Tracked
  BY Parts
<1>2. /\ req[t].pc = "check" /\ req[t].todo # <<>> /\ Head(req[t].todo).op = "stop"
      /\ req[t].handle = NoHandle /\ UNCHANGED <<os, window, raced, refused, lost>>
      /\ Reap(Name(t))
      /\ req' = [req EXCEPT ![t].pc = "kill", ![t].handle = processes[Name(t)]]
  BY <1>1 DEF TakeHandle, At, Shape, ghosts
<1>3. req[t] \in RequestType /\ req \in [Thread -> RequestType] /\ Name(t) \in Service
  BY <1>1, <1>2, Serving DEF TypeOK
<1>4. PICK h \in Handle : h = processes[Name(t)]
  BY <1>1, <1>3 DEF TypeOK
<1>5. h.kind # "none" /\ IsHandle(h, Name(t))
  BY <1>1, <1>3, <1>4 DEF Managed, HandlesReal
<1>6. PICK r : r = [req[t] EXCEPT !.pc = "kill", !.handle = h]
  OBVIOUS
<1>7. /\ r.pc = "kill" /\ r.handle = h /\ r.todo = req[t].todo /\ r.strict = req[t].strict
      /\ r \in RequestType
  BY <1>3, <1>6 DEF RequestType
<1>8. req' = [req EXCEPT ![t] = r]
  BY <1>2, <1>3, <1>4, <1>6
<1>9. Moves(t, r)
  BY <1>2, <1>7, <1>8 DEF Moves
<1>10. req'[t] = r /\ Name(t)' = Name(t)
  BY <1>3, <1>7, <1>8 DEF Name
<1>11. IsHandle(r.handle, Name(t))'
  BY <1>2, <1>5, <1>7, <1>10 DEF IsHandle
<1>12. /\ processes' \in [Service -> Handle] /\ processes'[Name(t)] = NoHandle
       /\ \A s \in Service \ {Name(t)} : processes'[s] = processes[s]
  BY <1>1, <1>2, <1>3, NoRequestType DEF Reap, TypeOK
<1>13. ASSUME t = Closer, NEW s \in Service, StillToStop(s), processes'[s] # NoHandle
       PROVE  StillToStop(s)'
  <2>1. PICK i \in DOMAIN req[t].todo : req[t].todo[i] = Task("stop", s)
    BY <1>13 DEF StillToStop
  <2>2. i # 1
    <3> SUFFICES ASSUME i = 1 PROVE FALSE
      OBVIOUS
    <3>1. Head(req[t].todo) = Task("stop", s)
      BY <1>1, <1>2, <2>1, Lists, Serving
    <3> QED BY <1>12, <1>13, <3>1 DEF Name, Task
  <2> QED BY <1>7, <1>10, <1>13, <2>1, <2>2 DEF StillToStop
<1>14. Carries(t, r)
  <2>1. Evolves /\ \A q \in Pid : os'[q].ui => os'[q].owned
    BY <1>1, <1>2 DEF HandlesReal, Evolves
  <2>2. refused \subseteq Service /\ os \in [Pid -> Process]
    BY <1>1 DEF TypeOK
  <2> QED BY <1>2, <1>5, <1>7, <1>9, <1>11, <1>12, <1>13, <2>1, <2>2 DEF Carries
<1>15. /\ TypeOK' /\ Shape' /\ HandlesReal' /\ Noticed' /\ Free' /\ Closing' /\ ExitStopsAll'
       /\ \A u \in Thread \ {t} : req'[u] = req[u]
  BY <1>14, CarriesKeeps
<1>16. \A q \in Pid, u \in Thread : req[u].handle.pid = q => u # t
  BY <1>2, NoPidIsNone
<1>17. Numbered'
  BY <1>1, <1>2 DEF Numbered
<1>18. ChildHeld'
  <2> SUFFICES ASSUME NEW q \in Pid \ lost, os[q].ui, Alive(q), os[q].service \notin raced
               PROVE  \/ Awaited(q)' \/ Brought(q)'
                      \/ processes'[os[q].service] = [kind |-> "spawned", pid |-> q]
    BY <1>2 DEF ChildHeld, Alive
  <2>1. os[q].service \in Service
    BY <1>1 DEF TypeOK, Process
  <2>2. (Awaited(q) => Awaited(q)') /\ (Brought(q) => Brought(q)')
    BY <1>15, <1>16 DEF Awaited, Brought
  <2>3. CASE processes[os[q].service] = [kind |-> "spawned", pid |-> q]
    <3>1. CASE os[q].service = Name(t)
      BY <1>4, <1>7, <1>10, <2>3, <3>1 DEF Awaited
    <3>2. CASE os[q].service # Name(t)
      BY <1>12, <2>1, <2>3, <3>2
    <3> QED BY <3>1, <3>2
  <2> QED BY <1>1, <2>2, <2>3 DEF ChildHeld
<1>19. Tracked'
  <2> SUFFICES ASSUME window # "closed", NEW s \in Calm, NEW q \in Owned(s), Working(q)
               PROVE  \/ processes'[s].pid = q
                      \/ \E u \in Thread : req'[u].pc # "idle" /\ req'[u].handle.pid = q
    BY <1>2 DEF Tracked, Calm, Owned, Working
  <2>1. q \in Pid /\ s \in Service
    BY DEF Owned, Calm
  <2>2. CASE processes[s].pid = q
    <3>1. CASE s = Name(t)
      BY <1>4, <1>7, <1>10, <2>2, <3>1
    <3>2. CASE s # Name(t)
      BY <1>12, <2>1, <2>2, <3>2
    <3> QED BY <3>1, <3>2
  <2>3. CASE \E u \in Thread : req[u].pc # "idle" /\ req[u].handle.pid = q
    BY <1>15, <1>16, <2>1, <2>3
  <2> QED BY <1>1, <2>2, <2>3 DEF Tracked
<1> QED BY <1>15, <1>17, <1>18, <1>19 DEF ProcessInv

\* taskkill: the process it may end, and the service for which it is refused.
LEMMA KillOutcome ==
  ASSUME TypeOK, NEW p \in Pid, Killed(p) \/ Refused(p)
  PROVE  /\ os' \in [Pid -> Process]
         /\ \A q \in Pid : /\ os'[q].state # "none" <=> os[q].state # "none"
                           /\ os'[q].service = os[q].service /\ os'[q].ui = os[q].ui
                           /\ os'[q].owned = os[q].owned
                           /\ Alive(q)' => Alive(q)
                           /\ Working(q)' => Working(q)
         /\ refused \subseteq refused' /\ refused' \subseteq Service
         /\ Killed(p) => ~Working(p)'
         /\ Refused(p) => os[p].service \in refused' \/ ~Working(p)'
<1>1. os \in [Pid -> Process] /\ refused \subseteq Service
  BY DEF TypeOK
<1>2. CASE Refused(p)
  <2>1. os[p].service \in Service
    BY <1>1 DEF Process
  <2>2. Killed(p) => ~Working(p)'
    <3>1. ASSUME Working(p), Killed(p) PROVE ~Working(p)'
      <4>1. os' = [os EXCEPT ![p].state = "dying"]
        BY <3>1 DEF Killed
      <4>2. os'[p].state = "dying"
        BY <1>1, <4>1 DEF Process
      <4> QED BY <4>2 DEF Working
    <3>2. ~Working(p) => ~Working(p)'
      BY <1>2 DEF Refused, Working
    <3> QED BY <3>1, <3>2
  <2>3. os[p].service \in refused' \/ ~Working(p)'
    BY <1>2 DEF Refused, Alive, Working
  <2> QED BY <1>1, <1>2, <2>1, <2>2, <2>3 DEF Refused, Alive, Working
<1>3. CASE Killed(p)
  <2>1. PICK x : x = [os[p] EXCEPT !.state = IF Working(p) THEN "dying" ELSE @]
    OBVIOUS
  <2>2. /\ x \in Process /\ x.service = os[p].service /\ x.ui = os[p].ui /\ x.owned = os[p].owned
        /\ x.state = IF Working(p) THEN "dying" ELSE os[p].state
    BY <1>1, <2>1 DEF Process
  <2>3. os' = [os EXCEPT ![p] = x]
    BY <1>1, <1>3, <2>1 DEF Killed
  <2>4. /\ os' \in [Pid -> Process] /\ os'[p] = x /\ \A q \in Pid \ {p} : os'[q] = os[q]
    BY <1>1, <2>2, <2>3
  <2>5. Working(p) => x.state = "dying" /\ Alive(p) /\ os[p].state # "none"
    BY <2>2 DEF Working, Alive
  <2>6. ~Working(p)'
    BY <2>2, <2>4, <2>5 DEF Working
  <2>7. \A q \in Pid : /\ os'[q].state # "none" <=> os[q].state # "none"
                       /\ os'[q].service = os[q].service /\ os'[q].ui = os[q].ui
                       /\ os'[q].owned = os[q].owned
                       /\ Alive(q)' => Alive(q)
                       /\ Working(q)' => Working(q)
    <3> SUFFICES ASSUME NEW q \in Pid
                 PROVE  /\ os'[q].state # "none" <=> os[q].state # "none"
                        /\ os'[q].service = os[q].service /\ os'[q].ui = os[q].ui
                        /\ os'[q].owned = os[q].owned
                        /\ Alive(q)' => Alive(q)
                        /\ Working(q)' => Working(q)
      OBVIOUS
    <3>1. CASE q = p
      BY <2>2, <2>4, <2>5, <2>6, <3>1 DEF Alive
    <3>2. CASE q # p
      BY <2>4, <3>2 DEF Alive, Working
    <3> QED BY <3>1, <3>2
  <2>8. refused' = refused
    BY <1>3 DEF Killed
  <2> QED BY <1>1, <2>4, <2>6, <2>7, <2>8
<1> QED BY <1>2, <1>3

LEMMA KillChildKeeps ==
  ASSUME ProcessInv, NEW t \in Thread, KillChild(t), Goto(t, "wait"), UNCHANGED lost,
         Killed(req[t].handle.pid) \/ Refused(req[t].handle.pid)
  PROVE  ProcessInv'
<1>1. /\ TypeOK /\ Numbered /\ Shape /\ HandlesReal /\ Free /\ ChildHeld /\ Tracked
  BY Parts
<1>2. /\ req[t].pc = "kill" /\ req[t].todo # <<>> /\ Head(req[t].todo).op = "stop"
      /\ req[t].handle.kind = "spawned" /\ UNCHANGED <<processes, window, raced, lost>>
  BY <1>1 DEF KillChild, At
<1>3. PICK h \in Handle : h = req[t].handle
  BY <1>1 DEF TypeOK, RequestType
<1>4. IsHandle(h, Name(t)) /\ h # NoHandle
  BY <1>1, <1>2, <1>3, NoPidIsNone DEF HandlesReal
<1>5. PICK p \in Pid : p = h.pid
  BY <1>4 DEF IsHandle
<1>6. /\ os' \in [Pid -> Process]
      /\ \A q \in Pid : /\ os'[q].state # "none" <=> os[q].state # "none"
                        /\ os'[q].service = os[q].service /\ os'[q].ui = os[q].ui
                        /\ os'[q].owned = os[q].owned
                        /\ Alive(q)' => Alive(q)
                        /\ Working(q)' => Working(q)
      /\ refused \subseteq refused' /\ refused' \subseteq Service
  BY <1>1, <1>2, <1>3, <1>5, KillOutcome
<1>7. PICK r : /\ Moves(t, r) /\ r.pc = "wait" /\ r.handle = h /\ r.todo = req[t].todo
  BY <1>1, <1>2, <1>3, GotoSame
<1>8. req'[t] = r /\ Name(t)' = Name(t)
  BY <1>1, <1>7 DEF Moves, Name, TypeOK
<1>9. IsHandle(r.handle, Name(t))'
  BY <1>4, <1>6, <1>7, <1>8 DEF IsHandle
<1>10. Closer = t => \A s \in Service : StillToStop(s) => StillToStop(s)'
  BY <1>2, <1>7, <1>8 DEF StillToStop
<1>11. Carries(t, r)
  <2>1. Evolves /\ \A q \in Pid : os'[q].ui => os'[q].owned
    BY <1>1, <1>6 DEF HandlesReal, Evolves
  <2>2. processes \in [Service -> Handle]
    BY <1>1 DEF TypeOK
  <2> QED BY <1>2, <1>3, <1>6, <1>7, <1>9, <1>10, <2>1, <2>2 DEF Carries
<1>12. /\ TypeOK' /\ Shape' /\ HandlesReal' /\ Noticed' /\ Free' /\ Closing' /\ ExitStopsAll'
       /\ \A u \in Thread \ {t} : req'[u] = req[u]
  BY <1>11, CarriesKeeps
<1>13. Numbered'
  BY <1>1, <1>6 DEF Numbered
<1>14. \A u \in Thread : /\ req'[u].handle = req[u].handle
                         /\ req'[u].pc = req[u].pc \/ (u = t /\ req'[u].pc = "wait")
  BY <1>3, <1>7, <1>8, <1>12
<1>15. ChildHeld'
  <2>1. \A q \in Pid : (Awaited(q) => Awaited(q)') /\ (Brought(q) => Brought(q)')
    BY <1>2, <1>14 DEF Awaited, Brought
  <2> QED BY <1>1, <1>2, <1>6, <2>1 DEF ChildHeld
<1>16. Tracked'
  <2> SUFFICES ASSUME window # "closed", NEW s \in Calm', NEW q \in Pid \ lost, os'[q].owned,
                      os'[q].service = s, Working(q)'
               PROVE  \/ processes'[s].pid = q
                      \/ \E u \in Thread : req'[u].pc # "idle" /\ req'[u].handle.pid = q
    BY <1>2 DEF Tracked, Owned
  <2>1. s \in Calm /\ q \in Owned(s) /\ Working(q)
    BY <1>2, <1>6 DEF Calm, Owned
  <2> QED BY <1>1, <1>2, <1>14, <2>1 DEF Tracked
<1> QED BY <1>12, <1>13, <1>15, <1>16 DEF ProcessInv

\* try_wait fails: the child is left alone.
LEMMA ChildLeft ==
  ASSUME ProcessInv, NEW t \in Thread, KillChild(t), Overlooked(req[t].handle.pid),
         Finish(t, FALSE), UNCHANGED <<os, refused>>
  PROVE  ProcessInv'
<1>1. /\ req[t].pc = "kill" /\ UNCHANGED <<os, processes, window, raced, refused>>
  BY DEF KillChild, At
<1>2. req[t].handle.pid \in Pid /\ lost \subseteq Pid
  BY <1>1, Parts, NoPidIsNone DEF Shape, HandlesReal, IsHandle, TypeOK
<1>3. lost \subseteq lost' /\ lost' \subseteq Pid /\ Droppable(req[t].handle.pid)
  BY <1>2 DEF Overlooked, Droppable
<1>4. \E r : Quiet(t, r)
  BY <1>1, <1>3, FinishIsQuiet DEF Drops
<1> QED BY <1>4, QuietKeeps

LEMMA KillAdoptedKeeps ==
  ASSUME ProcessInv, NEW t \in Thread, KillAdopted(t)
  PROVE  ProcessInv'
<1>1. /\ TypeOK /\ Numbered /\ Shape /\ HandlesReal /\ Free /\ ChildHeld /\ Tracked
  BY Parts
<1>2. /\ req[t].pc = "kill" /\ req[t].todo # <<>>
      /\ req[t].handle.kind = "adopted" /\ UNCHANGED <<processes, window, raced, lost>>
      /\ Killed(req[t].handle.pid) \/ Refused(req[t].handle.pid)
  BY <1>1 DEF KillAdopted, At
<1>3. PICK h \in Handle : h = req[t].handle
  BY <1>1 DEF TypeOK, RequestType
<1>4. IsHandle(h, Name(t)) /\ h # NoHandle
  BY <1>1, <1>2, <1>3, NoPidIsNone DEF HandlesReal
<1>5. PICK p \in Pid : p = h.pid /\ os[p].service = Name(t)
  BY <1>4 DEF IsHandle
<1>6. /\ os' \in [Pid -> Process]
      /\ \A q \in Pid : /\ os'[q].state # "none" <=> os[q].state # "none"
                        /\ os'[q].service = os[q].service /\ os'[q].ui = os[q].ui
                        /\ os'[q].owned = os[q].owned
                        /\ Alive(q)' => Alive(q)
                        /\ Working(q)' => Working(q)
      /\ refused \subseteq refused' /\ refused' \subseteq Service
      /\ ~Working(p)' \/ os[p].service \in refused'
  BY <1>1, <1>2, <1>3, <1>5, KillOutcome
<1>7. PICK r : Finishes(t, r)
  <2>1. PICK ok \in BOOLEAN : Finish(t, ok)
    BY ProcessAssumption DEF KillAdopted
  <2> QED BY <1>1, <1>2, <2>1, FinishMoves
<1>8. Moves(t, r) /\ r.pc \in {"idle", "check"} /\ r.handle = NoHandle
  BY <1>7 DEF Finishes
<1>9. req'[t] = r
  BY <1>1, <1>8 DEF Moves, TypeOK
<1>10. ASSUME t = Closer, NEW s \in Service, StillToStop(s) PROVE StillToStop(s)'
  <2>1. PICK i \in DOMAIN req[t].todo :
          req[t].todo[i] = Task("stop", s) /\ (i = 1 => req[t].pc = "check")
    BY <1>10 DEF StillToStop
  <2>2. i # 1 /\ ~req[t].strict
    BY <1>2, <1>10, <2>1, Parts DEF Closing
  <2>3. i - 1 \in DOMAIN r.todo /\ r.todo[i - 1] = req[t].todo[i] /\ r.pc = "check"
    BY <1>7, <2>1, <2>2 DEF Finishes
  <2> QED BY <1>9, <1>10, <2>1, <2>3 DEF StillToStop
<1>11. Carries(t, r)
  <2>1. Evolves /\ \A q \in Pid : os'[q].ui => os'[q].owned
    BY <1>1, <1>6 DEF HandlesReal, Evolves
  <2>2. processes \in [Service -> Handle]
    BY <1>1 DEF TypeOK
  <2> QED BY <1>2, <1>6, <1>8, <1>10, <2>1, <2>2 DEF Carries
<1>12. /\ TypeOK' /\ Shape' /\ HandlesReal' /\ Noticed' /\ Free' /\ Closing' /\ ExitStopsAll'
       /\ \A u \in Thread \ {t} : req'[u] = req[u]
  BY <1>11, CarriesKeeps
<1>13. Numbered'
  BY <1>1, <1>6 DEF Numbered
<1>14. ChildHeld'
  <2>1. \A q \in Pid : Awaited(q) => Awaited(q)'
    <3>1. \A q \in Pid : req[t].handle # [kind |-> "spawned", pid |-> q]
      BY <1>2
    <3> QED BY <1>12, <3>1 DEF Awaited
  <2>2. \A q \in Pid : Brought(q) => Brought(q)'
    BY <1>2, <1>12 DEF Brought
  <2> QED BY <1>1, <1>2, <1>6, <2>1, <2>2 DEF ChildHeld
<1>15. Tracked'
  <2> SUFFICES ASSUME window # "closed", NEW s \in Calm', NEW q \in Pid \ lost, os'[q].owned,
                      os'[q].service = s, Working(q)'
               PROVE  \/ processes'[s].pid = q
                      \/ \E u \in Thread : req'[u].pc # "idle" /\ req'[u].handle.pid = q
    BY <1>2 DEF Tracked, Owned
  <2>1. s \in Calm /\ q \in Owned(s) /\ Working(q) /\ s \notin refused'
    BY <1>2, <1>6 DEF Calm, Owned
  <2>2. q # p
    BY <1>6, <2>1
  <2>3. CASE processes[s].pid = q
    BY <1>2, <2>3
  <2>4. CASE \E u \in Thread : req[u].pc # "idle" /\ req[u].handle.pid = q
    BY <1>3, <1>5, <1>12, <2>2, <2>4
  <2> QED BY <1>1, <2>1, <2>3, <2>4 DEF Tracked
<1> QED BY <1>12, <1>13, <1>14, <1>15 DEF ProcessInv

LEMMA StepKeeps ==
  ASSUME ProcessInv, NEW t \in Thread, Steps(t)
  PROVE  ProcessInv'
<1>1. CASE \/ NotConfigured(t) \/ CheckStart(t) \/ AskOnline(t) \/ SpawnFails(t)
           \/ CheckOffline(t) \/ AskOffline(t) \/ WaitChild(t) \/ CheckAdopt(t) \/ AskAdopt(t)
           \/ (TakeHandle(t) /\ ~Managed(Name(t)))
           \/ (Find(t) /\ Cardinality(Images(Name(t))) # 1)
  BY <1>1, QuietSteps, QuietKeeps
<1>2. CASE Spawn(t)
  BY <1>2, SpawnKeeps
<1>3. CASE Insert(t)
  BY <1>3, PutKeeps DEF Insert, ghosts
<1>4. CASE Take(t)
  BY <1>4, PutKeeps DEF Take, ghosts
<1>5. CASE TakeHandle(t) /\ Managed(Name(t))
  BY <1>5, TakeHandleKeeps
<1>6. CASE Find(t) /\ Cardinality(Images(Name(t))) = 1
  BY <1>6, FindKeeps
<1>7. CASE KillChild(t)
  BY <1>7, KillChildKeeps, ChildLeft DEF KillChild
<1>8. CASE KillAdopted(t)
  BY <1>8, KillAdoptedKeeps
<1> QED BY <1>1, <1>2, <1>3, <1>4, <1>5, <1>6, <1>7, <1>8 DEF Steps

(***************************************************************************)
(* Requests and the window                                                 *)
(***************************************************************************)

\* A thread without a request begins one.
LEMMA BeginKeeps ==
  ASSUME ProcessInv, NEW t \in Thread, req[t].pc = "idle", window # "closed",
         NEW todo \in Seq(TaskType), NEW strict \in BOOLEAN, Begin(t, todo, strict),
         window' \in {"open", "closing"}
  PROVE  /\ TypeOK' /\ Numbered' /\ Shape' /\ HandlesReal' /\ Free' /\ ChildHeld' /\ Tracked'
         /\ ExitStopsAll'
         /\ \A u \in Thread \ {t} : req'[u] = req[u]
         /\ req'[t].todo = todo /\ (todo # <<>> => req'[t].pc = "check")
         /\ req'[t].strict => strict
<1>1. /\ TypeOK /\ Numbered /\ Shape /\ HandlesReal /\ Free /\ ChildHeld /\ Tracked
  BY Parts
<1>2. /\ UNCHANGED <<os, processes, refused, lost>> /\ raced \subseteq raced'
  BY DEF Begin
<1>3. PICK r : r = IF todo = <<>> THEN NoRequest
                   ELSE [NoRequest EXCEPT !.pc = "check", !.todo = todo, !.strict = strict]
  OBVIOUS
<1>4. req' = [req EXCEPT ![t] = r]
  BY <1>3 DEF Begin
<1>5. /\ r \in RequestType /\ r.todo = todo /\ r.handle = NoHandle /\ r.pc \in {"idle", "check"}
      /\ r.pc = "idle" <=> todo = <<>>
      /\ r.strict => strict
  <2>1. CASE todo = <<>>
    <3>1. r = NoRequest
      BY <1>3, <2>1
    <3> QED BY <2>1, <3>1, NoRequestType DEF NoRequest
  <2>2. CASE todo # <<>>
    <3>1. r = [NoRequest EXCEPT !.pc = "check", !.todo = todo, !.strict = strict]
      BY <1>3, <2>2
    <3> QED BY <2>2, <3>1, NoRequestType DEF NoRequest, RequestType
  <2> QED BY <2>1, <2>2
<1>6. req' \in [Thread -> RequestType] /\ req'[t] = r /\ \A u \in Thread \ {t} : req'[u] = req[u]
  BY <1>1, <1>4, <1>5 DEF TypeOK
<1>7. \A u \in Thread : Services(req[u].todo) \subseteq Service
  <2> SUFFICES ASSUME NEW u \in Thread, NEW i \in DOMAIN req[u].todo
               PROVE  req[u].todo[i].service \in Service
    BY DEF Services
  <2>1. req[u].todo \in Seq(TaskType)
    BY <1>1 DEF TypeOK, RequestType
  <2>2. req[u].todo[i] \in TaskType
    BY <2>1
  <2> QED BY <2>2 DEF TaskType
<1>8. Services(todo) \subseteq Service
  <2> SUFFICES ASSUME NEW i \in DOMAIN todo PROVE todo[i].service \in Service
    BY DEF Services
  <2>1. todo[i] \in TaskType
    OBVIOUS
  <2> QED BY <2>1 DEF TaskType
<1>9. Inserts(todo) \subseteq Services(todo)
  BY DEF Inserts, Services
<1>10. raced' \subseteq Service
  BY <1>1, <1>7, <1>8, <1>9 DEF Begin, Others, TypeOK
<1>11. TypeOK'
  BY <1>1, <1>2, <1>5, <1>6, <1>10 DEF TypeOK
<1>12. Numbered'
  BY <1>1, <1>2 DEF Numbered
<1>13. Shape'
  BY <1>1, <1>5, <1>6 DEF Shape
<1>14. HandlesReal'
  <2>1. ASSUME NEW u \in Thread, req'[u].pc # "idle" PROVE IsHandle(req[u].handle, Name(u))'
    <3>1. CASE u = t
      BY <1>5, <1>6, <3>1 DEF IsHandle
    <3>2. CASE u # t
      BY <1>1, <1>2, <1>6, <2>1, <3>2 DEF HandlesReal, IsHandle, Name
    <3> QED BY <3>1, <3>2
  <2>2. \A s \in Service : IsHandle(processes[s], s)'
    BY <1>1, <1>2 DEF HandlesReal, IsHandle
  <2> QED BY <1>1, <1>2, <2>1, <2>2 DEF HandlesReal
<1>15. Free'
  BY <1>1, <1>2, <1>5, <1>6 DEF Free, Name
<1>16. \A u \in Thread : req[u].pc # "idle" => req'[u] = req[u]
  BY <1>6
<1>17. ChildHeld'
  <2>1. \A p \in Pid : (Awaited(p) => Awaited(p)') /\ (Brought(p) => Brought(p)')
    BY <1>16 DEF Awaited, Brought
  <2> QED BY <1>1, <1>2, <2>1 DEF ChildHeld, Alive
<1>18. Tracked'
  <2> SUFFICES ASSUME NEW s \in Calm', NEW p \in Owned(s), Working(p)
               PROVE  \/ processes[s].pid = p
                      \/ \E u \in Thread : req'[u].pc # "idle" /\ req'[u].handle.pid = p
    BY <1>2 DEF Tracked, Owned, Working
  <2>1. s \in Calm
    BY <1>2 DEF Calm
  <2> QED BY <1>1, <1>16, <2>1 DEF Tracked
<1>19. ExitStopsAll'
  BY DEF ExitStopsAll
<1> QED BY <1>5, <1>6, <1>11, <1>12, <1>13, <1>14, <1>15, <1>17, <1>18, <1>19

LEMMA ReceiveKeeps ==
  ASSUME ProcessInv, NEW t \in Request, NEW o \in Op, NEW s \in Service, Receive(t, o, s)
  PROVE  ProcessInv'
<1>1. TypeOK /\ Noticed /\ Closing
  BY Parts
<1>2. PICK todo \in Seq(TaskType) : todo = Todo(o, s)
  BY TodoType
<1>3. PICK strict \in BOOLEAN : strict = (o = "restart")
  OBVIOUS
<1>4. /\ t \in Thread /\ t # Closer /\ Closer \in Thread /\ Request \subseteq Thread
      /\ Thread = Request \cup {Closer}
  BY ProcessAssumption DEF Thread
<1>5. /\ window \in {"open", "closing"} /\ req[t].pc = "idle" /\ window' = window
      /\ Begin(t, todo, strict)
  BY <1>1, <1>2, <1>3 DEF Receive, TypeOK
<1>6. /\ TypeOK' /\ Numbered' /\ Shape' /\ HandlesReal' /\ Free' /\ ChildHeld' /\ Tracked'
      /\ ExitStopsAll'
      /\ \A u \in Thread \ {t} : req'[u] = req[u]
      /\ req'[t].todo = todo
  BY <1>4, <1>5, BeginKeeps
<1>7. raced \subseteq raced' /\ UNCHANGED <<os, processes, refused>>
  BY <1>5 DEF Begin
<1>8. window = "closing" => Services(todo) \subseteq raced'
  BY <1>4, <1>5 DEF Begin
<1>9. \A u \in Thread \ {t} : Inserts(todo) \cap Inserts(req[u].todo) \subseteq raced'
  <2>1. CASE window = "closing"
    BY <1>8, <2>1 DEF Inserts, Services
  <2>2. CASE window = "open"
    <3>1. raced' = raced \cup (Inserts(todo) \cap Others(t, Inserts))
      BY <1>4, <1>5, <2>2 DEF Begin
    <3>2. \A u \in Thread \ {t} : Inserts(req[u].todo) \subseteq Others(t, Inserts)
      BY DEF Others
    <3> QED BY <3>1, <3>2
  <2> QED BY <1>5, <2>1, <2>2
<1>10. Noticed'
  <2>1. ASSUME NEW u \in Thread, NEW v \in Thread, u # v
        PROVE  Inserts(req'[u].todo) \cap Inserts(req'[v].todo) \subseteq raced'
    <3>1. CASE u = t
      BY <1>6, <1>9, <2>1, <3>1
    <3>2. CASE v = t
      BY <1>6, <1>9, <2>1, <3>2
    <3>3. CASE u # t /\ v # t
      BY <1>1, <1>6, <1>7, <2>1, <3>3 DEF Noticed
    <3> QED BY <3>1, <3>2, <3>3
  <2>2. ASSUME NEW u \in Request, window' # "open" PROVE Services(req'[u].todo) \subseteq raced'
    <3>1. CASE u = t
      BY <1>5, <1>6, <1>8, <2>2, <3>1
    <3>2. CASE u # t
      BY <1>1, <1>4, <1>5, <1>6, <1>7, <2>2, <3>2 DEF Noticed
    <3> QED BY <3>1, <3>2
  <2> QED BY <2>1, <2>2 DEF Noticed
<1>11. Closing'
  BY <1>1, <1>4, <1>5, <1>6, <1>7 DEF Closing, StillToStop
<1> QED BY <1>6, <1>10, <1>11 DEF ProcessInv

\* The order in which the closer stops has every service that has a handle.
LEMMA OrderHasAll ==
  ASSUME NEW S, IsFiniteSet(S), NEW order \in SetToSeqs(S)
  PROVE  order \in Seq(S) /\ \A s \in S : \E i \in DOMAIN order : order[i] = s
<1> DEFINE n == Cardinality(S)
<1>1. n \in Nat
  BY FS_CardinalityType
<1>2. order \in [1 .. n -> S] /\ \A i, j \in 1 .. n : i # j => order[i] # order[j]
  BY DEF SetToSeqs
<1>3. order \in Injection(1 .. n, S)
  BY <1>2 DEF Injection, IsInjective
<1>4. Cardinality(1 .. n) = n
  BY <1>1, FS_Interval
<1>5. order \in Surjection(1 .. n, S)
  BY <1>3, <1>4, FS_Injection
<1>6. \A s \in S : \E i \in 1 .. n : order[i] = s
  BY <1>5 DEF Surjection
<1> QED BY <1>1, <1>2, <1>6

LEMMA CloseKeeps ==
  ASSUME ProcessInv, CloseRequested
  PROVE  ProcessInv'
<1>1. TypeOK /\ Noticed /\ Closing
  BY Parts
<1> DEFINE M == {s \in Service : Managed(s)}
<1>2. IsFiniteSet(M)
  BY ProcessAssumption, FS_Subset
<1>3. PICK order \in SetToSeqs(M) : Begin(Closer, Tasks("stop", order), FALSE)
  BY DEF CloseRequested
<1>4. order \in Seq(M) /\ \A s \in M : \E i \in DOMAIN order : order[i] = s
  BY <1>2, OrderHasAll
<1>5. order \in Seq(Service)
  BY <1>4, SeqMonotonic
<1>6. PICK todo \in Seq(TaskType) : todo = Tasks("stop", order) /\ Inserts(todo) = {}
  BY <1>5, ListsOfTasks
<1>7. /\ Closer \in Thread /\ Request \subseteq Thread /\ Closer \notin Request
      /\ window = "open" /\ window' = "closing" /\ req[Closer] = NoRequest
  BY <1>1, ProcessAssumption DEF CloseRequested, Closing, Thread
<1>8. Begin(Closer, todo, FALSE) /\ req[Closer].pc = "idle"
  <2>1. Begin(Closer, todo, FALSE)
    BY <1>3, <1>6
  <2>2. req[Closer].pc = "idle"
    BY <1>7 DEF NoRequest
  <2> QED BY <2>1, <2>2
<1>9. /\ TypeOK' /\ Numbered' /\ Shape' /\ HandlesReal' /\ Free' /\ ChildHeld' /\ Tracked'
      /\ ExitStopsAll'
      /\ \A u \in Thread \ {Closer} : req'[u] = req[u]
      /\ req'[Closer].todo = todo /\ (todo # <<>> => req'[Closer].pc = "check")
      /\ ~req'[Closer].strict
  BY <1>7, <1>8, BeginKeeps
<1>10. /\ raced' = raced \cup Others(Closer, Services) /\ UNCHANGED <<os, processes, refused, lost>>
  BY <1>7, <1>8 DEF Begin
<1>11. \A u \in Thread \ {Closer} : Services(req[u].todo) \subseteq raced'
  BY <1>10 DEF Others
<1>12. Noticed'
  <2>1. ASSUME NEW u \in Thread, NEW v \in Thread, u # v
        PROVE  Inserts(req'[u].todo) \cap Inserts(req'[v].todo) \subseteq raced'
    <3>1. CASE u = Closer \/ v = Closer
      BY <1>6, <1>9, <3>1
    <3>2. CASE u # Closer /\ v # Closer
      BY <1>1, <1>9, <1>10, <2>1, <3>2 DEF Noticed
    <3> QED BY <3>1, <3>2
  <2> QED BY <1>7, <1>9, <1>11, <2>1 DEF Noticed
<1>13. Closing'
  <2>1. ASSUME NEW s \in Service, processes[s] # NoHandle PROVE StillToStop(s)'
    <3>1. s \in M
      BY <2>1, Parts DEF HandlesReal, IsHandle, Managed
    <3>2. PICK i \in DOMAIN order : order[i] = s
      BY <1>4, <3>1
    <3>3. DOMAIN todo = DOMAIN order /\ todo[i] = Task("stop", s)
      BY <1>6, <3>2 DEF Tasks
    <3>4. todo # <<>>
      BY <3>2, <3>3
    <3> QED BY <1>9, <3>2, <3>3, <3>4 DEF StillToStop
  <2> QED BY <1>6, <1>7, <1>9, <1>10, <2>1 DEF Closing
<1> QED BY <1>9, <1>12, <1>13 DEF ProcessInv

\* When the program ends, no handle is left, neither in the map nor in hand.
LEMMA ExitKeeps ==
  ASSUME ProcessInv, Exit
  PROVE  ProcessInv'
<1>1. /\ TypeOK /\ Numbered /\ Shape /\ HandlesReal /\ Noticed /\ ChildHeld /\ Closing /\ Tracked
  BY Parts
<1>2. /\ window = "closing" /\ window' = "closed" /\ req[Closer].todo = <<>>
      /\ req' = [t \in Thread |-> NoRequest] /\ UNCHANGED <<os, processes, raced, refused, lost>>
  BY DEF Exit, ghosts
<1>3. \A t \in Thread : req'[t] = NoRequest
  BY <1>2
<1>4. /\ NoRequest.pc = "idle" /\ NoRequest.todo = <<>> /\ NoRequest.handle = NoHandle
      /\ NoRequest.strict = FALSE
  BY DEF NoRequest
<1>5. Closer \in Thread /\ Request \subseteq Thread /\ Thread = Request \cup {Closer}
  BY DEF Thread
<1>6. Services(<<>>) = {} /\ Inserts(<<>>) = {}
  BY DEF Services, Inserts
<1>7. TypeOK'
  BY <1>1, <1>2, <1>3, <1>4, NoRequestType DEF TypeOK
<1>8. Numbered'
  BY <1>1, <1>2 DEF Numbered
<1>9. Shape' /\ Free'
  BY <1>3, <1>4 DEF Shape, Free
<1>10. HandlesReal'
  <2>1. \A s \in Service : IsHandle(processes[s], s)'
    BY <1>1, <1>2 DEF HandlesReal, IsHandle
  <2>2. \A t \in Thread : req'[t].pc = "idle"
    BY <1>3, <1>4
  <2> QED BY <1>1, <1>2, <2>1, <2>2 DEF HandlesReal
<1>11. Noticed'
  BY <1>3, <1>4, <1>5, <1>6 DEF Noticed
<1>12. Closing'
  BY <1>2, <1>3, <1>4, <1>5, <1>6 DEF Closing
<1>13. \A s \in Service \ raced : processes[s] = NoHandle
  <2>1. \A s : ~StillToStop(s)
    BY <1>2 DEF StillToStop
  <2> QED BY <1>1, <1>2, <2>1 DEF Closing
<1>14. ASSUME NEW t \in Thread, req[t].pc # "idle" PROVE Name(t) \in raced
  <2>1. req[Closer].pc = "idle"
    BY <1>1, <1>2, <1>5 DEF TypeOK
  <2>2. t \in Request
    BY <1>5, <1>14, <2>1
  <2> QED BY <1>1, <1>2, <1>14, <2>2, Serving DEF Noticed
<1>15. ASSUME NEW t \in Thread, req[t].pc # "idle", NEW p \in Pid, req[t].handle.pid = p
       PROVE  os[p].service \in raced
  <2>1. os[p].service = Name(t)
    BY <1>1, <1>15, NoPidIsNone DEF HandlesReal, IsHandle
  <2> QED BY <1>14, <1>15, <2>1
<1>16. ChildHeld'
  <2> SUFFICES ASSUME NEW p \in Pid \ lost, os[p].ui, Alive(p), os[p].service \notin raced
               PROVE  FALSE
    BY <1>2 DEF ChildHeld, Alive
  <2>1. os[p].service \in Service
    BY <1>1 DEF TypeOK, Process
  <2>2. ~Awaited(p) /\ ~Brought(p)
    BY <1>15 DEF Awaited, Brought
  <2>3. processes[os[p].service] = [kind |-> "spawned", pid |-> p]
    BY <1>1, <2>2 DEF ChildHeld
  <2>4. processes[os[p].service].kind = "spawned"
    BY <2>3
  <2> QED BY <1>13, <2>1, <2>4, NoPidIsNone
<1>17. Tracked'
  BY <1>2 DEF Tracked
<1>18. ExitStopsAll'
  <2> SUFFICES ASSUME NEW s \in Calm, NEW p \in Owned(s), Working(p) PROVE FALSE
    BY <1>2 DEF ExitStopsAll, Calm, Owned, Working
  <2>1. s \in Service \ raced /\ p \in Pid /\ os[p].service = s
    BY DEF Calm, Owned
  <2>2. processes[s].pid # p
    BY <1>13, <2>1, NoPidIsNone
  <2>3. \E t \in Thread : req[t].pc # "idle" /\ req[t].handle.pid = p
    BY <1>1, <1>2, <2>2 DEF Tracked
  <2> QED BY <1>15, <2>1, <2>3
<1> QED BY <1>7, <1>8, <1>9, <1>10, <1>11, <1>12, <1>16, <1>17, <1>18 DEF ProcessInv

\* The processes go on by themselves: none that matters becomes alive.
LEMMA OsKeeps ==
  ASSUME ProcessInv, window # "closed", UNCHANGED <<processes, req, window, raced, refused>>,
         os' \in [Pid -> Process], Numbered', Evolves, lost' \subseteq Pid,
         \A p \in lost \ lost' : ~Alive(p)',
         \A p \in Pid : /\ os'[p].ui => os'[p].owned
                        /\ os'[p].owned /\ Alive(p)'   => os'[p] = os[p] \/ Alive(p)
                        /\ os'[p].owned /\ Working(p)' => os'[p] = os[p] \/ Working(p)
                        /\ os[p].state # "none" => os'[p].owned = os[p].owned
  PROVE  ProcessInv'
<1>1. /\ TypeOK /\ Shape /\ HandlesReal /\ Noticed /\ Free /\ ChildHeld /\ Closing /\ Tracked
  BY Parts
<1>2. TypeOK' /\ Shape' /\ Noticed' /\ Free' /\ Closing' /\ ExitStopsAll'
  BY <1>1 DEF TypeOK, Shape, Noticed, Free, Closing, Name, StillToStop, ExitStopsAll
<1>3. HandlesReal'
  BY <1>1 DEF HandlesReal, IsHandle, Evolves, Name
<1>4. ASSUME NEW p \in Pid, os'[p].owned, Alive(p)'
      PROVE  Alive(p) /\ os'[p].service = os[p].service /\ os'[p].ui = os[p].ui /\ os[p].owned
  <2>1. Alive(p)
    BY <1>4 DEF Alive
  <2> QED BY <1>4, <2>1 DEF Alive, Evolves
<1>5. ChildHeld'
  <2> SUFFICES ASSUME NEW p \in Pid \ lost', os'[p].ui, Alive(p)', os'[p].service \notin raced
               PROVE  \/ Awaited(p)' \/ Brought(p)'
                      \/ processes'[os'[p].service] = [kind |-> "spawned", pid |-> p]
    BY DEF ChildHeld
  <2>1. os[p].ui /\ Alive(p) /\ os'[p].service = os[p].service
    BY <1>4
  <2> QED BY <1>1, <2>1 DEF ChildHeld, Awaited, Brought
<1>6. Tracked'
  <2> SUFFICES ASSUME NEW s \in Calm, NEW p \in Pid \ lost', os'[p].owned, os'[p].service = s,
                      Working(p)'
               PROVE  \/ processes[s].pid = p
                      \/ \E u \in Thread : req[u].pc # "idle" /\ req[u].handle.pid = p
    BY DEF Tracked, Calm, Owned
  <2>1. Alive(p)' /\ Working(p)
    BY DEF Alive, Working
  <2>2. p \in Owned(s)
    BY <1>4, <2>1 DEF Owned
  <2> QED BY <1>1, <2>1, <2>2 DEF Tracked
<1> QED BY <1>2, <1>3, <1>5, <1>6 DEF ProcessInv

LEMMA EnvironmentKeeps ==
  ASSUME ProcessInv, \/ \E s \in Service : StartExternal(s)
                     \/ \E p \in Pid : BecomesReady(p) \/ ProcessEnds(p)
  PROVE  ProcessInv'
<1>1. os \in [Pid -> Process] /\ HandlesReal /\ Numbered /\ TypeOK
  BY Parts DEF TypeOK
<1>2. ASSUME NEW s \in Service, StartExternal(s) PROVE ProcessInv'
  <2>1. /\ StartProcess(s, FALSE) /\ window # "closed" /\ lost' = lost
        /\ UNCHANGED <<processes, req, window, raced, refused>>
    BY <1>2 DEF StartExternal, StartProcess, ghosts
  <2>2. PICK new \in Pid :
          /\ os[new].state = "none"
          /\ os' \in [Pid -> Process] /\ Numbered' /\ Evolves
          /\ os'[new] = [state |-> "starting", service |-> s, ui |-> FALSE, owned |-> FALSE]
          /\ \A p \in Pid \ {new} : os'[p] = os[p]
    BY <1>1, <2>1, NewProcess
  <2>3. os'[new].ui = FALSE /\ os'[new].owned = FALSE
    BY <2>2
  <2>4. \A p \in Pid : /\ os'[p].ui => os'[p].owned
                       /\ os'[p].owned => os'[p] = os[p]
                       /\ os[p].state # "none" => os'[p].owned = os[p].owned
    BY <1>1, <2>2, <2>3 DEF HandlesReal
  <2> QED BY <1>1, <2>1, <2>2, <2>4, OsKeeps DEF TypeOK
<1>3. ASSUME NEW p \in Pid, NEW state \in {"ready", "dead"}, os' = [os EXCEPT ![p].state = state],
             state = "ready" => Working(p), Alive(p), window # "closed",
             UNCHANGED <<processes, req, window, raced, refused>>,
             lost' \in {lost, lost \ {p}}, state = "ready" => lost' = lost
      PROVE  ProcessInv'
  <2>1. PICK x : x = [os[p] EXCEPT !.state = state]
    OBVIOUS
  <2>2. /\ x \in Process /\ x.state = state /\ x.service = os[p].service /\ x.ui = os[p].ui
        /\ x.owned = os[p].owned
    BY <1>1, <2>1 DEF Process
  <2>3. os' = [os EXCEPT ![p] = x]
    BY <1>1, <1>3, <2>1
  <2>4. os' \in [Pid -> Process] /\ os'[p] = x /\ \A q \in Pid \ {p} : os'[q] = os[q]
    BY <1>1, <2>2, <2>3
  <2>5. os[p].state # "none"
    BY <1>3 DEF Alive
  <2>6. \A q \in Pid : /\ os'[q].state # "none" <=> os[q].state # "none"
                       /\ os'[q].service = os[q].service /\ os'[q].ui = os[q].ui
                       /\ os'[q].owned = os[q].owned
    BY <2>2, <2>4, <2>5
  <2>7. Numbered' /\ Evolves
    BY <1>1, <2>6 DEF Numbered, Evolves
  <2>8. Working(p)' => Working(p)
    BY <1>3, <2>2, <2>4 DEF Working
  <2>9. lost' \subseteq Pid /\ \A q \in lost \ lost' : ~Alive(q)'
    BY <1>1, <1>3, <2>2, <2>4 DEF TypeOK, Alive
  <2> QED BY <1>1, <1>3, <2>4, <2>6, <2>7, <2>8, <2>9, OsKeeps DEF HandlesReal
<1>4. ASSUME NEW p \in Pid, BecomesReady(p) PROVE ProcessInv'
  BY <1>3, <1>4 DEF BecomesReady, Alive, Working, ghosts
<1>5. ASSUME NEW p \in Pid, ProcessEnds(p) PROVE ProcessInv'
  BY <1>3, <1>5 DEF ProcessEnds, ghosts
<1> QED BY <1>2, <1>4, <1>5

LEMMA PollKeeps ==
  ASSUME ProcessInv, NEW s \in Service, Poll(s)
  PROVE  ProcessInv'
<1>1. /\ TypeOK /\ Numbered /\ Shape /\ HandlesReal /\ Noticed /\ Free /\ ChildHeld /\ Closing
      /\ Tracked /\ ExitStopsAll
  BY Parts
<1>2. UNCHANGED <<os, req, window, raced, refused>> /\ window # "closed" /\ Managed(s)
  BY DEF Poll
<1>3. /\ processes' \in [Service -> Handle] /\ processes'[s] = NoHandle
      /\ \A r \in Service \ {s} : processes'[r] = processes[r]
  BY <1>1, NoRequestType DEF Poll, Reap, TypeOK
<1>4. lost \subseteq lost' /\ lost' \subseteq Pid /\ Droppable(processes[s].pid)
  <2>1. processes[s].pid \in Pid /\ lost \subseteq Pid
    BY <1>1, <1>2, NoPidIsNone DEF TypeOK, HandlesReal, IsHandle, Managed
  <2> QED BY <1>2, <2>1 DEF Poll, Look, Overlooked, Droppable, Running
<1>5. TypeOK' /\ Numbered' /\ Shape' /\ Noticed' /\ ExitStopsAll'
  BY <1>1, <1>2, <1>3, <1>4 DEF TypeOK, Numbered, Shape, Noticed, ExitStopsAll
<1>6. HandlesReal'
  <2>1. ASSUME NEW r \in Service PROVE IsHandle(processes[r], r)'
    BY <1>1, <1>2, <1>3, <2>1 DEF HandlesReal, IsHandle
  <2>2. ASSUME NEW u \in Thread, req'[u].pc # "idle" PROVE IsHandle(req[u].handle, Name(u))'
    BY <1>1, <1>2, <2>2 DEF HandlesReal, IsHandle, Name
  <2> QED BY <1>1, <1>2, <2>1, <2>2 DEF HandlesReal
<1>7. Free'
  <2> SUFFICES ASSUME NEW u \in Thread,
                      req[u].pc \in {"online", "spawn", "insert", "find", "take"},
                      Head(req[u].todo).op \in {"start", "adopt"}
               PROVE  Name(u) \in raced \/ processes'[Name(u)] = NoHandle
    BY <1>2 DEF Free, Name
  <2>1. Name(u) \in Service
    BY <1>1, Serving
  <2> QED BY <1>1, <1>3, <2>1 DEF Free
<1>8. ChildHeld'
  <2> SUFFICES ASSUME NEW p \in Pid \ lost', os[p].ui, Alive(p), os[p].service \notin raced
               PROVE  \/ Awaited(p) \/ Brought(p)
                      \/ processes'[os[p].service] = [kind |-> "spawned", pid |-> p]
    BY <1>2 DEF ChildHeld, Awaited, Brought, Alive
  <2>1. os[p].service \in Service
    BY <1>1 DEF TypeOK, Process
  <2>2. CASE processes[os[p].service] = [kind |-> "spawned", pid |-> p]
    <3>1. os[p].service # s
      BY <1>4, <2>2 DEF Droppable
    <3> QED BY <1>3, <2>1, <2>2, <3>1
  <2> QED BY <1>1, <1>4, <2>2 DEF ChildHeld
<1>9. Closing'
  BY <1>1, <1>2, <1>3 DEF Closing, StillToStop
<1>10. Tracked'
  <2> SUFFICES ASSUME NEW r \in Calm, NEW p \in Owned(r) \ lost', Working(p)
               PROVE  \/ processes'[r].pid = p
                      \/ \E u \in Thread : req[u].pc # "idle" /\ req[u].handle.pid = p
    BY <1>2, <1>4 DEF Tracked, Calm, Owned, Working
  <2>1. CASE processes[r].pid = p
    <3>1. r # s
      BY <1>4, <2>1 DEF Working, Alive, Droppable
    <3> QED BY <1>3, <2>1, <3>1 DEF Calm
  <2> QED BY <1>1, <1>2, <2>1 DEF Tracked
<1> QED BY <1>5, <1>6, <1>7, <1>8, <1>9, <1>10 DEF ProcessInv

LEMMA ProcessInit == Init => ProcessInv
<1> SUFFICES ASSUME Init PROVE ProcessInv
  OBVIOUS
<1>1. /\ os = [p \in Pid |-> [state |-> "none", service |-> Gateway, ui |-> FALSE, owned |-> FALSE]]
      /\ processes = [s \in Service |-> NoHandle] /\ req = [t \in Thread |-> NoRequest]
      /\ window = "open" /\ raced = {} /\ refused = {} /\ lost = {}
  BY DEF Init
<1>2. \A p \in Pid : os[p].state = "none" /\ os[p].ui = FALSE /\ os[p].owned = FALSE /\ ~Alive(p)
  BY <1>1 DEF Alive
<1>3. /\ NoRequest.pc = "idle" /\ NoRequest.todo = <<>> /\ NoRequest.handle = NoHandle
      /\ NoRequest.strict = FALSE /\ Services(<<>>) = {} /\ Inserts(<<>>) = {}
  BY DEF NoRequest, Services, Inserts
<1>4. \A t \in Thread : req[t] = NoRequest
  BY <1>1
<1>5. TypeOK
  <2>1. os \in [Pid -> Process]
    BY <1>1, ProcessAssumption DEF Process
  <2> QED BY <1>1, <1>3, <1>4, <2>1, NoRequestType DEF TypeOK
<1>6. Numbered
  <2>1. 1 \in 1 .. MaxPid + 1 /\ \A p \in Pid : ~(p < 1)
    BY ProcessAssumption DEF Pid
  <2>2. \A p \in Pid : os[p].state = "none" <=> ~(p < 1)
    BY <1>2, <2>1
  <2> QED BY <1>2, <2>1, <2>2 DEF Numbered
<1>7. Shape /\ Free /\ Noticed
  BY <1>1, <1>3, <1>4 DEF Shape, Free, Noticed
<1>8. HandlesReal
  BY <1>1, <1>2, <1>3, <1>4 DEF HandlesReal, IsHandle
<1>9. ChildHeld /\ Tracked /\ ExitStopsAll
  BY <1>1, <1>2 DEF ChildHeld, Tracked, ExitStopsAll, Owned
<1>10. Closing
  BY <1>1, <1>3, <1>4 DEF Closing, Thread
<1> QED BY <1>5, <1>6, <1>7, <1>8, <1>9, <1>10 DEF ProcessInv

LEMMA ProcessNext == ProcessInv /\ [Next]_vars => ProcessInv'
<1> SUFFICES ASSUME ProcessInv, [Next]_vars PROVE ProcessInv'
  OBVIOUS
<1>1. CASE \E t \in Request, o \in Op, s \in Service : Receive(t, o, s)
  BY <1>1, ReceiveKeeps
<1>2. CASE \E t \in Thread : Step(t)
  BY <1>2, StepKeeps DEF Step
<1>8. CASE \E t \in Thread : WaitFails(t)
  BY <1>8, QuietSteps, QuietKeeps
<1>3. CASE \E s \in Service : Poll(s)
  BY <1>3, PollKeeps
<1>4. CASE CloseRequested
  BY <1>4, CloseKeeps
<1>5. CASE Exit
  BY <1>5, ExitKeeps
<1>6. CASE (\E s \in Service : StartExternal(s)) \/ \E p \in Pid : BecomesReady(p) \/ ProcessEnds(p)
  BY <1>6, EnvironmentKeeps
<1>7. CASE UNCHANGED vars
  BY <1>7 DEF vars, ProcessInv, TypeOK, Numbered, Shape, HandlesReal, Noticed, Free, ChildHeld,
              Closing, Tracked, ExitStopsAll, IsHandle, Name, Awaited, Brought, StillToStop,
              Alive, Working, Calm, Owned
<1> QED BY <1>1, <1>2, <1>3, <1>4, <1>5, <1>6, <1>7, <1>8 DEF Next

\* The variables have their types: handles, requests and processes.
THEOREM ProcessTypes == Spec => []TypeOK
  BY ProcessInit, ProcessNext, PTL DEF Spec, ProcessInv

\* While the program runs, every process it started or adopted, and at which no
\* look has failed, has its handle in the map or in the hands of a thread that
\* will put it there or end it: start_service, stop_service and adopt_service
\* lose none between their accesses to the map, whatever the threads interleave.
THEOREM NoProcessIsLost == Spec => []Tracked
  BY ProcessInit, ProcessNext, PTL DEF Spec, ProcessInv

\* Closing the window leaves no process that the program started or adopted and
\* at which no look has failed.
THEOREM ClosingStopsAll == Spec => []ExitStopsAll
  BY ProcessInit, ProcessNext, PTL DEF Spec, ProcessInv

\* Two processes of a service that the program started run together only while
\* a thread is stopping one of them.
THEOREM AtMostOneChild == Spec => []OneChild
<1>1. ProcessInv => OneChild
  <2> SUFFICES ASSUME ProcessInv, NEW s \in Service \ raced, NEW p \in Owned(s), NEW q \in Owned(s),
                      os[p].ui, os[q].ui, Alive(p), Alive(q), p # q,
                      ~Stopping(p), ~Stopping(q)
               PROVE  FALSE
    BY DEF OneChild
  <2>1. /\ TypeOK /\ Shape /\ HandlesReal /\ Noticed /\ Free /\ ChildHeld
        /\ p \in Pid \ lost /\ q \in Pid \ lost /\ os[p].service = s /\ os[q].service = s
    BY Parts DEF Owned
  <2>2. ~Awaited(p) /\ ~Awaited(q)
    BY DEF Awaited, Stopping
  <2>3. /\ Brought(p) \/ processes[s] = [kind |-> "spawned", pid |-> p]
        /\ Brought(q) \/ processes[s] = [kind |-> "spawned", pid |-> q]
    BY <2>1, <2>2 DEF ChildHeld
  <2>4. ASSUME NEW t \in Thread, req[t].pc = "insert", NEW x \in {p, q}, req[t].handle.pid = x
        PROVE  Name(t) = s /\ s \in Inserts(req[t].todo) /\ processes[s] = NoHandle
    <3>1. Name(t) = s
      BY <2>1, <2>4, NoPidIsNone DEF HandlesReal, IsHandle
    <3>2. Head(req[t].todo).op = "start"
      BY <2>1, <2>4 DEF Shape
    <3> QED BY <2>1, <2>4, <3>1, <3>2, Serving DEF Free
  <2>5. CASE Brought(p) /\ Brought(q)
    <3>1. PICK t \in Thread, u \in Thread :
            /\ req[t].pc = "insert" /\ req[t].handle.pid = p
            /\ req[u].pc = "insert" /\ req[u].handle.pid = q
      BY <2>5 DEF Brought
    <3>2. t # u
      BY <3>1
    <3> QED BY <2>1, <2>4, <3>1, <3>2 DEF Noticed
  <2>6. CASE ~(Brought(p) /\ Brought(q))
    <3>1. PICK x \in {p, q} : processes[s] = [kind |-> "spawned", pid |-> x]
      BY <2>3, <2>6
    <3>2. processes[s].pid = x /\ processes[s] # NoHandle
      BY <2>1, <3>1, NoPidIsNone
    <3>3. ~Brought(p) /\ ~Brought(q)
      BY <2>4, <3>2 DEF Brought
    <3> QED BY <2>3, <3>3
  <2> QED BY <2>5, <2>6
<1> QED BY <1>1, ProcessInit, ProcessNext, PTL DEF Spec
=============================================================================
