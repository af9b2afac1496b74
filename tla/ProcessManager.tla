---------------------------- MODULE ProcessManager ----------------------------
(***************************************************************************)
(* The process manager of the web UI (web-ui-service/src/main.rs): threads *)
(* that serve requests to start, stop, restart and adopt the services, the *)
(* map of handles they share, and the processes of the operating system.   *)
(*                                                                         *)
(* The mutex of the map is held for single accesses only, so everything    *)
(* between two of them is an action of its own.  The program is built for  *)
(* Windows (README.md, Cargo.toml): killing goes through taskkill, and     *)
(* adopting finds processes by the name of their image.                    *)
(***************************************************************************)
EXTENDS Integers, Sequences, FiniteSets, SequencesExt

CONSTANTS
  Service,    \* configured services
  Gateway,    \* the service "http-gateway"
  Rest,       \* the other services, in the order of config.json
  Direct,     \* services asked for their health directly (workflow-manager)
  Request,    \* threads that serve a request
  Closer,     \* the thread of the window: it serves CloseRequested
  MaxPid,     \* bound on the processes of one behaviour
  Op,         \* requests that clients send
  PingMayFail,\* TRUE: the answer of a running service may come too late
  KillMayFail,\* TRUE: taskkill may be refused, or not start at all
  LookMayFail \* TRUE: try_wait, wait and tasklist may fail

ASSUME ProcessAssumption ==
  /\ MaxPid \in Nat
  /\ IsFiniteSet(Service)
  /\ Gateway \in Service
  /\ Rest \in Seq(Service \ {Gateway})
  /\ Direct \subseteq Service
  /\ Closer \notin Request
  /\ Op \subseteq {"start", "stop", "restart", "adopt", "start-all", "start-offline",
                   "stop-all", "restart-all"}
  /\ PingMayFail \in BOOLEAN
  /\ KillMayFail \in BOOLEAN
  /\ LookMayFail \in BOOLEAN

Thread == Request \cup {Closer}

\* Processes are numbered in the order in which they start; ids are not used
\* again.
Pid   == 1..MaxPid
NoPid == 0

VARIABLES
  os,        \* the processes: state, service, and who started them
  processes, \* state.processes: the handle of each service
  req,       \* the request each thread serves
  window,    \* "open", "closing", or "closed": the program has ended
  raced,     \* services with overlapping starts or adoptions (history)
  refused,   \* services whose process taskkill did not end (history)
  lost       \* living processes whose handle was dropped unseen (history)

vars == <<os, processes, req, window, raced, refused, lost>>

\* A process.  Two flags are history: `ui' says that the UI started it, and
\* `owned' that it started or adopted it.  A "dying" one has been terminated
\* and has not gone yet.
Process == [state : {"none", "starting", "ready", "dying", "dead"},
            service : Service, ui : BOOLEAN, owned : BOOLEAN]

Handle   == [kind : {"none", "spawned", "adopted"}, pid : Pid \cup {NoPid}]
NoHandle == [kind |-> "none", pid |-> NoPid]

Alive(p)   == os[p].state \in {"starting", "ready", "dying"}
Working(p) == os[p].state \in {"starting", "ready"}

\* A request is a list of steps; `strict' ends it at the first error.
TaskType == [op : {"start", "start-offline", "stop", "adopt"}, service : Service]
Task(o, s) == [op |-> o, service |-> s]
RequestType ==
  [pc : {"idle", "check", "online", "spawn", "insert", "kill", "wait", "find", "take"},
   todo : Seq(TaskType), strict : BOOLEAN, handle : Handle]
NoRequest == [pc |-> "idle", todo |-> <<>>, strict |-> FALSE, handle |-> NoHandle]

Name(t) == Head(req[t].todo).service
At(t, o, pc) == req[t].pc = pc /\ req[t].todo # <<>> /\ Head(req[t].todo).op = o

Init ==
  /\ os = [p \in Pid |-> [state |-> "none", service |-> Gateway,
                          ui |-> FALSE, owned |-> FALSE]]
  /\ processes = [s \in Service |-> NoHandle]
  /\ req = [t \in Thread |-> NoRequest]
  /\ window = "open"
  /\ raced = {}
  /\ refused = {}
  /\ lost = {}

ghosts == <<raced, refused, lost>>

-----------------------------------------------------------------------------
(* service_action and batch_service_action: which steps a request takes *)

\* start-all takes the gateway first, stop-all takes it last.
StartOrder == <<Gateway>> \o Rest
StopOrder  == Rest \o <<Gateway>>

Tasks(o, order) == [i \in DOMAIN order |-> Task(o, order[i])]

Todo(o, s) ==
  CASE o \in {"start", "stop", "adopt"} -> <<Task(o, s)>>
    [] o = "restart"       -> <<Task("stop", s), Task("start", s)>>
    [] o = "start-all"     -> Tasks("start", StartOrder)
    [] o = "start-offline" -> Tasks("start-offline", StartOrder)
    [] o = "stop-all"      -> Tasks("stop", StopOrder)
    [] o = "restart-all"   -> Tasks("stop", StopOrder) \o Tasks("start", StartOrder)

Services(todo) == {todo[i].service : i \in DOMAIN todo}
\* Those whose handle the list may put into the map.
Inserts(todo) == {todo[i].service : i \in {j \in DOMAIN todo : todo[j].op # "stop"}}

Others(t, Of(_)) == UNION {Of(req[u].todo) : u \in Thread \ {t}}

\* The thread t turns to todo.  A service is raced when two threads may put its
\* handle into the map, or when a thread has it in hand while the window closes.
Begin(t, todo, strict) ==
  /\ req' = [req EXCEPT ![t] =
       IF todo = <<>> THEN NoRequest
       ELSE [NoRequest EXCEPT !.pc = "check", !.todo = todo, !.strict = strict]]
  /\ raced' = raced \cup
       CASE t = Closer         -> Others(t, Services)
         [] window = "closing" -> Services(todo)
         [] OTHER              -> Inserts(todo) \cap Others(t, Inserts)
  /\ UNCHANGED <<os, processes, refused, lost>>

Receive(t, o, s) ==
  /\ window # "closed"
  /\ req[t].pc = "idle"
  /\ Begin(t, Todo(o, s), o = "restart")
  /\ UNCHANGED window

BugDone(t, ok) == \* the end of the list is missed
  IF req[t].strict /\ ~ok THEN NoRequest
  ELSE [req[t] EXCEPT !.pc = "check", !.todo = Tail(@), !.handle = NoHandle]

\* What is left of the request after a step: the rest, or nothing when a
\* strict request failed.
Done(t, ok) ==
  LET r == req[t] IN
  IF Len(r.todo) = 1 \/ (r.strict /\ ~ok) THEN NoRequest
  ELSE [r EXCEPT !.pc = "check", !.todo = Tail(@), !.handle = NoHandle]

Goto(t, pc) == req' = [req EXCEPT ![t].pc = pc]
Finish(t, ok) == req' = [req EXCEPT ![t] = Done(t, ok)]

-----------------------------------------------------------------------------
(* start_service *)

\* The command or the directory of the service does not exist.
NotConfigured(t) ==
  /\ At(t, "start", "check") \/ At(t, "adopt", "check")
  /\ Finish(t, FALSE)
  /\ UNCHANGED <<os, processes, window, ghosts>>

\* A handle whose process has ended is dropped.
Reap(s) == processes' = [processes EXCEPT ![s] = NoHandle]
Managed(s) == processes[s].kind # "none"
Running(s) == Managed(s) /\ Alive(processes[s].pid)

\* A look at process p fails, and the program goes on without its handle.
Overlooked(p) ==
  /\ LookMayFail
  /\ lost' = IF Alive(p) THEN lost \cup {p} ELSE lost

\* process_running for the service s: an error, like a tasklist that cannot be
\* run, counts as the end of its process.
Look(s, running) ==
  \/ running = Running(s) /\ UNCHANGED lost
  \/ Running(s) /\ ~running /\ Overlooked(processes[s].pid)

BugCheckStart(t) == \* a process that runs is not noticed
  /\ At(t, "start", "check")
  /\ Goto(t, "online")
  /\ Reap(Name(t))
  /\ UNCHANGED <<os, window, ghosts>>

CheckStart(t) ==
  LET s == Name(t) IN
  /\ At(t, "start", "check")
  /\ \E running \in BOOLEAN :
       /\ Look(s, running)
       /\ IF running THEN Finish(t, FALSE) /\ UNCHANGED processes
          ELSE Goto(t, "online") /\ Reap(s)
  /\ UNCHANGED <<os, window, raced, refused>>

\* A service answers a ping if one of its processes does and, unless it is
\* asked directly, the gateway passes the ping on.
Ready(s) == \E p \in Pid : os[p].state = "ready" /\ os[p].service = s
Online(s) == Ready(s) /\ (s \in Direct \/ Ready(Gateway))

\* What a thread may hear when it asks.
Answer(s) == {Online(s)} \cup (IF PingMayFail THEN {FALSE} ELSE {})

AskOnline(t) ==
  /\ At(t, "start", "online")
  /\ \E online \in Answer(Name(t)) :
       IF online THEN Finish(t, FALSE) ELSE Goto(t, "spawn")
  /\ UNCHANGED <<os, processes, window, ghosts>>

NextPid == CHOOSE p \in 1..MaxPid + 1 : \A q \in Pid : (os[q].state # "none") <=> q < p

StartProcess(s, ui) ==
  /\ window # "closed"
  /\ NextPid \in Pid
  /\ os' = [os EXCEPT ![NextPid] = [state |-> "starting", service |-> s,
                                    ui |-> ui, owned |-> ui]]

Spawn(t) ==
  /\ At(t, "start", "spawn")
  /\ StartProcess(Name(t), TRUE)
  /\ req' = [req EXCEPT ![t].pc = "insert",
                        ![t].handle = [kind |-> "spawned", pid |-> NextPid]]
  /\ UNCHANGED <<processes, window, ghosts>>

\* The operating system does not start the process.
SpawnFails(t) ==
  /\ At(t, "start", "spawn")
  /\ Finish(t, FALSE)
  /\ UNCHANGED <<os, processes, window, ghosts>>

\* The handle goes into the map, and a handle that is there is dropped.
Insert(t) ==
  /\ req[t].pc = "insert"
  /\ processes' = [processes EXCEPT ![Name(t)] = req[t].handle]
  /\ Finish(t, TRUE)
  /\ UNCHANGED <<os, window, ghosts>>

\* start-offline first leaves out what is running or online.
CheckOffline(t) ==
  LET s == Name(t) IN
  /\ At(t, "start-offline", "check")
  /\ \E running \in BOOLEAN :
       /\ Look(s, running)
       /\ IF running THEN UNCHANGED processes ELSE Reap(s)
       /\ IF running /\ processes[s].kind = "spawned" THEN Finish(t, TRUE)
          ELSE Goto(t, "online")
  /\ UNCHANGED <<os, window, raced, refused>>

AskOffline(t) ==
  /\ At(t, "start-offline", "online")
  /\ \E online \in Answer(Name(t)) :
       IF online THEN Finish(t, TRUE)
       ELSE req' = [req EXCEPT ![t].pc = "check",
                               ![t].todo = <<Task("start", Name(t))>> \o Tail(@)]
  /\ UNCHANGED <<os, processes, window, ghosts>>

-----------------------------------------------------------------------------
(* stop_service and terminate_process *)

\* The handle leaves the map before its process is terminated.
TakeHandle(t) ==
  LET s == Name(t) IN
  /\ At(t, "stop", "check")
  /\ IF Managed(s)
     THEN req' = [req EXCEPT ![t].pc = "kill", ![t].handle = processes[s]]
     ELSE Finish(t, TRUE)
  /\ Reap(s)
  /\ UNCHANGED <<os, window, ghosts>>

\* taskkill: an ended process does not need it, and it may be refused.
Killed(p) ==
  /\ os' = [os EXCEPT ![p].state = IF Working(p) THEN "dying" ELSE @]
  /\ UNCHANGED refused

Refused(p) ==
  /\ KillMayFail
  /\ refused' = IF Alive(p) THEN refused \cup {os[p].service} ELSE refused
  /\ UNCHANGED os

BugKillChild(t) == \* the end is awaited of a child that nobody kills
  /\ At(t, "stop", "kill")
  /\ req[t].handle.kind = "spawned"
  /\ Goto(t, "wait")
  /\ UNCHANGED <<os, processes, window, ghosts>>

\* For a child the result of taskkill is ignored and its end is awaited; it is
\* left alone when try_wait cannot tell whether it has ended.
KillChild(t) ==
  LET p == req[t].handle.pid IN
  /\ At(t, "stop", "kill")
  /\ req[t].handle.kind = "spawned"
  /\ \/ (Killed(p) \/ Refused(p)) /\ Goto(t, "wait") /\ UNCHANGED lost
     \/ Overlooked(p) /\ Finish(t, FALSE) /\ UNCHANGED <<os, refused>>
  /\ UNCHANGED <<processes, window, raced>>

BugWaitChild(t) == \* the end is not awaited
  /\ At(t, "stop", "wait")
  /\ Finish(t, TRUE)
  /\ UNCHANGED <<os, processes, window, ghosts>>

WaitChild(t) ==
  /\ At(t, "stop", "wait")
  /\ ~Alive(req[t].handle.pid)
  /\ Finish(t, TRUE)
  /\ UNCHANGED <<os, processes, window, ghosts>>

\* An error of wait is ignored.
WaitFails(t) ==
  /\ At(t, "stop", "wait")
  /\ Overlooked(req[t].handle.pid)
  /\ Finish(t, TRUE)
  /\ UNCHANGED <<os, processes, window, raced, refused>>

\* For an adopted process a taskkill that fails is an error when the process
\* still exists and tasklist can say so; the handle is gone in any case.
KillAdopted(t) ==
  LET p == req[t].handle.pid IN
  /\ At(t, "stop", "kill")
  /\ req[t].handle.kind = "adopted"
  /\ \/ Killed(p) /\ Finish(t, TRUE)
     \/ Refused(p) /\ \E ok \in {FALSE, LookMayFail} : Finish(t, ok)
  /\ UNCHANGED <<processes, window, raced, lost>>

-----------------------------------------------------------------------------
(* adopt_service *)

\* Only a service without a handle is adopted; one that has ended is dropped
\* here too, but it is still refused.
CheckAdopt(t) ==
  LET s == Name(t) IN
  /\ At(t, "adopt", "check")
  /\ IF Managed(s) THEN Finish(t, FALSE) ELSE Goto(t, "online")
  /\ \E running \in BOOLEAN :
       Look(s, running) /\ IF running THEN UNCHANGED processes ELSE Reap(s)
  /\ UNCHANGED <<os, window, raced, refused>>

AskAdopt(t) ==
  /\ At(t, "adopt", "online")
  /\ \E online \in Answer(Name(t)) :
       IF online THEN Goto(t, "find") ELSE Finish(t, FALSE)
  /\ UNCHANGED <<os, processes, window, ghosts>>

Images(s) == {p \in Pid : Alive(p) /\ os[p].service = s}

Find(t) ==
  /\ At(t, "adopt", "find")
  /\ IF Cardinality(Images(Name(t))) = 1
     THEN \E p \in Images(Name(t)) :
            req' = [req EXCEPT ![t].pc = "take",
                               ![t].handle = [kind |-> "adopted", pid |-> p]]
     ELSE Finish(t, FALSE)
  /\ UNCHANGED <<os, processes, window, ghosts>>

\* The pid goes into the map unchecked.
Take(t) ==
  LET p == req[t].handle.pid IN
  /\ req[t].pc = "take"
  /\ processes' = [processes EXCEPT ![Name(t)] = req[t].handle]
  /\ os' = [os EXCEPT ![p].owned = TRUE]
  /\ Finish(t, TRUE)
  /\ UNCHANGED <<window, ghosts>>

-----------------------------------------------------------------------------
(* managed_state for the page, and shutdown_services when the window closes *)

\* The handle of a process that has ended, or seems to, is dropped.
Poll(s) ==
  /\ window # "closed"
  /\ Managed(s)
  /\ Look(s, FALSE)
  /\ Reap(s)
  /\ UNCHANGED <<os, req, window, raced, refused>>

Steps(t) ==
  \/ NotConfigured(t) \/ CheckStart(t) \/ AskOnline(t) \/ Spawn(t) \/ SpawnFails(t)
  \/ Insert(t) \/ CheckOffline(t) \/ AskOffline(t)
  \/ TakeHandle(t) \/ KillChild(t) \/ WaitChild(t) \/ KillAdopted(t)
  \/ CheckAdopt(t) \/ AskAdopt(t) \/ Find(t) \/ Take(t)

Step(t) == window # "closed" /\ req[t].pc # "idle" /\ Steps(t)

\* The closer stops, in any order, the services that have a handle now.
CloseRequested ==
  /\ window = "open"
  /\ \E order \in SetToSeqs({s \in Service : Managed(s)}) :
       Begin(Closer, Tasks("stop", order), FALSE)
  /\ window' = "closing"

BugExit == \* the event loop ends while the services are being stopped
  /\ window = "closing"
  /\ window' = "closed"
  /\ req' = [t \in Thread |-> NoRequest]
  /\ UNCHANGED <<os, processes, ghosts>>

\* The event loop ends, and every thread of the program with it.
Exit ==
  /\ window = "closing"
  /\ req[Closer].todo = <<>>
  /\ window' = "closed"
  /\ req' = [t \in Thread |-> NoRequest]
  /\ UNCHANGED <<os, processes, ghosts>>

-----------------------------------------------------------------------------
(* The operating system and other users of it, as long as the program runs *)

StartExternal(s) == StartProcess(s, FALSE) /\ UNCHANGED <<processes, req, window, ghosts>>

BecomesReady(p) ==
  /\ window # "closed"
  /\ os[p].state = "starting"
  /\ os' = [os EXCEPT ![p].state = "ready"]
  /\ UNCHANGED <<processes, req, window, ghosts>>

ProcessEnds(p) ==
  /\ window # "closed"
  /\ Alive(p)
  /\ os' = [os EXCEPT ![p].state = "dead"]
  /\ lost' = lost \ {p}
  /\ UNCHANGED <<processes, req, window, raced, refused>>

Next ==
  \/ \E t \in Request, o \in Op, s \in Service : Receive(t, o, s)
  \/ \E t \in Thread : Step(t) \/ WaitFails(t)
  \/ \E s \in Service : Poll(s) \/ StartExternal(s)
  \/ CloseRequested \/ Exit
  \/ \E p \in Pid : BecomesReady(p) \/ ProcessEnds(p)

\* The threads run, and a process that was terminated goes; nothing makes a
\* wait fail.
Fairness ==
  /\ \A t \in Thread : WF_vars(Step(t))
  /\ \A p \in Pid : WF_vars(os[p].state = "dying" /\ ProcessEnds(p))

Spec == Init /\ [][Next]_vars /\ Fairness

-----------------------------------------------------------------------------
(* Properties *)

TypeOK ==
  /\ os \in [Pid -> Process]
  /\ processes \in [Service -> Handle]
  /\ req \in [Thread -> RequestType]
  /\ \A t \in Thread : req[t].pc = "idle" <=> req[t].todo = <<>>
  /\ window \in {"open", "closing", "closed"}
  /\ raced \subseteq Service
  /\ refused \subseteq Service
  /\ lost \subseteq Pid

\* Services whose starts and adoptions did not overlap with each other, nor any
\* request with the closing, and whose processes taskkill could end.
Calm == Service \ (raced \cup refused)

\* The processes of s that the program started or adopted.  Those are left out
\* at which a look failed: process_running, process_exists and terminate_process
\* then drop the handle of a process that may still run (main.rs 693, 836, 896
\* and 915), and only a request to adopt may find it again.
Owned(s) == {p \in Pid \ lost : os[p].owned /\ os[p].service = s}

\* The program never loses a process that it started or adopted, other than by a
\* look that failed: while it runs, its handle is in the map or in the hands of a
\* thread that will put it there or terminate it.
Tracked ==
  window # "closed" =>
    \A s \in Calm : \A p \in Owned(s) :
      Working(p) => \/ processes[s].pid = p
                    \/ \E t \in Thread : req[t].pc # "idle" /\ req[t].handle.pid = p

\* It never has two processes of one service that it started, unless a thread
\* is still stopping one of them: a restart waits for the end of the old one,
\* even when taskkill is refused (but not when a look at the old one fails, see
\* Owned: then the new one is started beside it).
Stopping(p) == \E t \in Thread : req[t].pc \in {"kill", "wait"} /\ req[t].handle.pid = p

OneChild ==
  \A s \in Service \ raced : \A p, q \in Owned(s) :
    os[p].ui /\ os[q].ui /\ Alive(p) /\ Alive(q) /\ p # q => Stopping(p) \/ Stopping(q)

\* Closing the window stops every process that the program started or adopted
\* (README.md of web-ui-service, line 113) and at which no look has failed.
ExitStopsAll ==
  window = "closed" => \A s \in Calm : \A p \in Owned(s) : ~Working(p)

\* Every request is answered: a thread is free again and again, unless it waits
\* for a child that taskkill has been refused.
RequestsFinish ==
  \A t \in Thread :
    []<>(req[t].pc = "idle" \/ (req[t].pc = "wait" /\ Name(t) \in refused))
=============================================================================
