------------------------------ MODULE StreamRPC ------------------------------
(***************************************************************************)
(* The Redis Streams RPC library of MyTool/stream: Send on the caller's    *)
(* side, one consume loop per process, the handler goroutines it starts    *)
(* under the business semaphore, the shard assemblers, and Response on the *)
(* way back.  Every process reads its own stream through a consumer group; *)
(* several instances may share one stream.                                 *)
(*                                                                         *)
(* Data is abstracted to identities: a message is the request of a call or *)
(* its n-th reply, a stream entry is a message or one shard of it.  Time   *)
(* is one monotone set: the calls whose deadline has passed.               *)
(***************************************************************************)
EXTENDS Integers, Sequences, FiniteSets

CONSTANTS
  Inst,         \* running programs, each with one consume loop
  Stream,       \* Redis streams
  Home,         \* Home[i]: the stream instance i consumes (cfg.Stream.ConsumerStream)
  Req,          \* the calls of Send; a call stands for its MessageID
  Caller,       \* Caller[r]: the instance that calls Send
  Target,       \* Target[r]: targetStream
  Pings,        \* the calls made by SendPing
  Unlimited,    \* the calls with timeout -1 (Deadline = 0)
  ReqParts,     \* ReqParts[r]: 0 = one entry, otherwise the number of shards
  RepParts,     \* RepParts[r]: the same for the replies to r
  Replies,      \* Replies[r]: how many times the handler of r may reply
  MaxReplies,   \* bound of the above
  Slots,        \* Slots[i]: cap(semaphore), cfg.Stream.GoroutineNum
  OutCap,       \* cap(reassembledChan)
  MaxCrash,     \* bound on the number of crashes
  RedisMayFail  \* TRUE: a Redis command may return an error

ASSUME ConstantsAssumption ==
  /\ Inst # {}
  /\ IsFiniteSet(Req)
  /\ Home \in [Inst -> Stream]
  /\ Caller \in [Req -> Inst]
  /\ Target \in [Req -> Stream]
  /\ Pings \subseteq Req
  /\ Unlimited \subseteq Req
  /\ ReqParts \in [Req -> Nat]
  /\ RepParts \in [Req -> Nat]
  /\ MaxReplies \in Nat
  /\ Replies \in [Req -> SUBSET (0 .. MaxReplies)]
  /\ \A r \in Pings : ReqParts[r] = 0 /\ RepParts[r] = 0 /\ Replies[r] = {1}
  /\ Slots \in [Inst -> Nat \ {0}]
  /\ OutCap \in Nat \ {0}
  /\ MaxCrash \in Nat
  /\ RedisMayFail \in BOOLEAN

Msg == [kind : {"request"}, req : Req, n : {0}]
         \cup [kind : {"response"}, req : Req, n : 1 .. MaxReplies]

Request(r)  == [kind |-> "request", req |-> r, n |-> 0]
Reply(r, n) == [kind |-> "response", req |-> r, n |-> n]

\* An entry says what its message says: ToMap and FromMap are not modelled.
Entry == [msg : Msg, part : Nat]
Piece(m, k) == [msg |-> m, part |-> k]

\* Sharding.Total of the entries that carry m; 0 when m travels whole.
Parts(m) == IF m.kind = "request" THEN ReqParts[m.req] ELSE RepParts[m.req]

\* The next part index after k, and whether part k is the last one to write.
LastPart(m, k) == k + 1 >= Parts(m)

Dest(m) == IF m.kind = "request" THEN Target[m.req] ELSE Home[Caller[m.req]]

IsPing(m) == m.kind = "request" /\ m.req \in Pings

-----------------------------------------------------------------------------
VARIABLES
  \* Redis
  stream,    \* stream[s]: the entries not yet delivered to the group of s
  group,     \* the streams whose consumer group exists
  pel,       \* entries delivered to a consumer and not acknowledged
  \* time
  expired,   \* calls whose deadline has passed
  \* Send, per call
  call,      \* "idle" "sending" "waiting" "leaving" "returned"
  part,      \* the next shard sendSharded writes
  result,    \* "none" "reply" "timeout" "error" "crashed"
  chan,      \* respChan (capacity 1): the replies in it
  \* the process of an instance
  up,        \* the instances that run
  crashes,   \* crashes so far (history, bounded by MaxCrash)
  loop,      \* consumeLoop: "off" "poll" "read" "ack" "acquire"
  hand,      \* the entry the loop is dealing with
  sem,       \* len(semaphore)
  out,       \* reassembledChan
  asm,       \* ShardManager.assemblers and their cleanup goroutines
  task       \* the goroutine that handles a message; runs: how many were started

redis   == <<stream, group, pel>>
callers == <<call, part, result, chan>>
proc    == <<up, crashes, loop, hand, sem, out, asm>>
vars    == <<redis, expired, callers, proc, task>>

NoAssembler == [pc |-> "none", got |-> {}]
NoTask      == [pc |-> "none", at |-> CHOOSE i \in Inst : TRUE,
                plan |-> 0, sent |-> 0, part |-> 0, runs |-> 0]

Init ==
  /\ stream = [s \in Stream |-> <<>>]
  /\ group = {}
  /\ pel = {}
  /\ expired = {}
  /\ call = [r \in Req |-> "idle"]
  /\ part = [r \in Req |-> 0]
  /\ result = [r \in Req |-> "none"]
  /\ chan = [r \in Req |-> <<>>]
  /\ up = {}
  /\ crashes = 0
  /\ loop = [i \in Inst |-> "off"]
  /\ hand = [i \in Inst |-> {}]
  /\ sem = [i \in Inst |-> 0]
  /\ out = [i \in Inst |-> <<>>]
  /\ asm = [i \in Inst |-> [m \in Msg |-> NoAssembler]]
  /\ task = [m \in Msg |-> NoTask]

(* Definitions named Bug... are slips a change could make; each stands next  *)
(* to the definition it would replace and no behaviour of Spec uses it.      *)

\* XADD of one entry.
Add(e) == stream' = [stream EXCEPT ![Dest(e.msg)] = Append(@, e)]

\* XACK and XDEL; both errors are ignored by every caller of AckAndDelete.
AckAndDelete(e) ==
  \/ pel' = pel \ {e}
  \/ RedisMayFail /\ UNCHANGED pel

\* A deadline of 0 means "none" to the consumer; a reply never carries one.
HasDeadline(m) == m.kind = "request" /\ m.req \notin Unlimited

IsExpired(m) == HasDeadline(m) /\ m.req \in expired

-----------------------------------------------------------------------------
(* Time *)

\* The deadline of a call in progress passes.
DeadlinePasses(r) ==
  /\ call[r] # "idle"
  /\ r \notin Unlimited
  /\ r \notin expired
  /\ expired' = expired \cup {r}
  /\ UNCHANGED <<redis, callers, proc, task>>

\* Bug: no timer at all for a call without a deadline.
BugTimerFired(r) == r \in expired

\* time.After(Deadline - now): with Deadline = 0 the duration is negative.
TimerFired(r) == r \in expired \/ r \in Unlimited

-----------------------------------------------------------------------------
(* Send *)

\* RESPONSES holds the channel of r from here until Unregister.
Registered(r) == call[r] \in {"sending", "waiting", "leaving"}

Send(r) ==
  /\ call[r] = "idle"
  /\ Caller[r] \in up
  /\ call' = [call EXCEPT ![r] = "sending"]
  /\ UNCHANGED <<redis, expired, part, result, chan, proc, task>>

\* One XADD of Send or of sendSharded.
WritePart(r) ==
  /\ call[r] = "sending"
  /\ Add(Piece(Request(r), part[r]))
  /\ part' = [part EXCEPT ![r] = @ + 1]
  /\ call' = [call EXCEPT ![r] = IF LastPart(Request(r), part[r]) THEN "waiting" ELSE @]
  /\ UNCHANGED <<group, pel, expired, result, chan, proc, task>>

\* XADD returns an error; the entry may have reached Redis all the same.
WriteFails(r) ==
  /\ RedisMayFail
  /\ call[r] = "sending"
  /\ \/ Add(Piece(Request(r), part[r])) /\ part' = [part EXCEPT ![r] = @ + 1]
     \/ UNCHANGED <<stream, part>>
  /\ call' = [call EXCEPT ![r] = "leaving"]
  /\ result' = [result EXCEPT ![r] = "error"]
  /\ UNCHANGED <<group, pel, expired, chan, proc, task>>

\* Bug: the channel is closed by someone, so that receiving does not wait.
BugTakeReply(r) ==
  /\ call[r] = "waiting"
  /\ chan' = [chan EXCEPT ![r] = <<>>]
  /\ call' = [call EXCEPT ![r] = "leaving"]
  /\ result' = [result EXCEPT ![r] = "reply"]
  /\ UNCHANGED <<redis, expired, part, proc, task>>

TakeReply(r) ==
  /\ call[r] = "waiting"
  /\ chan[r] # <<>>
  /\ chan' = [chan EXCEPT ![r] = Tail(@)]
  /\ call' = [call EXCEPT ![r] = "leaving"]
  /\ result' = [result EXCEPT ![r] = "reply"]
  /\ UNCHANGED <<redis, expired, part, proc, task>>

TimeOut(r) ==
  /\ call[r] = "waiting"
  /\ TimerFired(r)
  /\ call' = [call EXCEPT ![r] = "leaving"]
  /\ result' = [result EXCEPT ![r] = "timeout"]
  /\ UNCHANGED <<redis, expired, part, chan, proc, task>>

\* The deferred delete(RESPONSES, msgID).
Unregister(r) ==
  /\ call[r] = "leaving"
  /\ call' = [call EXCEPT ![r] = "returned"]
  /\ UNCHANGED <<redis, expired, part, result, chan, proc, task>>

-----------------------------------------------------------------------------
(* Starting and crashing *)

\* Init of the library: the group is created at "$", so entries written
\* before it existed are skipped; then the consume loop starts.
Start(i) ==
  /\ i \notin up
  /\ up' = up \cup {i}
  /\ group' = group \cup {Home[i]}
  /\ stream' = IF Home[i] \in group THEN stream ELSE [stream EXCEPT ![Home[i]] = <<>>]
  /\ loop' = [loop EXCEPT ![i] = "poll"]
  /\ UNCHANGED <<pel, expired, callers, crashes, hand, sem, out, asm, task>>

\* Everything in memory is lost; the streams and the PEL stay in Redis.
Crash(i) ==
  /\ i \in up
  /\ crashes < MaxCrash
  /\ crashes' = crashes + 1
  /\ up' = up \ {i}
  /\ loop' = [loop EXCEPT ![i] = "off"]
  /\ hand' = [hand EXCEPT ![i] = {}]
  /\ sem' = [sem EXCEPT ![i] = 0]
  /\ out' = [out EXCEPT ![i] = <<>>]
  /\ asm' = [asm EXCEPT ![i] = [m \in Msg |-> NoAssembler]]
  /\ task' = [m \in Msg |-> IF task[m].at = i /\ task[m].pc \notin {"none", "done"}
                            THEN [task[m] EXCEPT !.pc = "dead"] ELSE task[m]]
  /\ LET lost(r) == Caller[r] = i /\ Registered(r)
     IN  /\ call' = [r \in Req |-> IF lost(r) THEN "returned" ELSE call[r]]
         /\ result' = [r \in Req |-> IF lost(r) THEN "crashed" ELSE result[r]]
         /\ chan' = [r \in Req |-> IF Caller[r] = i THEN <<>> ELSE chan[r]]
  /\ UNCHANGED <<redis, expired, part>>

-----------------------------------------------------------------------------
(* Starting the goroutine of a message *)

\* The goroutine of m begins: a response is looked up, a request is handled
\* by a handler that will reply `plan' times (0: it returns or panics first).
\* runs is history: it counts the starts, whatever the goroutine did before.
Spawn(i, m) ==
  \E plan \in IF m.kind = "request" THEN Replies[m.req] ELSE {0} :
    task' = [task EXCEPT ![m] =
              [pc |-> IF m.kind = "request" THEN "run" ELSE "lookup",
               at |-> i, plan |-> plan, sent |-> 0, part |-> 0,
               runs |-> task[m].runs + 1]]

(* consumeLoop *)

\* The non-blocking select over reassembledChan.
PollReassembled(i) ==
  /\ loop[i] = "poll"
  /\ out[i] # <<>>
  /\ out' = [out EXCEPT ![i] = Tail(@)]
  /\ hand' = [hand EXCEPT ![i] = {Piece(Head(out[i]), 0)}]
  /\ loop' = [loop EXCEPT ![i] = "acquire"]
  /\ UNCHANGED <<redis, expired, callers, up, crashes, sem, asm, task>>

PollNothing(i) ==
  /\ loop[i] = "poll"
  /\ out[i] = <<>>
  /\ loop' = [loop EXCEPT ![i] = "read"]
  /\ UNCHANGED <<redis, expired, callers, up, crashes, hand, sem, out, asm, task>>

\* ShardManager.Add followed by ShardingAssembler.Add.
AddShard(i, e) ==
  LET got == asm[i][e.msg].got \cup {e.part}
  IN  asm' = [asm EXCEPT ![i][e.msg] =
               [pc  |-> IF Cardinality(got) = Parts(e.msg) THEN "full" ELSE "wait",
                got |-> got]]

\* ReadOne (XREADGROUP ">" with Block 0 waits for an entry) up to the next
\* blocking call: drop an expired entry, start a ping, store a shard, or go
\* and wait for the semaphore.
Read(i) ==
  /\ loop[i] = "read"
  /\ stream[Home[i]] # <<>>
  /\ LET e == Head(stream[Home[i]])
         m == e.msg
     IN  /\ stream' = [stream EXCEPT ![Home[i]] = Tail(@)]
         /\ pel' = pel \cup {e}
         /\ \/ /\ IsExpired(m)
               /\ loop' = [loop EXCEPT ![i] = "ack"]
               /\ hand' = [hand EXCEPT ![i] = {e}]
               /\ UNCHANGED <<asm, task>>
            \/ /\ ~IsExpired(m) /\ IsPing(m)
               /\ Spawn(i, m)
               /\ loop' = [loop EXCEPT ![i] = "poll"]
               /\ UNCHANGED <<hand, asm>>
            \/ /\ ~IsExpired(m) /\ ~IsPing(m) /\ Parts(m) > 0
               /\ AddShard(i, e)
               /\ loop' = [loop EXCEPT ![i] = "ack"]
               /\ hand' = [hand EXCEPT ![i] = {e}]
               /\ UNCHANGED task
            \/ /\ ~IsExpired(m) /\ ~IsPing(m) /\ Parts(m) = 0
               /\ loop' = [loop EXCEPT ![i] = "acquire"]
               /\ hand' = [hand EXCEPT ![i] = {e}]
               /\ UNCHANGED <<asm, task>>
  /\ UNCHANGED <<group, expired, callers, up, crashes, sem, out>>

\* XREADGROUP returns an error: the loop goes round again.
ReadFails(i) ==
  /\ RedisMayFail
  /\ loop[i] = "read"
  /\ loop' = [loop EXCEPT ![i] = "poll"]
  /\ UNCHANGED <<redis, expired, callers, up, crashes, hand, sem, out, asm, task>>

LoopAck(i) ==
  /\ loop[i] = "ack"
  /\ \E e \in hand[i] : AckAndDelete(e)
  /\ hand' = [hand EXCEPT ![i] = {}]
  /\ loop' = [loop EXCEPT ![i] = "poll"]
  /\ UNCHANGED <<stream, group, expired, callers, up, crashes, sem, out, asm, task>>

\* Bug: the entry is acknowledged when it is handed over, not when handled.
BugAcquire(i) ==
  /\ loop[i] = "acquire"
  /\ sem[i] < Slots[i]
  /\ sem' = [sem EXCEPT ![i] = @ + 1]
  /\ \E e \in hand[i] : Spawn(i, e.msg)
  /\ pel' = pel \ hand[i]
  /\ hand' = [hand EXCEPT ![i] = {}]
  /\ loop' = [loop EXCEPT ![i] = "poll"]
  /\ UNCHANGED <<stream, group, expired, callers, up, crashes, out, asm>>

\* semaphore <- struct{}{} blocks the loop itself until a slot is free.
Acquire(i) ==
  /\ loop[i] = "acquire"
  /\ sem[i] < Slots[i]
  /\ sem' = [sem EXCEPT ![i] = @ + 1]
  /\ \E e \in hand[i] : Spawn(i, e.msg)
  /\ hand' = [hand EXCEPT ![i] = {}]
  /\ loop' = [loop EXCEPT ![i] = "poll"]
  /\ UNCHANGED <<redis, expired, callers, up, crashes, out, asm>>

-----------------------------------------------------------------------------
(* Handler goroutines *)

\* Bug: the goroutine of a reassembled message does not release its slot.
BugHandled(m) == IF Parts(m) = 0 THEN "ack" ELSE "done"

\* Where a goroutine goes when its handler has returned: a message that came
\* whole has an entry to acknowledge, a reassembled one has not.
Handled(m) == IF Parts(m) = 0 THEN "ack" ELSE "free"

\* Bug: a handler that loops over its reply without looking at the count.
BugRunReply(m) ==
  LET t == task[m]
  IN  /\ t.pc = "run"
      /\ Add(Piece(Reply(m.req, t.sent + 1), t.part))
      /\ task' = [task EXCEPT ![m] = [t EXCEPT !.sent = @ + 1]]
      /\ UNCHANGED <<group, pel, expired, callers, proc>>

\* One XADD of Response or of the sendSharded it calls.
RunReply(m) ==
  LET t == task[m]
      reply == Reply(m.req, t.sent + 1)
  IN  /\ t.pc = "run"
      /\ t.sent < t.plan
      /\ Add(Piece(reply, t.part))
      /\ task' = [task EXCEPT ![m] =
                   IF LastPart(reply, t.part)
                   THEN [t EXCEPT !.sent = @ + 1, !.part = 0]
                   ELSE [t EXCEPT !.part = @ + 1]]
      /\ UNCHANGED <<group, pel, expired, callers, proc>>

\* Response returns an error, which handlers only log.
RunReplyFails(m) ==
  LET t == task[m]
      reply == Reply(m.req, t.sent + 1)
  IN  /\ RedisMayFail
      /\ t.pc = "run"
      /\ t.sent < t.plan
      /\ Add(Piece(reply, t.part)) \/ UNCHANGED stream
      /\ task' = [task EXCEPT ![m] = [t EXCEPT !.sent = @ + 1, !.part = 0]]
      /\ UNCHANGED <<group, pel, expired, callers, proc>>

\* Bug: the early return of a handler that replies to nobody skips the ack.
BugRunEnd(m) ==
  /\ task[m].pc = "run"
  /\ task[m].sent = task[m].plan
  /\ task' = [task EXCEPT ![m].pc = IF task[m].plan = 0 THEN "free" ELSE Handled(m)]
  /\ UNCHANGED <<redis, expired, callers, proc>>

RunEnd(m) ==
  /\ task[m].pc = "run"
  /\ task[m].sent = task[m].plan
  /\ task' = [task EXCEPT ![m].pc = Handled(m)]
  /\ UNCHANGED <<redis, expired, callers, proc>>

\* Bug: a reply that arrives after the deadline is not looked up at all.
BugLookup(m) ==
  /\ task[m].pc = "lookup"
  /\ task' = [task EXCEPT ![m].pc =
                IF Registered(m.req) /\ m.req \notin expired THEN "deliver" ELSE Handled(m)]
  /\ UNCHANGED <<redis, expired, callers, proc>>

\* handleResponse: read RESPONSES under the lock ...
Lookup(m) ==
  /\ task[m].pc = "lookup"
  /\ task' = [task EXCEPT ![m].pc =
                IF task[m].at = Caller[m.req] /\ Registered(m.req)
                THEN "deliver" ELSE Handled(m)]
  /\ UNCHANGED <<redis, expired, callers, proc>>

\* Bug: respChan without its capacity of 1 needs a receiver that still waits.
BugDeliver(m) ==
  /\ task[m].pc = "deliver"
  /\ call[m.req] = "waiting"
  /\ chan[m.req] = <<>>
  /\ chan' = [chan EXCEPT ![m.req] = <<m.n>>]
  /\ task' = [task EXCEPT ![m].pc = Handled(m)]
  /\ UNCHANGED <<redis, expired, call, part, result, proc>>

\* ... then send to the channel, which blocks when its one place is taken.
Deliver(m) ==
  /\ task[m].pc = "deliver"
  /\ chan[m.req] = <<>>
  /\ chan' = [chan EXCEPT ![m.req] = <<m.n>>]
  /\ task' = [task EXCEPT ![m].pc = Handled(m)]
  /\ UNCHANGED <<redis, expired, call, part, result, proc>>

TaskAck(m) ==
  /\ task[m].pc = "ack"
  /\ AckAndDelete(Piece(m, 0))
  /\ task' = [task EXCEPT ![m].pc = IF IsPing(m) THEN "done" ELSE "free"]
  /\ UNCHANGED <<stream, group, expired, callers, proc>>

\* The deferred <-semaphore.
Release(m) ==
  /\ task[m].pc = "free"
  /\ sem' = [sem EXCEPT ![task[m].at] = @ - 1]
  /\ task' = [task EXCEPT ![m].pc = "done"]
  /\ UNCHANGED <<redis, expired, callers, up, crashes, loop, hand, out, asm>>

-----------------------------------------------------------------------------
(* Assembler goroutines *)

\* The cleanup goroutine receives the whole message from Done().
AsmTake(i, m) ==
  /\ asm[i][m].pc = "full"
  /\ asm' = [asm EXCEPT ![i][m].pc = "put"]
  /\ UNCHANGED <<redis, expired, callers, up, crashes, loop, hand, sem, out, task>>

\* Bug: the assembler is not deleted once its message was sent on.
BugAsmPut(i, m) ==
  /\ asm[i][m].pc = "put"
  /\ Len(out[i]) < OutCap
  /\ out' = [out EXCEPT ![i] = Append(@, m)]
  /\ UNCHANGED <<redis, expired, callers, up, crashes, loop, hand, sem, asm, task>>

\* It sends the message to reassembledChan and deletes the assembler.
AsmPut(i, m) ==
  /\ asm[i][m].pc = "put"
  /\ Len(out[i]) < OutCap
  /\ out' = [out EXCEPT ![i] = Append(@, m)]
  /\ asm' = [asm EXCEPT ![i][m] = NoAssembler]
  /\ UNCHANGED <<redis, expired, callers, up, crashes, loop, hand, sem, task>>

\* Bug: a timer that finds the message complete sends it on, and so does the
\* cleanup goroutine that was woken by Done().
BugAsmTimeout(i, m) ==
  /\ asm[i][m].pc = "full"
  /\ HasDeadline(m) => m.req \in expired
  /\ Len(out[i]) < OutCap
  /\ out' = [out EXCEPT ![i] = Append(@, m)]
  /\ asm' = [asm EXCEPT ![i][m].pc = "put"]
  /\ UNCHANGED <<redis, expired, callers, up, crashes, loop, hand, sem, task>>

\* Its timer fires first: the deadline of the message, or 30 seconds (which
\* may pass at any moment) when it has none.
AsmTimeout(i, m) ==
  /\ asm[i][m].pc \in {"wait", "full"}
  /\ HasDeadline(m) => m.req \in expired
  /\ asm' = [asm EXCEPT ![i][m] = NoAssembler]
  /\ UNCHANGED <<redis, expired, callers, up, crashes, loop, hand, sem, out, task>>

-----------------------------------------------------------------------------
CallStep(r) == WritePart(r) \/ WriteFails(r) \/ TakeReply(r) \/ TimeOut(r) \/ Unregister(r)

LoopStep(i) == \/ PollReassembled(i) \/ PollNothing(i) \/ Read(i) \/ ReadFails(i)
               \/ LoopAck(i) \/ Acquire(i)

TaskStep(m) == \/ RunReply(m) \/ RunReplyFails(m) \/ RunEnd(m)
               \/ Lookup(m) \/ Deliver(m) \/ TaskAck(m) \/ Release(m)

AsmStep(i, m) == AsmTake(i, m) \/ AsmPut(i, m) \/ AsmTimeout(i, m)

Next ==
  \/ \E r \in Req : DeadlinePasses(r) \/ Send(r) \/ CallStep(r)
  \/ \E i \in Inst : Start(i) \/ Crash(i) \/ LoopStep(i)
  \/ \E m \in Msg : TaskStep(m)
  \/ \E i \in Inst, m \in Msg : AsmStep(i, m)

\* Goroutines are scheduled fairly, Redis answers, time passes, handlers
\* return and a stopped service is started again.
Fairness ==
  /\ \A r \in Req : WF_vars(DeadlinePasses(r)) /\ WF_vars(CallStep(r))
  /\ \A i \in Inst : WF_vars(Start(i)) /\ WF_vars(LoopStep(i))
  /\ \A m \in Msg : WF_vars(TaskStep(m))
  /\ \A i \in Inst, m \in Msg : WF_vars(AsmStep(i, m))

Spec     == Init /\ [][Next]_vars
FairSpec == Spec /\ Fairness
-----------------------------------------------------------------------------
(* Properties *)

TypeOK ==
  /\ stream \in [Stream -> Seq(Entry)]
  /\ group \subseteq Stream
  /\ pel \subseteq Entry
  /\ expired \subseteq Req
  /\ call \in [Req -> {"idle", "sending", "waiting", "leaving", "returned"}]
  /\ part \in [Req -> Nat]
  /\ result \in [Req -> {"none", "reply", "timeout", "error", "crashed"}]
  /\ chan \in [Req -> Seq(0 .. MaxReplies)]
  /\ up \subseteq Inst
  /\ crashes \in 0 .. MaxCrash
  /\ loop \in [Inst -> {"off", "poll", "read", "ack", "acquire"}]
  /\ hand \in [Inst -> SUBSET Entry]
  /\ sem \in [Inst -> Int]
  /\ out \in [Inst -> Seq(Msg)]
  /\ asm \in [Inst -> [Msg -> [pc : {"none", "wait", "full", "put"}, got : SUBSET Nat]]]
  /\ task \in [Msg -> [pc : {"none", "run", "lookup", "deliver", "ack", "free", "done", "dead"},
                        at : Inst, plan : 0 .. MaxReplies, sent : 0 .. MaxReplies, part : Nat,
                        runs : Nat]]

Active(m) == task[m].pc \in {"run", "lookup", "deliver", "ack", "free"}

\* The goroutines that hold a place of instance i's semaphore.
Holders(i) == {m \in Msg : Active(m) /\ task[m].at = i /\ ~IsPing(m)}

\* No place of the semaphore leaks and none is given back twice: its length
\* is the number of business goroutines at every moment, through every exit
\* of a handler (consumer.go:27-32, 74-79), and pings never take one.
SemaphoreAccounting == \A i \in Inst : sem[i] = Cardinality(Holders(i))

\* Where message m can still be picked up by a consume loop.
Pending(m) ==
  {<<"stream", s, k>> : s \in {Dest(m)}, k \in {k \in DOMAIN stream[Dest(m)] :
                            Parts(m) = 0 /\ stream[Dest(m)][k].msg = m}}
  \cup {<<"hand", i, 0>> : i \in {i \in Inst : loop[i] = "acquire" /\ Piece(m, 0) \in hand[i]}}
  \cup (UNION {{<<"out", i, k>> : k \in {k \in DOMAIN out[i] : out[i][k] = m}} : i \in Inst})
  \cup {<<"asm", i, 0>> : i \in {i \in Inst : asm[i][m].pc \in {"full", "put"}}}

\* A message is handled at most once: across instances of a group, shards,
\* crashes and restarts, a message that can still be picked up is in one
\* place only and has never had a goroutine.
AtMostOnce ==
  \A m \in Msg : Cardinality(Pending(m)) + (IF task[m].pc = "none" THEN 0 ELSE 1) <= 1

\* A reply is acknowledged while its caller still waits only if the caller
\* has been handed it: the library loses no reply between the stream and
\* Send, as long as one instance reads the caller's stream.
NoReplyDropped ==
  [][\A e \in pel \ pel' :
       e.msg.kind = "response" /\ Parts(e.msg) = 0 /\ call[e.msg.req] = "waiting"
         => chan[e.msg.req] # <<>>]_vars

\* What the library promises of a call, see RPCCall.
Outcome(r) == IF call[r] = "idle" THEN "uncalled"
              ELSE IF result[r] = "none" THEN "open" ELSE result[r]

RPC == INSTANCE RPCCall WITH
         outcome  <- [r \in Req |-> Outcome(r)],
         returned <- {r \in Req : call[r] = "returned"},
         executed <- [r \in Req |-> task[Request(r)].runs]

\* The library implements RPCCall: one outcome per call that never changes
\* once Send has returned, no second start of its handler (every `go' of the
\* loop counts, consumer.go:21-32, 50, 74-79), no start without a call and no
\* answer without a start.
ImplementsRPC == RPC!Spec

\* "XAck + XDel once the message has been handled" (README.md:83): an entry
\* leaves the PEL only when its handler has returned, or because the message
\* had expired.
AckAfterHandling ==
  [][\A e \in pel \ pel' :
       IsExpired(e.msg) \/ task[e.msg].pc \in {"ack", "free", "done"}]_vars

\* Every call of Send returns, whatever happens to its target.
CallReturns == \A r \in Req : call[r] = "sending" ~> call[r] = "returned"

\* Every goroutine ends: no reply, no lock and no slot holds it for ever.
HandlersFinish == \A m \in Msg : Active(m) ~> ~Active(m)

\* What was delivered is acknowledged in the end, unless a process crashed.
PelDrains == \A m \in Msg : Piece(m, 0) \in pel ~> Piece(m, 0) \notin pel

\* "Unacknowledged messages stay in the PEL: at least once" (README.md:90): a
\* request that was written and delivered is handled or expires.
AtLeastOnce ==
  \A r \in Req : Piece(Request(r), 0) \in pel
                   ~> task[Request(r)].pc \in {"ack", "free", "done"} \/ r \in expired
=============================================================================
