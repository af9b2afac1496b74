--------------------------- MODULE StreamRPC_proofs ---------------------------
(* Theorems about StreamRPC, for every set of instances, streams and calls. *)
EXTENDS StreamRPC, FiniteSetTheorems, TLAPS

(***************************************************************************)
(* Type correctness                                                        *)
(***************************************************************************)

AsmType  == [pc : {"none", "wait", "full", "put"}, got : SUBSET Nat]
TaskType == [pc : {"none", "run", "lookup", "deliver", "ack", "free", "done", "dead"},
             at : Inst, plan : 0 .. MaxReplies, sent : 0 .. MaxReplies, part : Nat,
             runs : Nat]

\* Writing an entry keeps the streams sequences of entries.
LEMMA AddType ==
  ASSUME TypeOK, NEW e \in Entry, Add(e)
  PROVE  stream' \in [Stream -> Seq(Entry)]
<1>1. Dest(e.msg) \in Stream
  BY ConstantsAssumption DEF Dest, Entry, Msg
<1>2. Append(stream[Dest(e.msg)], e) \in Seq(Entry)
  BY <1>1 DEF TypeOK
<1> QED BY <1>1, <1>2 DEF TypeOK, Add

\* The record of a started goroutine is well typed.
LEMMA SpawnType ==
  ASSUME TypeOK, NEW i \in Inst, NEW m \in Msg, Spawn(i, m)
  PROVE  task' \in [Msg -> TaskType]
<1>1. PICK plan \in IF m.kind = "request" THEN Replies[m.req] ELSE {0} :
        task' = [task EXCEPT ![m] =
                  [pc |-> IF m.kind = "request" THEN "run" ELSE "lookup",
                   at |-> i, plan |-> plan, sent |-> 0, part |-> 0,
                   runs |-> task[m].runs + 1]]
  BY DEF Spawn
<1>2. plan \in 0 .. MaxReplies
  BY ConstantsAssumption DEF Msg
<1>3. 0 \in 0 .. MaxReplies
  BY ConstantsAssumption
<1>4. task \in [Msg -> TaskType]
  BY DEF TypeOK, TaskType
<1>5. [pc |-> IF m.kind = "request" THEN "run" ELSE "lookup",
       at |-> i, plan |-> plan, sent |-> 0, part |-> 0,
       runs |-> task[m].runs + 1] \in TaskType
  BY <1>2, <1>3, <1>4 DEF TaskType
<1> QED BY <1>1, <1>4, <1>5

LEMMA ReplyType ==
  ASSUME TypeOK, NEW m \in Msg, task[m].sent < task[m].plan
  PROVE  /\ Reply(m.req, task[m].sent + 1) \in Msg
         /\ task[m].sent + 1 \in 0 .. MaxReplies
<1>1. task[m] \in TaskType
  BY DEF TypeOK, TaskType
<1>2. task[m].sent \in 0 .. MaxReplies /\ task[m].plan \in 0 .. MaxReplies
  BY <1>1 DEF TaskType
<1>3. task[m].sent + 1 \in 1 .. MaxReplies
  BY <1>2, ConstantsAssumption
<1>4. m.req \in Req
  BY DEF Msg
<1> QED BY <1>3, <1>4 DEF Reply, Msg

LEMMA TypeInit == Init => TypeOK
<1> SUFFICES ASSUME Init PROVE TypeOK
  OBVIOUS
<1>1. NoTask \in TaskType
  BY ConstantsAssumption DEF NoTask, TaskType
<1>2. NoAssembler \in AsmType
  BY DEF NoAssembler, AsmType
<1>3. task \in [Msg -> TaskType] /\ asm \in [Inst -> [Msg -> AsmType]]
  BY <1>1, <1>2 DEF Init
<1>4. crashes \in 0 .. MaxCrash
  BY ConstantsAssumption DEF Init
<1>5. \A S : <<>> \in Seq(S)
  OBVIOUS
<1> QED BY <1>3, <1>4, <1>5 DEF Init, TypeOK, TaskType, AsmType

LEMMA TypeNext == TypeOK /\ [Next]_vars => TypeOK'
<1> SUFFICES ASSUME TypeOK, [Next]_vars PROVE TypeOK'
  OBVIOUS
<1> USE DEF redis, callers, proc, TaskType, AsmType
<1>1. ASSUME NEW r \in Req, DeadlinePasses(r) PROVE TypeOK'
  BY <1>1 DEF DeadlinePasses, TypeOK
<1>2. ASSUME NEW r \in Req, Send(r) PROVE TypeOK'
  BY <1>2 DEF Send, TypeOK
<1>3. ASSUME NEW r \in Req, WritePart(r) PROVE TypeOK'
  <2>1. Piece(Request(r), part[r]) \in Entry
    BY DEF Piece, Request, Entry, Msg, TypeOK
  <2>2. stream' \in [Stream -> Seq(Entry)]
    BY <1>3, <2>1, AddType DEF WritePart
  <2> QED BY <1>3, <2>2 DEF WritePart, TypeOK
<1>4. ASSUME NEW r \in Req, WriteFails(r) PROVE TypeOK'
  <2>1. Piece(Request(r), part[r]) \in Entry
    BY DEF Piece, Request, Entry, Msg, TypeOK
  <2>2. stream' \in [Stream -> Seq(Entry)]
    BY <1>4, <2>1, AddType DEF WriteFails, TypeOK
  <2>3. part' \in [Req -> Nat]
    BY <1>4 DEF WriteFails, TypeOK
  <2> QED BY <1>4, <2>2, <2>3 DEF WriteFails, TypeOK
<1>5. ASSUME NEW r \in Req, TakeReply(r) PROVE TypeOK'
  <2>1. Tail(chan[r]) \in Seq(0 .. MaxReplies)
    BY <1>5 DEF TakeReply, TypeOK
  <2> QED BY <1>5, <2>1 DEF TakeReply, TypeOK
<1>6. ASSUME NEW r \in Req, TimeOut(r) PROVE TypeOK'
  BY <1>6 DEF TimeOut, TypeOK
<1>7. ASSUME NEW r \in Req, Unregister(r) PROVE TypeOK'
  BY <1>7 DEF Unregister, TypeOK
<1>8. ASSUME NEW i \in Inst, Start(i) PROVE TypeOK'
  <2>1. Home[i] \in Stream
    BY ConstantsAssumption
  <2>2. stream' \in [Stream -> Seq(Entry)]
    BY <1>8, <2>1 DEF Start, TypeOK
  <2> QED BY <1>8, <2>1, <2>2 DEF Start, TypeOK
<1>9. ASSUME NEW i \in Inst, Crash(i) PROVE TypeOK'
  <2>1. task' \in [Msg -> TaskType]
    <3>1. task \in [Msg -> TaskType]
      BY DEF TypeOK
    <3>2. \A m \in Msg : [task[m] EXCEPT !.pc = "dead"] \in TaskType
      BY <3>1
    <3> QED BY <1>9, <3>1, <3>2 DEF Crash
  <2>2. asm' \in [Inst -> [Msg -> AsmType]]
    <3>1. NoAssembler \in AsmType
      BY DEF NoAssembler
    <3> QED BY <1>9, <3>1 DEF Crash, TypeOK
  <2>3. /\ call' \in [Req -> {"idle", "sending", "waiting", "leaving", "returned"}]
        /\ result' \in [Req -> {"none", "reply", "timeout", "error", "crashed"}]
        /\ chan' \in [Req -> Seq(0 .. MaxReplies)]
    <3>1. /\ call \in [Req -> {"idle", "sending", "waiting", "leaving", "returned"}]
          /\ result \in [Req -> {"none", "reply", "timeout", "error", "crashed"}]
          /\ chan \in [Req -> Seq(0 .. MaxReplies)]
      BY DEF TypeOK
    <3>2. <<>> \in Seq(0 .. MaxReplies)
      OBVIOUS
    <3>3. chan' = [r \in Req |-> IF Caller[r] = i THEN <<>> ELSE chan[r]]
      BY <1>9 DEF Crash
    <3>4. call' = [r \in Req |-> IF Caller[r] = i /\ Registered(r) THEN "returned" ELSE call[r]]
      BY <1>9 DEF Crash
    <3>5. result' = [r \in Req |-> IF Caller[r] = i /\ Registered(r) THEN "crashed" ELSE result[r]]
      BY <1>9 DEF Crash
    <3>6. chan' \in [Req -> Seq(0 .. MaxReplies)]
      BY <3>1, <3>2, <3>3
    <3>7. call' \in [Req -> {"idle", "sending", "waiting", "leaving", "returned"}]
      BY <3>1, <3>4
    <3>8. result' \in [Req -> {"none", "reply", "timeout", "error", "crashed"}]
      BY <3>1, <3>5
    <3> QED BY <3>6, <3>7, <3>8
  <2>4. crashes' \in 0 .. MaxCrash
    BY <1>9, ConstantsAssumption DEF Crash, TypeOK
  <2>5. out' \in [Inst -> Seq(Msg)]
    BY <1>9 DEF Crash, TypeOK
  <2>6. /\ up' \subseteq Inst
        /\ loop' \in [Inst -> {"off", "poll", "read", "ack", "acquire"}]
        /\ hand' \in [Inst -> SUBSET Entry]
        /\ sem' \in [Inst -> Int]
    BY <1>9 DEF Crash, TypeOK
  <2>7. /\ stream' \in [Stream -> Seq(Entry)]
        /\ group' \subseteq Stream
        /\ pel' \subseteq Entry
        /\ expired' \subseteq Req
        /\ part' \in [Req -> Nat]
    BY <1>9 DEF Crash, TypeOK
  <2> QED BY <2>1, <2>2, <2>3, <2>4, <2>5, <2>6, <2>7 DEF TypeOK
<1>10. ASSUME NEW i \in Inst, PollReassembled(i) PROVE TypeOK'
  <2>1. /\ Head(out[i]) \in Msg
        /\ Tail(out[i]) \in Seq(Msg)
    BY <1>10 DEF PollReassembled, TypeOK
  <2>2. Piece(Head(out[i]), 0) \in Entry
    BY <2>1 DEF Piece, Entry
  <2> QED BY <1>10, <2>1, <2>2 DEF PollReassembled, TypeOK
<1>11. ASSUME NEW i \in Inst, PollNothing(i) PROVE TypeOK'
  BY <1>11 DEF PollNothing, TypeOK
<1>12. ASSUME NEW i \in Inst, Read(i) PROVE TypeOK'
  <2> DEFINE e == Head(stream[Home[i]])
             m == e.msg
  <2>1. Home[i] \in Stream
    BY ConstantsAssumption
  <2>2. stream[Home[i]] \in Seq(Entry) /\ stream[Home[i]] # <<>>
    BY <1>12, <2>1 DEF Read, TypeOK
  <2>3. e \in Entry /\ Tail(stream[Home[i]]) \in Seq(Entry)
    BY <2>2
  <2>4. m \in Msg /\ e.part \in Nat
    BY <2>3 DEF Entry
  <2> HIDE DEF e, m
  <2>5. stream' \in [Stream -> Seq(Entry)]
    BY <1>12, <2>1, <2>3 DEF Read, TypeOK
  <2>6. pel' \subseteq Entry
    BY <1>12, <2>3 DEF Read, TypeOK, e
  <2>7. loop' \in [Inst -> {"off", "poll", "read", "ack", "acquire"}]
    <3>1. PICK q \in {"ack", "poll", "acquire"} : loop' = [loop EXCEPT ![i] = q]
      BY <1>12 DEF Read
    <3>2. loop \in [Inst -> {"off", "poll", "read", "ack", "acquire"}]
      BY DEF TypeOK
    <3> QED BY <3>1, <3>2
  <2>8. hand' \in [Inst -> SUBSET Entry]
    <3>1. hand' = hand \/ hand' = [hand EXCEPT ![i] = {e}]
      BY <1>12 DEF Read, e
    <3>2. hand \in [Inst -> SUBSET Entry]
      BY DEF TypeOK
    <3>3. {e} \in SUBSET Entry
      BY <2>3
    <3> QED BY <3>1, <3>2, <3>3
  <2>9. task' \in [Msg -> TaskType]
    <3>1. task \in [Msg -> TaskType]
      BY DEF TypeOK
    <3>2. task' = task \/ Spawn(i, m)
      BY <1>12 DEF Read, e, m
    <3> QED BY <3>1, <3>2, <2>4, SpawnType
  <2>10. asm' \in [Inst -> [Msg -> AsmType]]
    <3>1. asm \in [Inst -> [Msg -> AsmType]]
      BY DEF TypeOK
    <3>2. asm' = asm \/ AddShard(i, e)
      BY <1>12 DEF Read, e
    <3>3. ASSUME AddShard(i, e) PROVE asm' \in [Inst -> [Msg -> AsmType]]
      <4> DEFINE got == asm[i][m].got \cup {e.part}
                 new == [pc |-> IF Cardinality(got) = Parts(m) THEN "full" ELSE "wait",
                         got |-> got]
      <4>1. asm[i][m] \in AsmType
        BY <3>1, <2>4
      <4>2. got \in SUBSET Nat
        BY <4>1, <2>4
      <4> HIDE DEF got
      <4>3. new \in AsmType
        BY <4>2
      <4>4. asm' = [asm EXCEPT ![i][m] = new]
        BY <3>3 DEF AddShard, got, m
      <4> QED BY <4>3, <4>4, <3>1, <2>4
    <3> QED BY <3>1, <3>2, <3>3
  <2>11. UNCHANGED <<group, expired, callers, up, crashes, sem, out>>
    BY <1>12 DEF Read
  <2> QED BY <2>5, <2>6, <2>7, <2>8, <2>9, <2>10, <2>11 DEF TypeOK
<1>13. ASSUME NEW i \in Inst, ReadFails(i) PROVE TypeOK'
  BY <1>13 DEF ReadFails, TypeOK
<1>14. ASSUME NEW i \in Inst, LoopAck(i) PROVE TypeOK'
  BY <1>14 DEF LoopAck, AckAndDelete, TypeOK
<1>15. ASSUME NEW i \in Inst, Acquire(i) PROVE TypeOK'
  <2>1. PICK e \in hand[i] : Spawn(i, e.msg)
    BY <1>15 DEF Acquire
  <2>2. e.msg \in Msg
    BY <2>1 DEF TypeOK, Entry
  <2>3. task' \in [Msg -> TaskType]
    BY <2>1, <2>2, SpawnType
  <2> QED BY <1>15, <2>3 DEF Acquire, TypeOK
<1>16. ASSUME NEW m \in Msg, RunReply(m) \/ RunReplyFails(m) PROVE TypeOK'
  <2> DEFINE reply == Reply(m.req, task[m].sent + 1)
  <2>1. task \in [Msg -> TaskType]
    BY DEF TypeOK
  <2>2. reply \in Msg /\ task[m].sent + 1 \in 0 .. MaxReplies
    BY <1>16, ReplyType DEF RunReply, RunReplyFails
  <2>3. Piece(reply, task[m].part) \in Entry
    BY <2>1, <2>2 DEF Piece, Entry
  <2>4. stream' \in [Stream -> Seq(Entry)]
    <3>1. Add(Piece(reply, task[m].part)) \/ UNCHANGED stream
      BY <1>16 DEF RunReply, RunReplyFails
    <3> QED BY <2>3, <3>1, AddType DEF TypeOK
  <2>5. task' \in [Msg -> TaskType]
    <3>1. [task[m] EXCEPT !.sent = @ + 1, !.part = 0] \in TaskType
      BY <2>1, <2>2
    <3>2. [task[m] EXCEPT !.part = @ + 1] \in TaskType
      BY <2>1
    <3> QED BY <1>16, <2>1, <3>1, <3>2 DEF RunReply, RunReplyFails
  <2>6. UNCHANGED <<group, pel, expired, callers, proc>>
    BY <1>16 DEF RunReply, RunReplyFails
  <2> QED BY <2>4, <2>5, <2>6 DEF TypeOK
<1>17. ASSUME NEW m \in Msg, RunEnd(m) PROVE TypeOK'
  <2>1. task' \in [Msg -> TaskType]
    <3>1. Handled(m) \in {"ack", "free"}
      BY DEF Handled
    <3>2. task \in [Msg -> TaskType]
      BY DEF TypeOK
    <3>3. PICK q \in {"ack", "free"} : task' = [task EXCEPT ![m].pc = q]
      BY <1>17, <3>1 DEF RunEnd
    <3> QED BY <3>2, <3>3
  <2> QED BY <1>17, <2>1 DEF RunEnd, TypeOK
<1>18. ASSUME NEW m \in Msg, Lookup(m) PROVE TypeOK'
  <2>1. task' \in [Msg -> TaskType]
    <3>1. Handled(m) \in {"ack", "free"}
      BY DEF Handled
    <3>2. task \in [Msg -> TaskType]
      BY DEF TypeOK
    <3>3. PICK q \in {"deliver", "ack", "free"} : task' = [task EXCEPT ![m].pc = q]
      BY <1>18, <3>1 DEF Lookup
    <3> QED BY <3>2, <3>3
  <2> QED BY <1>18, <2>1 DEF Lookup, TypeOK
<1>19. ASSUME NEW m \in Msg, Deliver(m) PROVE TypeOK'
  <2>1. m.n \in 0 .. MaxReplies
    BY ConstantsAssumption DEF Msg
  <2>2. <<m.n>> \in Seq(0 .. MaxReplies)
    BY <2>1
  <2>3. task' \in [Msg -> TaskType]
    <3>1. Handled(m) \in {"ack", "free"}
      BY DEF Handled
    <3>2. task \in [Msg -> TaskType]
      BY DEF TypeOK
    <3>3. PICK q \in {"ack", "free"} : task' = [task EXCEPT ![m].pc = q]
      BY <1>19, <3>1 DEF Deliver
    <3> QED BY <3>2, <3>3
  <2>4. chan' \in [Req -> Seq(0 .. MaxReplies)]
    BY <1>19, <2>2 DEF Deliver, TypeOK
  <2> QED BY <1>19, <2>3, <2>4 DEF Deliver, TypeOK
<1>20. ASSUME NEW m \in Msg, TaskAck(m) PROVE TypeOK'
  <2>1. task' \in [Msg -> TaskType]
    <3>1. task \in [Msg -> TaskType]
      BY DEF TypeOK
    <3>2. PICK q \in {"done", "free"} : task' = [task EXCEPT ![m].pc = q]
      BY <1>20 DEF TaskAck
    <3> QED BY <3>1, <3>2
  <2>2. pel' \subseteq Entry
    BY <1>20 DEF TaskAck, AckAndDelete, TypeOK
  <2> QED BY <1>20, <2>1, <2>2 DEF TaskAck, TypeOK
<1>21. ASSUME NEW m \in Msg, Release(m) PROVE TypeOK'
  <2>1. task' \in [Msg -> TaskType]
    <3>1. task \in [Msg -> TaskType]
      BY DEF TypeOK
    <3>2. task' = [task EXCEPT ![m].pc = "done"]
      BY <1>21 DEF Release
    <3> QED BY <3>1, <3>2
  <2>2. sem' \in [Inst -> Int]
    <3>1. sem \in [Inst -> Int] /\ task[m].at \in Inst
      BY DEF TypeOK
    <3>2. sem' = [sem EXCEPT ![task[m].at] = @ - 1]
      BY <1>21 DEF Release
    <3> QED BY <3>1, <3>2
  <2> QED BY <1>21, <2>1, <2>2 DEF Release, TypeOK
<1>22. ASSUME NEW i \in Inst, NEW m \in Msg, AsmStep(i, m) PROVE TypeOK'
  <2>1. asm \in [Inst -> [Msg -> AsmType]]
    BY DEF TypeOK
  <2>2. NoAssembler \in AsmType
    BY DEF NoAssembler
  <2>3. CASE AsmTake(i, m)
    <3>1. [asm[i][m] EXCEPT !.pc = "put"] \in AsmType
      BY <2>1
    <3>2. asm' \in [Inst -> [Msg -> AsmType]]
      BY <2>3, <2>1, <3>1 DEF AsmTake
    <3> QED BY <2>3, <3>2 DEF AsmTake, TypeOK
  <2>4. CASE AsmPut(i, m)
    <3>1. Append(out[i], m) \in Seq(Msg)
      BY DEF TypeOK
    <3> QED BY <2>4, <2>1, <2>2, <3>1 DEF AsmPut, TypeOK
  <2>5. CASE AsmTimeout(i, m)
    BY <2>5, <2>1, <2>2 DEF AsmTimeout, TypeOK
  <2> QED BY <1>22, <2>3, <2>4, <2>5 DEF AsmStep
<1>23. CASE UNCHANGED vars
  BY <1>23 DEF vars, TypeOK
<1> QED
  BY <1>1, <1>2, <1>3, <1>4, <1>5, <1>6, <1>7, <1>8, <1>9, <1>10, <1>11, <1>12, <1>13,
     <1>14, <1>15, <1>16, <1>17, <1>18, <1>19, <1>20, <1>21, <1>22, <1>23
     DEF Next, CallStep, LoopStep, TaskStep

\* Every variable keeps its type in every behaviour.
THEOREM TypeCorrect == Spec => []TypeOK
  BY TypeInit, TypeNext, PTL DEF Spec

(***************************************************************************)
(* Where messages come from, and the shape of a call                       *)
(***************************************************************************)

\* A request is known once its call was made, a reply once the handler of
\* its request was started.
Known(m) == IF m.kind = "request" THEN call[m.req] # "idle"
            ELSE task[Request(m.req)].pc # "none"

\* Nothing comes from nowhere: every message in a stream, in the hand of a
\* loop, in an assembler, in reassembledChan or in a goroutine is known.
StreamKnown == \A s \in Stream : \A k \in DOMAIN stream[s] : Known(stream[s][k].msg)
HandKnown   == \A i \in Inst : \A e \in hand[i] : Known(e.msg)
OutKnown    == \A i \in Inst : \A k \in DOMAIN out[i] : Known(out[i][k])
AsmKnown    == \A i \in Inst, m \in Msg : asm[i][m].pc # "none" => Known(m)
TaskKnown   == \A m \in Msg : task[m].pc # "none" => Known(m)

Provenance == StreamKnown /\ HandKnown /\ OutKnown /\ AsmKnown /\ TaskKnown

\* Replies reach a channel only through the goroutine of a response, and the
\* outcome of a call follows its program counter.
CallShape ==
  /\ \A m \in Msg : task[m].pc = "run" => m.kind = "request"
  /\ \A m \in Msg : task[m].pc \in {"lookup", "deliver"} => m.kind = "response"
  /\ \A r \in Req : chan[r] # <<>> => task[Request(r)].pc # "none"
  /\ \A r \in Req : call[r] \in {"idle", "sending", "waiting"} <=> result[r] = "none"

RefInv == TypeOK /\ Provenance /\ CallShape

\* What one XADD adds to the streams: every entry was there or is the new one.
LEMMA AddOnly ==
  ASSUME TypeOK, NEW e \in Entry, Add(e), NEW s \in Stream, NEW k \in DOMAIN stream'[s]
  PROVE  stream'[s][k] = e \/ \E j \in DOMAIN stream[s] : stream'[s][k] = stream[s][j]
<1>1. Dest(e.msg) \in Stream
  BY ConstantsAssumption DEF Dest, Entry, Msg
<1>2. stream \in [Stream -> Seq(Entry)]
  BY DEF TypeOK
<1>3. stream[s] \in Seq(Entry)
  BY <1>2
<1>4. stream'[s] = stream[s] \/ stream'[s] = Append(stream[s], e)
  BY <1>1, <1>2 DEF Add
<1> QED BY <1>3, <1>4

\* A call never goes back to "idle".
LEMMA CallStays ==
  ASSUME TypeOK, [Next]_vars, NEW r \in Req, call[r] # "idle"
  PROVE  call'[r] # "idle"
<1> USE DEF redis, callers, proc
<1>1. call \in [Req -> {"idle", "sending", "waiting", "leaving", "returned"}]
  BY DEF TypeOK
<1>2. ASSUME NEW q \in Req, DeadlinePasses(q) \/ Send(q) \/ CallStep(q)
      PROVE  call'[r] # "idle"
  BY <1>1, <1>2 DEF DeadlinePasses, Send, CallStep, WritePart, WriteFails,
                          TakeReply, TimeOut, Unregister
<1>3. ASSUME NEW i \in Inst, Start(i) \/ Crash(i) PROVE call'[r] # "idle"
  BY <1>1, <1>3 DEF Start, Crash
<1>4. ASSUME NEW i \in Inst, LoopStep(i) PROVE call'[r] # "idle"
  BY <1>4 DEF LoopStep, PollReassembled, PollNothing, Read, ReadFails, LoopAck, Acquire
<1>5. ASSUME NEW x \in Msg, TaskStep(x) PROVE call'[r] # "idle"
  BY <1>5 DEF TaskStep, RunReply, RunReplyFails, RunEnd, Lookup, Deliver, TaskAck, Release
<1>6. ASSUME NEW i \in Inst, NEW x \in Msg, AsmStep(i, x) PROVE call'[r] # "idle"
  BY <1>6 DEF AsmStep, AsmTake, AsmPut, AsmTimeout
<1> QED BY <1>2, <1>3, <1>4, <1>5, <1>6 DEF Next, vars

\* A message that has had a goroutine keeps the record of it.
LEMMA TaskStays ==
  ASSUME TypeOK, [Next]_vars, NEW x \in Msg, task[x].pc # "none"
  PROVE  task'[x].pc # "none"
<1> USE DEF redis, callers, proc
<1>1. task \in [Msg -> TaskType]
  BY DEF TypeOK, TaskType
<1>2. ASSUME NEW q \in Req, DeadlinePasses(q) \/ Send(q) \/ CallStep(q)
      PROVE  task' = task
  BY <1>2 DEF DeadlinePasses, Send, CallStep, WritePart, WriteFails, TakeReply, TimeOut, Unregister
<1>3. ASSUME NEW i \in Inst, Start(i) PROVE task' = task
  BY <1>3 DEF Start
<1>4. ASSUME NEW i \in Inst, Crash(i) PROVE task'[x].pc # "none"
  BY <1>1, <1>4 DEF Crash, TaskType
<1>5. ASSUME NEW i \in Inst, NEW y \in Msg, Spawn(i, y) PROVE task'[x].pc # "none"
  BY <1>1, <1>5 DEF Spawn, TaskType
<1>6. ASSUME NEW i \in Inst, LoopStep(i)
      PROVE  task' = task \/ \E y \in Msg : Spawn(i, y)
  <2>1. ASSUME Read(i) PROVE task' = task \/ Spawn(i, Head(stream[Home[i]]).msg)
    BY <2>1 DEF Read
  <2>2. ASSUME Read(i) PROVE Head(stream[Home[i]]).msg \in Msg
    <3>1. stream[Home[i]] \in Seq(Entry) /\ stream[Home[i]] # <<>>
      BY <2>2, ConstantsAssumption DEF Read, TypeOK
    <3>2. Head(stream[Home[i]]) \in Entry
      BY <3>1
    <3> QED BY <3>2 DEF Entry
  <2>3. ASSUME Acquire(i) PROVE \E y \in Msg : Spawn(i, y)
    BY <2>3 DEF Acquire, TypeOK, Entry
  <2> QED BY <1>6, <2>1, <2>2, <2>3
            DEF LoopStep, PollReassembled, PollNothing, ReadFails, LoopAck
<1>7. ASSUME NEW y \in Msg, TaskStep(y) PROVE task'[x].pc # "none"
  <2>1. Handled(y) \in {"ack", "free"}
    BY DEF Handled
  <2>2. CASE RunReply(y) \/ RunReplyFails(y)
    BY <1>1, <2>2 DEF RunReply, RunReplyFails, TaskType
  <2>3. CASE RunEnd(y) \/ Lookup(y) \/ Deliver(y) \/ TaskAck(y) \/ Release(y)
    <3>1. PICK q \in {"deliver", "ack", "free", "done"} : task' = [task EXCEPT ![y].pc = q]
      BY <2>1, <2>3 DEF RunEnd, Lookup, Deliver, TaskAck, Release
    <3> QED BY <1>1, <3>1 DEF TaskType
  <2> QED BY <1>7, <2>2, <2>3 DEF TaskStep
<1>8. ASSUME NEW i \in Inst, NEW y \in Msg, AsmStep(i, y) PROVE task' = task
  BY <1>8 DEF AsmStep, AsmTake, AsmPut, AsmTimeout
<1> QED BY <1>2, <1>3, <1>4, <1>5, <1>6, <1>7, <1>8 DEF Next, vars

LEMMA KnownStays ==
  ASSUME TypeOK, [Next]_vars, NEW m \in Msg, Known(m)
  PROVE  Known(m)'
<1>1. m.req \in Req /\ Request(m.req) \in Msg
  BY DEF Msg, Request
<1> QED BY <1>1, CallStays, TaskStays DEF Known

\* The first entry of a non-empty stream.
LEMMA HeadEntry ==
  ASSUME TypeOK, NEW i \in Inst, stream[Home[i]] # <<>>
  PROVE  /\ Head(stream[Home[i]]) \in Entry
         /\ Head(stream[Home[i]]).msg \in Msg
         /\ 1 \in DOMAIN stream[Home[i]]
         /\ Head(stream[Home[i]]) = stream[Home[i]][1]
<1>1. stream[Home[i]] \in Seq(Entry)
  BY ConstantsAssumption DEF TypeOK
<1>2. Head(stream[Home[i]]) \in Entry
  BY <1>1
<1> QED BY <1>1, <1>2 DEF Entry

\* What the loop of i does to the goroutines: nothing, or it starts the one
\* of a message that was in its stream or in its hand.
LEMMA LoopSpawns ==
  ASSUME TypeOK, Provenance, NEW i \in Inst, LoopStep(i)
  PROVE  task' = task \/ \E y \in Msg : Spawn(i, y) /\ Known(y)
<1>1. CASE Read(i)
  <2>1. task' = task \/ Spawn(i, Head(stream[Home[i]]).msg)
    BY <1>1 DEF Read
  <2>2. stream[Home[i]] # <<>>
    BY <1>1 DEF Read
  <2>3. Known(Head(stream[Home[i]]).msg)
    BY <2>2, HeadEntry, ConstantsAssumption DEF Provenance, StreamKnown
  <2> QED BY <2>1, <2>2, <2>3, HeadEntry
<1>2. CASE Acquire(i)
  BY <1>2 DEF Acquire, TypeOK, Entry, Provenance, HandKnown
<1> QED BY <1>1, <1>2 DEF LoopStep, PollReassembled, PollNothing, ReadFails, LoopAck, proc

LEMMA RefInit == Init => Provenance /\ CallShape
<1> SUFFICES ASSUME Init PROVE Provenance /\ CallShape
  OBVIOUS
<1>1. \A m \in Msg : task[m].pc = "none"
  BY DEF Init, NoTask
<1>2. \A i \in Inst, m \in Msg : asm[i][m].pc = "none"
  BY DEF Init, NoAssembler
<1>3. Provenance
  BY <1>1, <1>2 DEF Init, Provenance, StreamKnown, HandKnown, OutKnown, AsmKnown, TaskKnown
<1>4. CallShape
  BY <1>1 DEF Init, CallShape
<1> QED BY <1>3, <1>4

LEMMA ProvenanceNext == RefInv /\ [Next]_vars => Provenance'
<1> SUFFICES ASSUME RefInv, [Next]_vars PROVE Provenance'
  OBVIOUS
<1> USE DEF redis, callers, proc
<1>0. TypeOK /\ Provenance /\ CallShape /\ TypeOK'
  BY TypeNext DEF RefInv
<1>1. \A m \in Msg : Known(m) => Known(m)'
  BY <1>0, KnownStays
<1>2. StreamKnown'
  <2> SUFFICES ASSUME NEW s \in Stream, NEW k \in DOMAIN stream'[s]
               PROVE  Known(stream[s][k].msg)'
    BY DEF StreamKnown
  <2>1. stream[s] \in Seq(Entry) /\ stream'[s] \in Seq(Entry)
    BY <1>0 DEF TypeOK
  <2>2. stream'[s][k].msg \in Msg
    <3>1. stream'[s][k] \in Entry
      BY <2>1
    <3> QED BY <3>1 DEF Entry
  <2>3. ASSUME NEW j \in DOMAIN stream[s], stream'[s][k] = stream[s][j]
        PROVE  Known(stream[s][k].msg)'
    BY <1>0, <1>1, <2>2, <2>3 DEF Provenance, StreamKnown
  <2>4. ASSUME NEW e \in Entry, Add(e), Known(e.msg)
        PROVE  Known(stream[s][k].msg)'
    <3>1. e.msg \in Msg
      BY DEF Entry
    <3>2. Known(e.msg)'
      BY <1>1, <2>4, <3>1
    <3> QED BY <1>0, <2>3, <2>4, <3>2, AddOnly
  <2>5. ASSUME stream' = stream PROVE Known(stream[s][k].msg)'
    BY <2>3, <2>5
  <2>6. ASSUME NEW r \in Req, WritePart(r) \/ WriteFails(r) PROVE Known(stream[s][k].msg)'
    <3>1. Piece(Request(r), part[r]) \in Entry
      BY <1>0 DEF Piece, Request, Entry, Msg, TypeOK
    <3>2. Known(Piece(Request(r), part[r]).msg)
      BY <2>6 DEF WritePart, WriteFails, Known, Piece, Request
    <3> QED BY <2>4, <2>5, <2>6, <3>1, <3>2 DEF WritePart, WriteFails
  <2>7. ASSUME NEW r \in Req, DeadlinePasses(r) \/ Send(r) \/ TakeReply(r) \/ TimeOut(r) \/ Unregister(r)
        PROVE  Known(stream[s][k].msg)'
    BY <2>5, <2>7 DEF DeadlinePasses, Send, TakeReply, TimeOut, Unregister
  <2>8. ASSUME NEW i \in Inst, Start(i) PROVE Known(stream[s][k].msg)'
    <3>1. stream'[s] = stream[s] \/ stream'[s] = <<>>
      BY <1>0, <2>8, ConstantsAssumption DEF Start, TypeOK
    <3> QED BY <2>3, <3>1
  <2>9. ASSUME NEW i \in Inst, Crash(i) PROVE Known(stream[s][k].msg)'
    BY <2>5, <2>9 DEF Crash
  <2>10. ASSUME NEW i \in Inst, LoopStep(i) PROVE Known(stream[s][k].msg)'
    <3>1. CASE Read(i)
      <4>1. stream'[s] = stream[s] \/ stream'[s] = Tail(stream[s])
        BY <1>0, <3>1, ConstantsAssumption DEF Read, TypeOK
      <4>2. ASSUME stream'[s] = Tail(stream[s]) PROVE \E j \in DOMAIN stream[s] : stream'[s][k] = stream[s][j]
        BY <2>1, <4>2
      <4> QED BY <2>3, <4>1, <4>2
    <3>2. CASE stream' = stream
      BY <2>5, <3>2
    <3> QED BY <2>10, <3>1, <3>2
              DEF LoopStep, PollReassembled, PollNothing, ReadFails, LoopAck, Acquire
  <2>11. ASSUME NEW m \in Msg, RunReply(m) \/ RunReplyFails(m) PROVE Known(stream[s][k].msg)'
    <3> DEFINE reply == Reply(m.req, task[m].sent + 1)
    <3>1. reply \in Msg
      BY <1>0, <2>11, ReplyType DEF RunReply, RunReplyFails
    <3>2. task[m].part \in Nat
      BY <1>0 DEF TypeOK
    <3>3. Piece(reply, task[m].part) \in Entry
      BY <3>1, <3>2 DEF Piece, Entry
    <3>4. m = Request(m.req) /\ task[m].pc = "run"
      BY <1>0, <2>11 DEF RunReply, RunReplyFails, CallShape, Msg, Request
    <3>5. Known(Piece(reply, task[m].part).msg)
      BY <3>4 DEF Known, Piece, Reply
    <3>6. Add(Piece(reply, task[m].part)) \/ stream' = stream
      BY <2>11 DEF RunReply, RunReplyFails
    <3> HIDE DEF reply
    <3> QED BY <2>4, <2>5, <3>3, <3>5, <3>6
  <2>12. ASSUME NEW m \in Msg, RunEnd(m) \/ Lookup(m) \/ Deliver(m) \/ TaskAck(m) \/ Release(m)
         PROVE  Known(stream[s][k].msg)'
    BY <2>5, <2>12 DEF RunEnd, Lookup, Deliver, TaskAck, Release
  <2>13. ASSUME NEW i \in Inst, NEW m \in Msg, AsmStep(i, m) PROVE Known(stream[s][k].msg)'
    BY <2>5, <2>13 DEF AsmStep, AsmTake, AsmPut, AsmTimeout
  <2>14. CASE UNCHANGED vars
    BY <2>5, <2>14 DEF vars
  <2> QED BY <2>6, <2>7, <2>8, <2>9, <2>10, <2>11, <2>12, <2>13, <2>14
             DEF Next, CallStep, TaskStep
<1>3. HandKnown'
  <2> SUFFICES ASSUME NEW j \in Inst, NEW e \in hand'[j]
               PROVE  Known(e.msg)'
    BY DEF HandKnown
  <2>1. e \in Entry /\ e.msg \in Msg
    BY <1>0 DEF TypeOK, Entry
  <2>2. ASSUME e \in hand[j] PROVE Known(e.msg)'
    BY <1>0, <1>1, <2>1, <2>2 DEF Provenance, HandKnown
  <2>3. ASSUME hand' = hand PROVE Known(e.msg)'
    BY <2>2, <2>3
  <2>4. ASSUME NEW i \in Inst, NEW x \in Entry, hand' = [hand EXCEPT ![i] = {x}], Known(x.msg)
        PROVE  Known(e.msg)'
    <3>1. e \in hand[j] \/ e = x
      BY <1>0, <2>4 DEF TypeOK
    <3>2. x.msg \in Msg
      BY DEF Entry
    <3> QED BY <1>1, <2>2, <2>4, <3>1, <3>2
  <2>5. ASSUME NEW i \in Inst, hand' = [hand EXCEPT ![i] = {}] PROVE Known(e.msg)'
    BY <1>0, <2>2, <2>5 DEF TypeOK
  <2>6. ASSUME NEW r \in Req, DeadlinePasses(r) \/ Send(r) \/ CallStep(r) PROVE hand' = hand
    BY <2>6 DEF DeadlinePasses, Send, CallStep, WritePart, WriteFails, TakeReply, TimeOut, Unregister
  <2>7. ASSUME NEW i \in Inst, Start(i) \/ Crash(i)
        PROVE  hand' = hand \/ hand' = [hand EXCEPT ![i] = {}]
    BY <2>7 DEF Start, Crash
  <2>8. ASSUME NEW i \in Inst, LoopStep(i) PROVE Known(e.msg)'
    <3>1. CASE PollReassembled(i)
      <4>1. out[i] \in Seq(Msg) /\ out[i] # <<>>
        BY <1>0, <3>1 DEF PollReassembled, TypeOK
      <4>2. Head(out[i]) = out[i][1] /\ 1 \in DOMAIN out[i] /\ Head(out[i]) \in Msg
        BY <4>1
      <4>3. Known(Head(out[i])) /\ Piece(Head(out[i]), 0) \in Entry
        BY <1>0, <4>2 DEF Provenance, OutKnown, Piece, Entry
      <4>4. Piece(Head(out[i]), 0).msg = Head(out[i])
        BY DEF Piece
      <4> QED BY <2>4, <3>1, <4>3, <4>4 DEF PollReassembled
    <3>2. CASE Read(i)
      <4> DEFINE x == Head(stream[Home[i]])
      <4>1. stream[Home[i]] # <<>>
        BY <3>2 DEF Read
      <4>2. x \in Entry /\ Known(x.msg)
        BY <1>0, <4>1, HeadEntry, ConstantsAssumption DEF Provenance, StreamKnown
      <4>3. hand' = hand \/ hand' = [hand EXCEPT ![i] = {x}]
        BY <3>2 DEF Read
      <4> HIDE DEF x
      <4> QED BY <2>3, <2>4, <4>2, <4>3
    <3>3. CASE PollNothing(i) \/ ReadFails(i)
      BY <2>3, <3>3 DEF PollNothing, ReadFails
    <3>4. CASE LoopAck(i) \/ Acquire(i)
      BY <2>5, <3>4 DEF LoopAck, Acquire
    <3> QED BY <2>8, <3>1, <3>2, <3>3, <3>4 DEF LoopStep
  <2>9. ASSUME NEW m \in Msg, TaskStep(m) PROVE hand' = hand
    BY <2>9 DEF TaskStep, RunReply, RunReplyFails, RunEnd, Lookup, Deliver, TaskAck, Release
  <2>10. ASSUME NEW i \in Inst, NEW m \in Msg, AsmStep(i, m) PROVE hand' = hand
    BY <2>10 DEF AsmStep, AsmTake, AsmPut, AsmTimeout
  <2> QED BY <2>3, <2>5, <2>6, <2>7, <2>8, <2>9, <2>10 DEF Next, vars
<1>4. OutKnown'
  <2> SUFFICES ASSUME NEW j \in Inst, NEW k \in DOMAIN out'[j]
               PROVE  Known(out[j][k])'
    BY DEF OutKnown
  <2>1. out[j] \in Seq(Msg) /\ out'[j] \in Seq(Msg) /\ out'[j][k] \in Msg
    BY <1>0 DEF TypeOK
  <2>2. ASSUME NEW l \in DOMAIN out[j], out'[j][k] = out[j][l] PROVE Known(out[j][k])'
    BY <1>0, <1>1, <2>1, <2>2 DEF Provenance, OutKnown
  <2>3. ASSUME out' = out PROVE Known(out[j][k])'
    BY <2>2, <2>3
  <2>4. ASSUME NEW i \in Inst, NEW m \in Msg, AsmPut(i, m) PROVE Known(out[j][k])'
    <3>1. Known(m)'
      BY <1>0, <1>1, <2>4 DEF AsmPut, Provenance, AsmKnown
    <3>2. out'[j] = out[j] \/ out'[j] = Append(out[j], m)
      BY <1>0, <2>4 DEF AsmPut, TypeOK
    <3>3. out'[j][k] = m \/ \E l \in DOMAIN out[j] : out'[j][k] = out[j][l]
      BY <2>1, <3>2
    <3> QED BY <2>2, <3>1, <3>3
  <2>5. ASSUME NEW i \in Inst, PollReassembled(i) PROVE Known(out[j][k])'
    <3>1. out'[j] = out[j] \/ (out[j] # <<>> /\ out'[j] = Tail(out[j]))
      BY <1>0, <2>5 DEF PollReassembled, TypeOK
    <3>2. ASSUME out[j] # <<>>, out'[j] = Tail(out[j]) PROVE \E l \in DOMAIN out[j] : out'[j][k] = out[j][l]
      <4>1. k + 1 \in DOMAIN out[j] /\ out'[j][k] = out[j][k + 1]
        BY <2>1, <3>2
      <4> QED BY <4>1
    <3> QED BY <2>2, <3>1, <3>2
  <2>6. ASSUME NEW i \in Inst, Crash(i) PROVE Known(out[j][k])'
    <3>1. out'[j] = out[j] \/ out'[j] = <<>>
      BY <1>0, <2>6 DEF Crash, TypeOK
    <3> QED BY <2>2, <3>1
  <2>7. ASSUME NEW r \in Req, DeadlinePasses(r) \/ Send(r) \/ CallStep(r) PROVE out' = out
    BY <2>7 DEF DeadlinePasses, Send, CallStep, WritePart, WriteFails, TakeReply, TimeOut, Unregister
  <2>8. ASSUME NEW i \in Inst, Start(i) \/ PollNothing(i) \/ Read(i) \/ ReadFails(i) \/ LoopAck(i) \/ Acquire(i)
        PROVE  out' = out
    BY <2>8 DEF Start, PollNothing, Read, ReadFails, LoopAck, Acquire
  <2>9. ASSUME NEW m \in Msg, TaskStep(m) PROVE out' = out
    BY <2>9 DEF TaskStep, RunReply, RunReplyFails, RunEnd, Lookup, Deliver, TaskAck, Release
  <2>10. ASSUME NEW i \in Inst, NEW m \in Msg, AsmTake(i, m) \/ AsmTimeout(i, m) PROVE out' = out
    BY <2>10 DEF AsmTake, AsmTimeout
  <2> QED BY <2>3, <2>4, <2>5, <2>6, <2>7, <2>8, <2>9, <2>10 DEF Next, LoopStep, AsmStep, vars
<1>5. AsmKnown'
  <2> SUFFICES ASSUME NEW j \in Inst, NEW x \in Msg, asm'[j][x].pc # "none"
               PROVE  Known(x)'
    BY DEF AsmKnown
  <2>1. asm \in [Inst -> [Msg -> AsmType]]
    BY <1>0 DEF TypeOK, AsmType
  <2>2. ASSUME asm[j][x].pc # "none" PROVE Known(x)'
    BY <1>0, <1>1, <2>2 DEF Provenance, AsmKnown
  <2>3. ASSUME NEW i \in Inst, NEW m \in Msg, AsmStep(i, m) PROVE asm[j][x].pc # "none"
    <3>1. CASE AsmTake(i, m)
      BY <2>1, <3>1 DEF AsmTake, AsmType
    <3>2. CASE AsmPut(i, m) \/ AsmTimeout(i, m)
      <4>1. asm' = [asm EXCEPT ![i][m] = NoAssembler] /\ asm[i][m].pc # "none"
        BY <3>2 DEF AsmPut, AsmTimeout
      <4>2. \/ j = i /\ x = m
            \/ asm'[j][x] = asm[j][x]
        BY <2>1, <4>1
      <4> QED BY <4>1, <4>2
    <3> QED BY <2>3, <3>1, <3>2 DEF AsmStep
  <2>4. ASSUME NEW i \in Inst, Read(i) PROVE Known(x)'
    <3> DEFINE e == Head(stream[Home[i]])
    <3>1. stream[Home[i]] # <<>>
      BY <2>4 DEF Read
    <3>2. e \in Entry /\ e.msg \in Msg /\ Known(e.msg)
      BY <1>0, <3>1, HeadEntry, ConstantsAssumption DEF Provenance, StreamKnown
    <3>3. asm' = asm \/ AddShard(i, e)
      BY <2>4 DEF Read
    <3> HIDE DEF e
    <3>4. asm[j][x].pc # "none" \/ x = e.msg
      BY <2>1, <3>2, <3>3 DEF AddShard
    <3> QED BY <1>1, <2>2, <3>2, <3>4
  <2>5. ASSUME NEW i \in Inst, Crash(i) PROVE asm[j][x].pc # "none"
    BY <2>1, <2>5 DEF Crash, NoAssembler, AsmType
  <2>6. ASSUME NEW r \in Req, DeadlinePasses(r) \/ Send(r) \/ CallStep(r) PROVE asm' = asm
    BY <2>6 DEF DeadlinePasses, Send, CallStep, WritePart, WriteFails, TakeReply, TimeOut, Unregister
  <2>7. ASSUME NEW i \in Inst, Start(i) \/ PollReassembled(i) \/ PollNothing(i) \/ ReadFails(i) \/ LoopAck(i) \/ Acquire(i)
        PROVE  asm' = asm
    BY <2>7 DEF Start, PollReassembled, PollNothing, ReadFails, LoopAck, Acquire
  <2>8. ASSUME NEW m \in Msg, TaskStep(m) PROVE asm' = asm
    BY <2>8 DEF TaskStep, RunReply, RunReplyFails, RunEnd, Lookup, Deliver, TaskAck, Release
  <2> QED BY <2>2, <2>3, <2>4, <2>5, <2>6, <2>7, <2>8 DEF Next, LoopStep, vars
<1>6. TaskKnown'
  <2> SUFFICES ASSUME NEW x \in Msg, task'[x].pc # "none"
               PROVE  Known(x)'
    BY DEF TaskKnown
  <2>1. task \in [Msg -> TaskType]
    BY <1>0 DEF TypeOK, TaskType
  <2>2. ASSUME task[x].pc # "none" PROVE Known(x)'
    BY <1>0, <1>1, <2>2 DEF Provenance, TaskKnown
  <2>3. ASSUME NEW i \in Inst, LoopStep(i) PROVE Known(x)'
    <3>1. ASSUME NEW y \in Msg, Spawn(i, y), Known(y) PROVE Known(x)'
      <4>1. task[x].pc # "none" \/ x = y
        BY <2>1, <3>1 DEF Spawn
      <4> QED BY <1>1, <2>2, <3>1, <4>1
    <3> QED BY <1>0, <2>2, <2>3, <3>1, LoopSpawns
  <2>4. ASSUME NEW i \in Inst, Crash(i) PROVE task[x].pc # "none"
    BY <2>1, <2>4 DEF Crash, TaskType
  <2>5. ASSUME NEW m \in Msg, TaskStep(m) PROVE task[x].pc # "none"
    BY <2>1, <2>5 DEF TaskStep, RunReply, RunReplyFails, RunEnd, Lookup, Deliver, TaskAck,
                      Release, TaskType
  <2>6. ASSUME NEW r \in Req, DeadlinePasses(r) \/ Send(r) \/ CallStep(r) PROVE task' = task
    BY <2>6 DEF DeadlinePasses, Send, CallStep, WritePart, WriteFails, TakeReply, TimeOut, Unregister
  <2>7. ASSUME NEW i \in Inst, Start(i) PROVE task' = task
    BY <2>7 DEF Start
  <2>8. ASSUME NEW i \in Inst, NEW m \in Msg, AsmStep(i, m) PROVE task' = task
    BY <2>8 DEF AsmStep, AsmTake, AsmPut, AsmTimeout
  <2> QED BY <2>2, <2>3, <2>4, <2>5, <2>6, <2>7, <2>8 DEF Next, vars
<1> QED BY <1>2, <1>3, <1>4, <1>5, <1>6 DEF Provenance

LEMMA CallShapeNext == RefInv /\ [Next]_vars => CallShape'
<1> SUFFICES ASSUME RefInv, [Next]_vars PROVE CallShape'
  OBVIOUS
<1> USE DEF redis, callers, proc
<1>0. TypeOK /\ Provenance /\ CallShape /\ TypeOK'
  BY TypeNext DEF RefInv
<1>1. \A m \in Msg : Known(m) => Known(m)'
  BY <1>0, KnownStays
<1>2. task \in [Msg -> TaskType]
  BY <1>0 DEF TypeOK, TaskType
<1>3. \A m \in Msg : m.kind \in {"request", "response"} /\ m.req \in Req
  BY DEF Msg
\* The goroutine of a message starts as its kind says and keeps to it.
<1>4. \A m \in Msg : /\ task'[m].pc = "run" => m.kind = "request"
                     /\ task'[m].pc \in {"lookup", "deliver"} => m.kind = "response"
  <2> SUFFICES ASSUME NEW m \in Msg
               PROVE  /\ task'[m].pc = "run" => m.kind = "request"
                      /\ task'[m].pc \in {"lookup", "deliver"} => m.kind = "response"
    OBVIOUS
  <2>1. /\ task[m].pc = "run" => m.kind = "request"
        /\ task[m].pc \in {"lookup", "deliver"} => m.kind = "response"
    BY <1>0 DEF CallShape
  <2>2. ASSUME NEW i \in Inst, LoopStep(i)
        PROVE  /\ task'[m].pc = "run" => m.kind = "request"
               /\ task'[m].pc \in {"lookup", "deliver"} => m.kind = "response"
    <3>1. CASE task' = task
      BY <2>1, <3>1
    <3>2. ASSUME NEW y \in Msg, Spawn(i, y)
          PROVE  /\ task'[m].pc = "run" => m.kind = "request"
                 /\ task'[m].pc \in {"lookup", "deliver"} => m.kind = "response"
      BY <1>2, <1>3, <2>1, <3>2 DEF Spawn
    <3> QED BY <1>0, <2>2, <3>1, <3>2, LoopSpawns
  <2>3. ASSUME NEW i \in Inst, Crash(i)
        PROVE  /\ task'[m].pc = "run" => m.kind = "request"
               /\ task'[m].pc \in {"lookup", "deliver"} => m.kind = "response"
    BY <1>2, <2>1, <2>3 DEF Crash, TaskType
  <2>4. ASSUME NEW x \in Msg, TaskStep(x)
        PROVE  /\ task'[m].pc = "run" => m.kind = "request"
               /\ task'[m].pc \in {"lookup", "deliver"} => m.kind = "response"
    <3>1. CASE RunReply(x) \/ RunReplyFails(x)
      BY <1>2, <2>1, <3>1 DEF RunReply, RunReplyFails, TaskType
    <3>2. CASE RunEnd(x) \/ Deliver(x) \/ TaskAck(x) \/ Release(x)
      <4>1. PICK q \in {"ack", "free", "done"} : task' = [task EXCEPT ![x].pc = q]
        BY <3>2 DEF RunEnd, Deliver, TaskAck, Release, Handled
      <4> QED BY <1>2, <2>1, <4>1 DEF TaskType
    <3>3. CASE Lookup(x)
      <4>1. task[x].pc = "lookup" /\ x.kind = "response"
        BY <1>0, <3>3 DEF Lookup, CallShape
      <4>2. PICK q \in {"deliver", "ack", "free"} : task' = [task EXCEPT ![x].pc = q]
        BY <3>3 DEF Lookup, Handled
      <4> QED BY <1>2, <2>1, <4>1, <4>2 DEF TaskType
    <3> QED BY <2>4, <3>1, <3>2, <3>3 DEF TaskStep
  <2>5. ASSUME NEW r \in Req, DeadlinePasses(r) \/ Send(r) \/ CallStep(r) PROVE task' = task
    BY <2>5 DEF DeadlinePasses, Send, CallStep, WritePart, WriteFails, TakeReply, TimeOut, Unregister
  <2>6. ASSUME NEW i \in Inst, Start(i) PROVE task' = task
    BY <2>6 DEF Start
  <2>7. ASSUME NEW i \in Inst, NEW x \in Msg, AsmStep(i, x) PROVE task' = task
    BY <2>7 DEF AsmStep, AsmTake, AsmPut, AsmTimeout
  <2> QED BY <2>1, <2>2, <2>3, <2>4, <2>5, <2>6, <2>7 DEF Next, vars
\* A channel is filled by Deliver alone, for a reply that is known.
<1>5. \A r \in Req : chan'[r] # <<>> => task'[Request(r)].pc # "none"
  <2> SUFFICES ASSUME NEW r \in Req, chan'[r] # <<>> PROVE task'[Request(r)].pc # "none"
    OBVIOUS
  <2>1. Request(r) \in Msg
    BY DEF Request, Msg
  <2>2. chan \in [Req -> Seq(0 .. MaxReplies)]
    BY <1>0 DEF TypeOK
  <2>3. ASSUME chan[r] # <<>> PROVE task'[Request(r)].pc # "none"
    BY <1>0, <2>1, <2>3, TaskStays DEF CallShape
  <2>4. ASSUME NEW m \in Msg, Deliver(m) PROVE task'[Request(r)].pc # "none"
    <3>1. chan[r] # <<>> \/ m.req = r
      BY <1>3, <2>2, <2>4 DEF Deliver
    <3>2. Known(m)' /\ m.kind = "response"
      BY <1>0, <1>1, <2>4 DEF Deliver, Provenance, TaskKnown, CallShape
    <3> QED BY <2>3, <3>1, <3>2 DEF Known
  <2>5. ASSUME NEW q \in Req, TakeReply(q) PROVE chan[r] # <<>>
    BY <2>2, <2>5 DEF TakeReply
  <2>6. ASSUME NEW q \in Req, DeadlinePasses(q) \/ Send(q) \/ WritePart(q) \/ WriteFails(q) \/ TimeOut(q) \/ Unregister(q)
        PROVE  chan' = chan
    BY <2>6 DEF DeadlinePasses, Send, WritePart, WriteFails, TimeOut, Unregister
  <2>7. ASSUME NEW i \in Inst, Crash(i) PROVE chan[r] # <<>>
    BY <2>7 DEF Crash
  <2>8. ASSUME NEW i \in Inst, Start(i) \/ LoopStep(i) PROVE chan' = chan
    BY <2>8 DEF Start, LoopStep, PollReassembled, PollNothing, Read, ReadFails, LoopAck, Acquire
  <2>9. ASSUME NEW m \in Msg, RunReply(m) \/ RunReplyFails(m) \/ RunEnd(m) \/ Lookup(m) \/ TaskAck(m) \/ Release(m)
        PROVE  chan' = chan
    BY <2>9 DEF RunReply, RunReplyFails, RunEnd, Lookup, TaskAck, Release
  <2>10. ASSUME NEW i \in Inst, NEW m \in Msg, AsmStep(i, m) PROVE chan' = chan
    BY <2>10 DEF AsmStep, AsmTake, AsmPut, AsmTimeout
  <2> QED BY <2>3, <2>4, <2>5, <2>6, <2>7, <2>8, <2>9, <2>10 DEF Next, CallStep, TaskStep, vars
<1>6. \A r \in Req : call'[r] \in {"idle", "sending", "waiting"} <=> result'[r] = "none"
  <2> SUFFICES ASSUME NEW r \in Req
               PROVE  call'[r] \in {"idle", "sending", "waiting"} <=> result'[r] = "none"
    OBVIOUS
  <2>1. call[r] \in {"idle", "sending", "waiting"} <=> result[r] = "none"
    BY <1>0 DEF CallShape
  <2>2. /\ call \in [Req -> {"idle", "sending", "waiting", "leaving", "returned"}]
        /\ result \in [Req -> {"none", "reply", "timeout", "error", "crashed"}]
    BY <1>0 DEF TypeOK
  <2>3. ASSUME NEW q \in Req, DeadlinePasses(q) \/ Send(q) \/ CallStep(q)
        PROVE  call'[r] \in {"idle", "sending", "waiting"} <=> result'[r] = "none"
    BY <2>1, <2>2, <2>3 DEF DeadlinePasses, Send, CallStep, WritePart, WriteFails, TakeReply,
                            TimeOut, Unregister
  <2>4. ASSUME NEW i \in Inst, Crash(i)
        PROVE  call'[r] \in {"idle", "sending", "waiting"} <=> result'[r] = "none"
    BY <2>1, <2>2, <2>4 DEF Crash
  <2>5. ASSUME NEW i \in Inst, Start(i) \/ LoopStep(i) PROVE call' = call /\ result' = result
    BY <2>5 DEF Start, LoopStep, PollReassembled, PollNothing, Read, ReadFails, LoopAck, Acquire
  <2>6. ASSUME NEW m \in Msg, TaskStep(m) PROVE call' = call /\ result' = result
    BY <2>6 DEF TaskStep, RunReply, RunReplyFails, RunEnd, Lookup, Deliver, TaskAck, Release
  <2>7. ASSUME NEW i \in Inst, NEW m \in Msg, AsmStep(i, m) PROVE call' = call /\ result' = result
    BY <2>7 DEF AsmStep, AsmTake, AsmPut, AsmTimeout
  <2> QED BY <2>1, <2>3, <2>4, <2>5, <2>6, <2>7 DEF Next, vars
<1> QED BY <1>4, <1>5, <1>6 DEF CallShape

LEMMA RefInvInvariant == Spec => []RefInv
<1>1. Init => RefInv
  BY TypeInit, RefInit DEF RefInv
<1>2. RefInv /\ [Next]_vars => RefInv'
  BY TypeNext, ProvenanceNext, CallShapeNext DEF RefInv
<1> QED BY <1>1, <1>2, PTL DEF Spec
=============================================================================
