------------------------- MODULE StreamDelivery_proofs -------------------------
(***************************************************************************)
(* Delivery in StreamRPC: a message is handled at most once, the semaphore *)
(* counts the goroutines that hold it, an entry is acknowledged after its  *)
(* message was handled and no reply is lost on the way to its caller; for  *)
(* every set of instances, streams and calls.                              *)
(***************************************************************************)
EXTENDS StreamRPC_proofs

-----------------------------------------------------------------------------
(* Where a message is *)

\* The entries that carry message m.
Pieces(m) == IF Parts(m) = 0 THEN 1 ELSE Parts(m)

\* The write cursor of m's producer has passed part k of m.
Written(m, k) ==
  IF m.kind = "request" THEN k < part[m.req]
  ELSE \/ m.n <= task[Request(m.req)].sent
       \/ m.n = task[Request(m.req)].sent + 1 /\ k < task[Request(m.req)].part

Started(m) == task[m].pc # "none"

\* Instance i has the whole of m: in an assembler that is complete, in
\* reassembledChan, or in the loop that waits for the semaphore.
AtAsm(i, m)  == asm[i][m].pc \in {"full", "put"}
AtOut(i, m)  == \E k \in DOMAIN out[i] : out[i][k] = m
AtHand(i, m) == loop[i] = "acquire" /\ Piece(m, 0) \in hand[i]
Has(i, m)    == AtAsm(i, m) \/ AtOut(i, m) \/ AtHand(i, m)

\* m has left the stream as a whole.
Gone(m) == Started(m) \/ \E i \in Inst : Has(i, m)

-----------------------------------------------------------------------------
(* The inductive invariant *)

\* A producer that still writes has parts left.
Cursors ==
  /\ \A r \in Req : call[r] \in {"idle", "sending"} => part[r] < Pieces(Request(r))
  /\ \A m \in Msg : ~Started(m) => task[m].sent = 0 /\ task[m].part = 0
  /\ \A r \in Req : task[Request(r)].part < Pieces(Reply(r, 1))

\* An entry e that waits in stream s was written, is in no assembler, and its
\* message has not left.
Waits(s, e) ==
  /\ Dest(e.msg) = s
  /\ e.part < Pieces(e.msg)
  /\ Written(e.msg, e.part)
  /\ ~Gone(e.msg)
  /\ \A i \in Inst : e.part \notin asm[i][e.msg].got

\* Every entry is in its stream once.
StreamOnce ==
  \A s \in Stream :
    /\ \A k \in DOMAIN stream[s] : Waits(s, stream[s][k])
    /\ \A k, l \in DOMAIN stream[s] : stream[s][k] = stream[s][l] => k = l

\* An assembler holds parts that were written; a complete one holds them all.
AsmOnce ==
  \A i \in Inst, m \in Msg :
    /\ asm[i][m].got # {} => Parts(m) > 0 /\ Home[i] = Dest(m)
    /\ \A k \in asm[i][m].got : k < Parts(m) /\ Written(m, k)
    /\ AtAsm(i, m) => Parts(m) > 0 /\ 0 .. Parts(m) - 1 = asm[i][m].got

\* A whole message is in one place, has no goroutine yet, and nothing of it
\* remains to be written.
WholeOnce ==
  /\ \A m \in Msg : Gone(m) => \A k \in 0 .. Pieces(m) - 1 : Written(m, k)
  /\ \A i \in Inst, m \in Msg : Has(i, m) => ~Started(m) /\ Home[i] = Dest(m)
  /\ \A i, j \in Inst, m \in Msg : Has(i, m) /\ Has(j, m) => i = j
  /\ \A i \in Inst, m \in Msg : AtAsm(i, m) => ~AtOut(i, m) /\ ~AtHand(i, m)
  /\ \A i \in Inst, m \in Msg : AtHand(i, m) => ~AtOut(i, m)
  /\ \A i \in Inst : \A k, l \in DOMAIN out[i] : out[i][k] = out[i][l] => k = l

\* What the loop holds: a whole message that is no ping before the semaphore,
\* an expired entry or a shard before the acknowledgement.
HandOnce ==
  /\ \A i \in Inst : loop[i] = "acquire" =>
       \E m \in Msg : hand[i] = {Piece(m, 0)} /\ ~IsPing(m)
  /\ \A i \in Inst : \A k \in DOMAIN out[i] : Parts(out[i][k]) > 0
  /\ \A i \in Inst : loop[i] = "ack" =>
       \A e \in hand[i] : IsExpired(e.msg) \/ Parts(e.msg) > 0

\* A goroutine runs where its message was addressed; a ping never gives back
\* a place of the semaphore.
TaskOnce ==
  \A m \in Msg : /\ Started(m) => Home[task[m].at] = Dest(m)
                 /\ IsPing(m) => task[m].pc # "free"

DeliveryInv == Cursors /\ StreamOnce /\ AsmOnce /\ WholeOnce /\ HandOnce /\ TaskOnce

-----------------------------------------------------------------------------
(* Facts about one state *)

\* Numbers the steps below compute with.
LEMMA Sizes ==
  ASSUME TypeOK
  PROVE  /\ \A m \in Msg : Parts(m) \in Nat /\ Pieces(m) \in Nat \ {0} /\ Dest(m) \in Stream
         /\ \A m \in Msg : Request(m.req) \in Msg /\ m.req \in Req /\ m.n \in Nat
         /\ \A m \in Msg : task[m] \in TaskType
         /\ \A m \in Msg : task[m].sent \in Nat /\ task[m].part \in Nat
         /\ \A m \in Msg : IsPing(m) => Parts(m) = 0
         /\ \A i \in Inst, m \in Msg : asm[i][m].got \subseteq Nat
         /\ \A s \in Stream : stream[s] \in Seq(Entry)
         /\ \A s \in Stream : \A k \in DOMAIN stream[s] : stream[s][k] \in Entry
<1>1. \A m \in Msg : m.req \in Req /\ m.n \in Nat /\ Request(m.req) \in Msg
  BY ConstantsAssumption DEF Msg, Request
<1>2. \A m \in Msg : Parts(m) \in Nat /\ Dest(m) \in Stream
  BY <1>1, ConstantsAssumption DEF Parts, Dest
<1>3. \A m \in Msg : Pieces(m) \in Nat \ {0}
  BY <1>2 DEF Pieces
<1>4. \A m \in Msg : task[m] \in TaskType
  BY DEF TypeOK, TaskType
<1>5. \A m \in Msg : task[m].sent \in Nat /\ task[m].part \in Nat
  BY <1>4, ConstantsAssumption DEF TaskType
<1>6. \A m \in Msg : IsPing(m) => Parts(m) = 0
  BY <1>1, ConstantsAssumption DEF IsPing, Parts
<1>7. \A i \in Inst, m \in Msg : asm[i][m].got \subseteq Nat
  BY DEF TypeOK
<1>8. \A s \in Stream : stream[s] \in Seq(Entry)
  BY DEF TypeOK
<1>9. \A s \in Stream : \A k \in DOMAIN stream[s] : stream[s][k] \in Entry
  BY <1>8
<1> QED BY <1>1, <1>2, <1>3, <1>4, <1>5, <1>6, <1>7, <1>8, <1>9

LEMMA DeliveryInit == Init => DeliveryInv
<1> SUFFICES ASSUME Init PROVE DeliveryInv
  OBVIOUS
<1>0. TypeOK
  BY TypeInit
<1>1. \A m \in Msg : task[m].pc = "none" /\ task[m].sent = 0 /\ task[m].part = 0
  BY DEF Init, NoTask
<1>2. \A i \in Inst, m \in Msg : asm[i][m].pc = "none" /\ asm[i][m].got = {}
  BY DEF Init, NoAssembler
<1>3. \A i \in Inst : out[i] = <<>> /\ loop[i] = "off"
  BY DEF Init
<1>4. \A i \in Inst, m \in Msg : ~AtAsm(i, m) /\ ~AtOut(i, m) /\ ~AtHand(i, m) /\ ~Has(i, m)
  BY <1>2, <1>3 DEF AtAsm, AtOut, AtHand, Has
<1>5. \A m \in Msg : ~Started(m) /\ ~Gone(m)
  BY <1>1, <1>4 DEF Started, Gone
<1>6. Cursors
  <2>1. \A r \in Req : Request(r) \in Msg /\ Pieces(Request(r)) \in Nat \ {0}
    BY <1>0, Sizes DEF Request, Msg
  <2>2. \A r \in Req : Pieces(Reply(r, 1)) \in Nat \ {0}
    BY ConstantsAssumption DEF Pieces, Parts, Reply
  <2> QED BY <1>1, <2>1, <2>2 DEF Cursors, Init
<1>7. StreamOnce
  BY DEF Init, StreamOnce
<1>8. AsmOnce
  BY <1>2, <1>4 DEF AsmOnce
<1>9. WholeOnce
  BY <1>3, <1>4, <1>5 DEF WholeOnce
<1>10. HandOnce
  BY <1>3 DEF HandOnce
<1>11. TaskOnce
  BY <1>1, <1>5 DEF TaskOnce
<1> QED BY <1>6, <1>7, <1>8, <1>9, <1>10, <1>11 DEF DeliveryInv

-----------------------------------------------------------------------------
(* Steps that move no message: a stream or reassembledChan is left alone or  *)
(* emptied, an assembler is left alone, deleted or handed to its goroutine,  *)
(* goroutines only advance, and a loop does not reach the semaphore.         *)

LEMMA Calm ==
  ASSUME TypeOK, TypeOK', DeliveryInv,
         \A s \in Stream : stream'[s] = stream[s] \/ stream'[s] = <<>>,
         part' = part,
         \A r \in Req : call'[r] \in {"idle", "sending"} => call[r] \in {"idle", "sending"},
         \A m \in Msg : /\ task'[m].pc = "none" <=> task[m].pc = "none"
                        /\ task'[m].sent = task[m].sent /\ task'[m].part = task[m].part
                        /\ task'[m].at = task[m].at
                        /\ IsPing(m) => task'[m].pc # "free",
         \A i \in Inst, m \in Msg :
            \/ asm'[i][m] = asm[i][m]
            \/ asm'[i][m] = NoAssembler
            \/ asm'[i][m].got = asm[i][m].got /\ AtAsm(i, m),
         \A i \in Inst : out'[i] = out[i] \/ out'[i] = <<>>,
         \A i \in Inst : loop'[i] \in {"acquire", "ack"} =>
                           loop'[i] = loop[i] /\ hand'[i] = hand[i],
         expired \subseteq expired'
  PROVE  DeliveryInv'
<1> USE DEF DeliveryInv
<1>1. \A m \in Msg : Started(m)' <=> Started(m)
  BY DEF Started
<1>2. \A m \in Msg, k \in Nat : Written(m, k)' <=> Written(m, k)
  BY Sizes DEF Written, Request
<1>3. \A i \in Inst, m \in Msg : AtAsm(i, m)' => AtAsm(i, m) /\ asm'[i][m].got = asm[i][m].got
  BY DEF AtAsm, NoAssembler
<1>4. \A i \in Inst, m \in Msg : AtOut(i, m)' => AtOut(i, m)
  BY DEF AtOut
<1>5. \A i \in Inst, m \in Msg : AtHand(i, m)' => AtHand(i, m)
  BY DEF AtHand, Piece
<1>6. \A i \in Inst, m \in Msg : Has(i, m)' => Has(i, m)
  BY <1>3, <1>4, <1>5 DEF Has
<1>7. \A m \in Msg : Gone(m)' => Gone(m)
  BY <1>1, <1>6 DEF Gone
<1>8. \A i \in Inst, m \in Msg : asm'[i][m].got = asm[i][m].got \/ asm'[i][m].got = {}
  BY DEF NoAssembler
<1>9. Cursors'
  <2>1. \A r \in Req : Request(r) \in Msg
    BY DEF Request, Msg
  <2> QED BY <1>1, <2>1 DEF Cursors, Pieces, Parts, Request, Reply
<1>10. StreamOnce'
  <2>1. ASSUME NEW s \in Stream, NEW e \in Entry, Waits(s, e) PROVE Waits(s, e)'
    <3>1. e.msg \in Msg /\ e.part \in Nat
      BY DEF Entry
    <3> QED BY <1>2, <1>7, <1>8, <2>1, <3>1 DEF Waits, Dest, Pieces, Parts
  <2>2. \A s \in Stream : \A k \in DOMAIN stream[s] : stream[s][k] \in Entry
    BY Sizes
  <2> QED BY <2>1, <2>2 DEF StreamOnce
<1>11. AsmOnce'
  <2>1. \A i \in Inst, m \in Msg : \A k \in asm[i][m].got : k \in Nat
    BY Sizes
  <2> QED BY <1>2, <1>3, <1>8, <2>1 DEF AsmOnce, Parts, Dest
<1>12. WholeOnce'
  <2>1. \A m \in Msg : Pieces(m) \in Nat
    BY Sizes
  <2>2. \A m \in Msg : Gone(m)' => \A k \in 0 .. Pieces(m) - 1 : Written(m, k)'
    BY <1>2, <1>7, <2>1 DEF WholeOnce
  <2>3. \A i \in Inst, m \in Msg : Has(i, m)' => ~Started(m)' /\ Home[i] = Dest(m)
    BY <1>1, <1>6 DEF WholeOnce
  <2>4. \A i, j \in Inst, m \in Msg : Has(i, m)' /\ Has(j, m)' => i = j
    BY <1>6 DEF WholeOnce
  <2>5. /\ \A i \in Inst, m \in Msg : AtAsm(i, m)' => ~AtOut(i, m)' /\ ~AtHand(i, m)'
        /\ \A i \in Inst, m \in Msg : AtHand(i, m)' => ~AtOut(i, m)'
    BY <1>3, <1>4, <1>5 DEF WholeOnce
  <2>6. \A i \in Inst : \A k, l \in DOMAIN out'[i] : out'[i][k] = out'[i][l] => k = l
    BY DEF WholeOnce
  <2> QED BY <2>2, <2>3, <2>4, <2>5, <2>6 DEF WholeOnce, Pieces, Parts, Dest
<1>13. HandOnce'
  <2>1. \A m : IsExpired(m) => IsExpired(m)'
    BY DEF IsExpired, HasDeadline
  <2> QED BY <2>1 DEF HandOnce, Piece, IsPing, Parts
<1>14. TaskOnce'
  BY <1>1 DEF TaskOnce, Dest, IsPing
<1> QED BY <1>9, <1>10, <1>11, <1>12, <1>13, <1>14

-----------------------------------------------------------------------------
(* Steps that write: the cursor passes the part that is added.              *)

LEMMA Writes ==
  ASSUME TypeOK, TypeOK', DeliveryInv, Cursors', TaskOnce',
         NEW e \in Entry,
         Add(e) \/ stream' = stream,
         e.part < Pieces(e.msg),
         ~Written(e.msg, e.part),
         Add(e) => Written(e.msg, e.part)',
         \A m \in Msg, k \in Nat : Written(m, k) => Written(m, k)',
         \A m \in Msg : Started(m)' <=> Started(m),
         UNCHANGED <<asm, out, loop, hand, expired>>
  PROVE  DeliveryInv'
<1> USE DEF DeliveryInv
<1>1. e.msg \in Msg /\ e.part \in Nat
  BY DEF Entry
<1>2. \A i \in Inst, m \in Msg : /\ AtAsm(i, m)' <=> AtAsm(i, m)
                                 /\ AtOut(i, m)' <=> AtOut(i, m)
                                 /\ AtHand(i, m)' <=> AtHand(i, m)
  BY DEF AtAsm, AtOut, AtHand, Piece
<1>3. \A i \in Inst, m \in Msg : Has(i, m)' <=> Has(i, m)
  BY <1>2 DEF Has
<1>4. \A m \in Msg : Gone(m)' <=> Gone(m)
  BY <1>3 DEF Gone
<1>5. \A m \in Msg : Parts(m) \in Nat /\ Pieces(m) \in Nat \ {0}
  BY Sizes
<1>6. ~Gone(e.msg)
  BY <1>1, <1>5 DEF WholeOnce
<1>7. \A i \in Inst : e.part \notin asm[i][e.msg].got
  BY <1>1 DEF AsmOnce
<1>8. StreamOnce'
  <2>1. ASSUME NEW s \in Stream, NEW x \in Entry, Waits(s, x) PROVE Waits(s, x)'
    <3>1. x.msg \in Msg /\ x.part \in Nat
      BY DEF Entry
    <3> QED BY <1>4, <2>1, <3>1 DEF Waits, Dest, Pieces, Parts
  <2>2. \A s \in Stream : \A k \in DOMAIN stream[s] : stream[s][k] \in Entry /\ stream[s][k] # e
    BY DEF TypeOK, StreamOnce, Waits
  <2>3. CASE stream' = stream
    BY <2>1, <2>2, <2>3 DEF StreamOnce
  <2>4. CASE Add(e)
    <3> DEFINE d == Dest(e.msg)
    <3>1. Waits(d, e)'
      BY <1>1, <1>4, <1>6, <1>7, <2>4 DEF Waits, Dest, Pieces, Parts
    <3>2. d \in Stream /\ stream[d] \in Seq(Entry)
      BY <1>1, Sizes DEF TypeOK
    <3>3. stream' = [stream EXCEPT ![d] = Append(stream[d], e)]
      BY <2>4 DEF Add
    <3> HIDE DEF d
    <3>4. /\ stream'[d] = Append(stream[d], e)
          /\ \A s \in Stream : s # d => stream'[s] = stream[s]
      BY <3>2, <3>3 DEF TypeOK
    <3>5. \A k \in DOMAIN stream'[d] :
            \/ k \in DOMAIN stream[d] /\ stream'[d][k] = stream[d][k]
            \/ k = Len(stream[d]) + 1 /\ stream'[d][k] = e
      BY <3>2, <3>4
    <3>6. \A k \in DOMAIN stream'[d] : Waits(d, stream[d][k])'
      BY <2>1, <2>2, <3>1, <3>2, <3>5 DEF StreamOnce
    <3>7. \A k, l \in DOMAIN stream'[d] : stream'[d][k] = stream'[d][l] => k = l
      BY <2>2, <3>2, <3>5 DEF StreamOnce
    <3>8. ASSUME NEW s \in Stream, s # d
          PROVE  /\ \A k \in DOMAIN stream'[s] : Waits(s, stream[s][k])'
                 /\ \A k, l \in DOMAIN stream'[s] : stream'[s][k] = stream'[s][l] => k = l
      BY <2>1, <2>2, <3>4, <3>8 DEF StreamOnce
    <3> QED BY <3>6, <3>7, <3>8 DEF StreamOnce
  <2> QED BY <2>3, <2>4
<1>9. AsmOnce'
  <2>1. \A i \in Inst, m \in Msg : \A k \in asm[i][m].got : k \in Nat
    BY Sizes
  <2> QED BY <1>2, <2>1 DEF AsmOnce, Parts, Dest
<1>10. WholeOnce'
  <2>1. \A m \in Msg : Gone(m)' => \A k \in 0 .. Pieces(m) - 1 : Written(m, k)'
    BY <1>4, <1>5 DEF WholeOnce
  <2>2. \A i \in Inst, m \in Msg : Has(i, m)' => ~Started(m)' /\ Home[i] = Dest(m)
    BY <1>3 DEF WholeOnce
  <2>3. \A i, j \in Inst, m \in Msg : Has(i, m)' /\ Has(j, m)' => i = j
    BY <1>3 DEF WholeOnce
  <2>4. /\ \A i \in Inst, m \in Msg : AtAsm(i, m)' => ~AtOut(i, m)' /\ ~AtHand(i, m)'
        /\ \A i \in Inst, m \in Msg : AtHand(i, m)' => ~AtOut(i, m)'
    BY <1>2 DEF WholeOnce
  <2> QED BY <2>1, <2>2, <2>3, <2>4 DEF WholeOnce, Pieces, Parts, Dest
<1>11. HandOnce'
  BY DEF HandOnce, Piece, IsPing, Parts, IsExpired, HasDeadline
<1> QED BY <1>8, <1>9, <1>10, <1>11

\* The producer of a request.
LEMMA RequestWrites ==
  ASSUME TypeOK, TypeOK', DeliveryInv, NEW r \in Req, WritePart(r) \/ WriteFails(r)
  PROVE  DeliveryInv'
<1> USE DEF DeliveryInv
<1>1. /\ Request(r) \in Msg /\ Request(r).kind = "request" /\ Request(r).req = r
      /\ part[r] \in Nat
      /\ part \in [Req -> Nat]
      /\ call \in [Req -> {"idle", "sending", "waiting", "leaving", "returned"}]
      /\ call[r] = "sending"
  BY DEF Request, Msg, TypeOK, WritePart, WriteFails
<1>2. PICK e \in Entry : e = Piece(Request(r), part[r])
  BY <1>1 DEF Piece, Entry
<1>14. e.msg = Request(r) /\ e.part = part[r]
  BY <1>2 DEF Piece
<1>3. UNCHANGED <<asm, out, loop, hand, expired, task>>
  BY DEF WritePart, WriteFails, proc
<1>4. part' = part \/ part' = [part EXCEPT ![r] = @ + 1]
  BY DEF WritePart, WriteFails
<1>5. \/ Add(e) /\ part' = [part EXCEPT ![r] = @ + 1]
      \/ stream' = stream /\ part' = part
  BY <1>2 DEF WritePart, WriteFails
<1>6. Cursors'
  <2>0. Parts(Request(r)) \in Nat
    BY <1>1, Sizes
  <2>1. /\ \A q \in Req : q # r => part'[q] = part[q] /\ call'[q] = call[q]
        /\ call'[r] \in {"idle", "sending"} => part'[r] < Pieces(Request(r))
    BY <1>1, <1>4, <2>0 DEF WritePart, WriteFails, LastPart, Pieces
  <2>2. \A q \in Req : Pieces(Request(q)) = Pieces(Request(q))'
    BY DEF Pieces, Parts
  <2>3. \A q \in Req : call'[q] \in {"idle", "sending"} => part'[q] < Pieces(Request(q))
    BY <1>1, <2>1 DEF Cursors
  <2> QED BY <1>3, <2>3 DEF Cursors, Started, Pieces, Parts, Request, Reply
<1>7. ~Written(e.msg, e.part)
  BY <1>1, <1>14 DEF Written
<1>8. Add(e) => Written(e.msg, e.part)'
  <2>1. ASSUME Add(e), stream' = stream PROVE FALSE
    <3>1. Dest(e.msg) \in Stream /\ stream[Dest(e.msg)] \in Seq(Entry)
      BY <1>1, <1>14, Sizes DEF TypeOK
    <3>2. Append(stream[Dest(e.msg)], e) = stream[Dest(e.msg)]
      BY <2>1, <3>1 DEF Add, TypeOK
    <3>3. Len(Append(stream[Dest(e.msg)], e)) = Len(stream[Dest(e.msg)]) + 1
      BY <3>1
    <3> QED BY <3>1, <3>2, <3>3
  <2>2. part' = [part EXCEPT ![r] = @ + 1] => Written(e.msg, e.part)'
    BY <1>1, <1>14 DEF Written
  <2> QED BY <1>5, <2>1, <2>2
<1>9. \A m \in Msg, k \in Nat : Written(m, k) => Written(m, k)'
  <2>1. \A q \in Req : part[q] \in Nat /\ part'[q] \in Nat /\ part[q] <= part'[q]
    BY <1>1, <1>4
  <2> QED BY <1>3, <2>1, Sizes DEF Written, Request
<1>10. \A m \in Msg : Started(m)' <=> Started(m)
  BY <1>3 DEF Started
<1>11. TaskOnce'
  BY <1>3 DEF TaskOnce, Started, Dest, IsPing
<1>12. e.part < Pieces(e.msg)
  BY <1>1, <1>14 DEF Cursors
<1>13. Add(e) \/ stream' = stream
  BY <1>5
<1> QED BY <1>2, <1>3, <1>6, <1>7, <1>8, <1>9, <1>10, <1>11, <1>12, <1>13, Writes

\* The producer of a reply: the goroutine of its request.
LEMMA ReplyWrites ==
  ASSUME TypeOK, TypeOK', DeliveryInv, CallShape,
         NEW m \in Msg, RunReply(m) \/ RunReplyFails(m)
  PROVE  DeliveryInv'
<1> USE DEF DeliveryInv
<1> DEFINE t == task[m]
<1>1. t.pc = "run" /\ t.sent < t.plan /\ m.kind = "request" /\ m = Request(m.req)
  BY DEF RunReply, RunReplyFails, CallShape, Msg, Request
<1>2. t.sent \in Nat /\ t.part \in Nat /\ m.req \in Req
  BY Sizes DEF t
<1>3. Reply(m.req, t.sent + 1) \in Msg
  BY <1>1, ReplyType
<1>4. PICK e \in Entry : e = Piece(Reply(m.req, t.sent + 1), t.part)
  BY <1>2, <1>3 DEF Piece, Entry
<1>5. /\ e.msg \in Msg /\ e.part = t.part
      /\ e.msg.kind = "response" /\ e.msg.req = m.req /\ e.msg.n = t.sent + 1
  BY <1>3, <1>4 DEF Piece, Reply
<1>6. UNCHANGED <<asm, out, loop, hand, expired, part, call>>
  BY DEF RunReply, RunReplyFails, proc, callers
<1>7. /\ \A x \in Msg : x # m => task'[x] = task[x]
      /\ task'[m].pc = t.pc /\ task'[m].at = t.at
      /\ \/ task'[m].sent = t.sent + 1 /\ task'[m].part = 0
         \/ /\ task'[m].sent = t.sent /\ task'[m].part = t.part + 1
            /\ t.part + 1 < Parts(Reply(m.req, t.sent + 1))
  <2>1. task \in [Msg -> TaskType]
    BY DEF TypeOK, TaskType
  <2>2. Parts(Reply(m.req, t.sent + 1)) \in Nat
    BY <1>3, Sizes
  <2>3. t \in TaskType
    BY <2>1
  <2>4. \/ task' = [task EXCEPT ![m] = [t EXCEPT !.sent = @ + 1, !.part = 0]]
        \/ /\ ~LastPart(Reply(m.req, t.sent + 1), t.part)
           /\ task' = [task EXCEPT ![m] = [t EXCEPT !.part = @ + 1]]
    BY DEF RunReply, RunReplyFails
  <2>5. \A x \in Msg : x # m => task'[x] = task[x]
    BY <2>1, <2>4
  <2>6. \/ task'[m] = [t EXCEPT !.sent = @ + 1, !.part = 0]
        \/ /\ t.part + 1 < Parts(Reply(m.req, t.sent + 1))
           /\ task'[m] = [t EXCEPT !.part = @ + 1]
    BY <1>2, <2>1, <2>2, <2>4 DEF LastPart
  <2> QED BY <2>3, <2>5, <2>6 DEF TaskType
<1>8. Add(e) \/ stream' = stream
  BY <1>4 DEF RunReply, RunReplyFails
<1>9. Pieces(Reply(m.req, t.sent + 1)) = Pieces(Reply(m.req, 1)) /\ Pieces(e.msg) = Pieces(Reply(m.req, 1))
  BY <1>5 DEF Pieces, Parts, Reply
<1> HIDE DEF t
<1>10. Cursors'
  <2>1. \A r \in Req : task'[Request(r)].part < Pieces(Reply(r, 1))
    <3>1. \A r \in Req : /\ Request(r) \in Msg /\ Request(r).req = r
                         /\ Pieces(Reply(r, 1)) \in Nat \ {0}
      BY ConstantsAssumption DEF Request, Msg, Pieces, Parts, Reply
    <3>0. Parts(Reply(m.req, t.sent + 1)) \in Nat
      BY <1>3, Sizes
    <3>2. t.part + 1 < Parts(Reply(m.req, t.sent + 1)) => t.part + 1 < Pieces(Reply(m.req, 1))
      BY <1>2, <1>9, <3>0 DEF Pieces
    <3>3. task'[m].part < Pieces(Reply(m.req, 1))
      BY <1>2, <1>7, <3>1, <3>2 DEF t
    <3> QED BY <1>1, <1>7, <3>1, <3>3 DEF Cursors
  <2>2. \A x \in Msg : ~Started(x)' => task'[x].sent = 0 /\ task'[x].part = 0
    BY <1>1, <1>7 DEF Cursors, Started
  <2> QED BY <1>6, <2>1, <2>2 DEF Cursors, Started, Pieces, Parts, Request, Reply
<1>11. e.part < Pieces(e.msg)
  BY <1>1, <1>2, <1>5, <1>9 DEF Cursors, t
<1>12. ~Written(e.msg, e.part)
  BY <1>1, <1>2, <1>5 DEF Written, t
<1>13. Written(e.msg, e.part)'
  BY <1>1, <1>2, <1>5, <1>7 DEF Written, t, Request
<1>14. \A x \in Msg, k \in Nat : Written(x, k) => Written(x, k)'
  <2> SUFFICES ASSUME NEW x \in Msg, NEW k \in Nat, Written(x, k) PROVE Written(x, k)'
    OBVIOUS
  <2>1. CASE x.kind = "request"
    BY <1>6, <2>1 DEF Written
  <2>2. CASE x.kind # "request" /\ Request(x.req) # m
    BY <1>7, <2>2, Sizes DEF Written, Request
  <2>3. CASE x.kind # "request" /\ Request(x.req) = m
    <3>1. x.n \in Nat
      BY Sizes
    <3> QED BY <1>2, <1>7, <2>3, <3>1 DEF Written, Request, t
  <2> QED BY <2>1, <2>2, <2>3
<1>15. \A x \in Msg : Started(x)' <=> Started(x)
  BY <1>7 DEF Started, t
<1>16. TaskOnce'
  BY <1>1, <1>7, <1>15 DEF TaskOnce, Dest, IsPing, t
<1> QED BY <1>6, <1>8, <1>10, <1>11, <1>12, <1>13, <1>14, <1>15, <1>16, Writes

-----------------------------------------------------------------------------
(* Steps that move a message                                                *)

\* An assembler sends its message to reassembledChan.
LEMMA AsmPutMoves ==
  ASSUME TypeOK, TypeOK', DeliveryInv, NEW i \in Inst, NEW m \in Msg, AsmPut(i, m)
  PROVE  DeliveryInv'
<1> USE DEF DeliveryInv
<1>1. UNCHANGED <<stream, part, call, task, loop, hand, expired>>
  BY DEF AsmPut, redis, callers
<1>2. out[i] \in Seq(Msg) /\ out'[i] = Append(out[i], m)
  BY DEF AsmPut, TypeOK
<1>3. \A j \in Inst : j # i => out'[j] = out[j]
  BY DEF AsmPut, TypeOK
<1>4. /\ \A j \in Inst, x \in Msg : <<j, x>> # <<i, m>> => asm'[j][x] = asm[j][x]
      /\ asm'[i][m] = NoAssembler
  BY DEF AsmPut, TypeOK
<1>5. \A k \in DOMAIN out'[i] :
        \/ k \in DOMAIN out[i] /\ out'[i][k] = out[i][k]
        \/ k = Len(out[i]) + 1 /\ out'[i][k] = m
  BY <1>2
<1>6. AtAsm(i, m) /\ Has(i, m)
  BY DEF AsmPut, AtAsm, Has
<1>7. ~AtOut(i, m) /\ ~AtHand(i, m) /\ Parts(m) > 0
  BY <1>6 DEF WholeOnce, AsmOnce
<1>8. \A j \in Inst, x \in Msg :
        /\ AtAsm(j, x)' => AtAsm(j, x) /\ <<j, x>> # <<i, m>>
        /\ AtOut(j, x)' => AtOut(j, x) \/ (j = i /\ x = m)
        /\ AtHand(j, x)' => AtHand(j, x)
        /\ Has(j, x)' => Has(j, x)
  <2>1. \A j \in Inst, x \in Msg : AtAsm(j, x)' => AtAsm(j, x) /\ <<j, x>> # <<i, m>>
    BY <1>4 DEF AtAsm, NoAssembler
  <2>2. \A j \in Inst, x \in Msg : AtOut(j, x)' => AtOut(j, x) \/ (j = i /\ x = m)
    BY <1>3, <1>5 DEF AtOut
  <2>3. \A j \in Inst, x \in Msg : AtHand(j, x)' => AtHand(j, x)
    BY <1>1 DEF AtHand, Piece
  <2> QED BY <1>6, <2>1, <2>2, <2>3 DEF Has
<1>9. \A x \in Msg : Started(x)' <=> Started(x)
  BY <1>1 DEF Started
<1>10. \A x \in Msg : Gone(x)' => Gone(x)
  BY <1>8, <1>9 DEF Gone
<1>11. \A x \in Msg, k \in Nat : Written(x, k)' <=> Written(x, k)
  BY <1>1 DEF Written, Request
<1>12. \A j \in Inst, x \in Msg : asm'[j][x].got = asm[j][x].got \/ asm'[j][x].got = {}
  BY <1>4 DEF NoAssembler
<1>13. Cursors'
  BY <1>1 DEF Cursors, Started, Pieces, Parts, Request, Reply
<1>14. StreamOnce'
  <2>1. ASSUME NEW s \in Stream, NEW e \in Entry, Waits(s, e) PROVE Waits(s, e)'
    <3>1. e.msg \in Msg /\ e.part \in Nat
      BY DEF Entry
    <3> QED BY <1>10, <1>11, <1>12, <2>1, <3>1 DEF Waits, Dest, Pieces, Parts
  <2>2. \A s \in Stream : \A k \in DOMAIN stream[s] : stream[s][k] \in Entry
    BY Sizes
  <2> QED BY <1>1, <2>1, <2>2 DEF StreamOnce
<1>15. AsmOnce'
  <2>1. \A j \in Inst, x \in Msg : \A k \in asm[j][x].got : k \in Nat
    BY Sizes
  <2> QED BY <1>4, <1>8, <1>11, <1>12, <2>1 DEF AsmOnce, Parts, Dest
<1>16. WholeOnce'
  <2>1. \A x \in Msg : Pieces(x) \in Nat
    BY Sizes
  <2>2. \A x \in Msg : Gone(x)' => \A k \in 0 .. Pieces(x) - 1 : Written(x, k)'
    BY <1>10, <1>11, <2>1 DEF WholeOnce
  <2>3. \A j \in Inst, x \in Msg : Has(j, x)' => ~Started(x)' /\ Home[j] = Dest(x)
    BY <1>8, <1>9 DEF WholeOnce
  <2>4. \A j, l \in Inst, x \in Msg : Has(j, x)' /\ Has(l, x)' => j = l
    BY <1>8 DEF WholeOnce
  <2>5. \A j \in Inst, x \in Msg : AtAsm(j, x)' => ~AtOut(j, x)' /\ ~AtHand(j, x)'
    BY <1>8 DEF WholeOnce
  <2>6. \A j \in Inst, x \in Msg : AtHand(j, x)' => ~AtOut(j, x)'
    BY <1>7, <1>8 DEF WholeOnce
  <2>7. \A j \in Inst : \A k, l \in DOMAIN out'[j] : out'[j][k] = out'[j][l] => k = l
    <3>1. \A k, l \in DOMAIN out'[i] : out'[i][k] = out'[i][l] => k = l
      BY <1>5, <1>7 DEF WholeOnce, AtOut
    <3> QED BY <1>3, <3>1 DEF WholeOnce
  <2> QED BY <2>2, <2>3, <2>4, <2>5, <2>6, <2>7 DEF WholeOnce, Pieces, Parts, Dest
<1>17. HandOnce'
  <2>1. \A j \in Inst : \A k \in DOMAIN out'[j] : Parts(out'[j][k]) > 0
    BY <1>3, <1>5, <1>7 DEF HandOnce
  <2> QED BY <1>1, <2>1 DEF HandOnce, Piece, IsPing, IsExpired, HasDeadline, Parts
<1>18. TaskOnce'
  BY <1>1 DEF TaskOnce, Started, Dest, IsPing
<1> QED BY <1>13, <1>14, <1>15, <1>16, <1>17, <1>18

\* The loop takes a message from reassembledChan.
LEMMA PollMoves ==
  ASSUME TypeOK, TypeOK', DeliveryInv, NEW i \in Inst, PollReassembled(i)
  PROVE  DeliveryInv'
<1> USE DEF DeliveryInv
<1>1. UNCHANGED <<stream, part, call, task, asm, expired>>
  BY DEF PollReassembled, redis, callers
<1>2. out[i] \in Seq(Msg) /\ out[i] # <<>>
  BY DEF PollReassembled, TypeOK
<1>3. PICK m \in Msg : m = Head(out[i]) /\ 1 \in DOMAIN out[i] /\ m = out[i][1]
  BY <1>2
<1>4. /\ out'[i] = Tail(out[i])
      /\ \A j \in Inst : j # i => out'[j] = out[j]
  BY DEF PollReassembled, TypeOK
<1>5. \A k \in DOMAIN out'[i] :
        /\ k \in Nat \ {0} /\ k + 1 \in DOMAIN out[i]
        /\ out'[i][k] = out[i][k + 1]
  BY <1>2, <1>4
<1>6. /\ hand'[i] = {Piece(m, 0)} /\ loop[i] = "poll" /\ loop'[i] = "acquire"
      /\ \A j \in Inst : j # i => hand'[j] = hand[j] /\ loop'[j] = loop[j]
  BY <1>3 DEF PollReassembled, TypeOK
<1>7. AtOut(i, m) /\ Has(i, m) /\ ~AtAsm(i, m) /\ Parts(m) > 0
  BY <1>3 DEF AtOut, Has, WholeOnce, HandOnce
<1>8. \A k \in DOMAIN out'[i] : out'[i][k] # m
  <2> SUFFICES ASSUME NEW k \in DOMAIN out'[i], out'[i][k] = m PROVE FALSE
    OBVIOUS
  <2>1. k + 1 = 1
    BY <1>3, <1>5 DEF WholeOnce
  <2> QED BY <1>5, <2>1
<1>9. \A j \in Inst, x \in Msg :
        /\ AtAsm(j, x)' => AtAsm(j, x)
        /\ AtOut(j, x)' => AtOut(j, x) /\ <<j, x>> # <<i, m>>
        /\ AtHand(j, x)' => (AtHand(j, x) /\ j # i) \/ (j = i /\ x = m)
        /\ Has(j, x)' => Has(j, x)
  <2>1. \A j \in Inst, x \in Msg : AtAsm(j, x)' => AtAsm(j, x)
    BY <1>1 DEF AtAsm
  <2>2. \A j \in Inst, x \in Msg : AtOut(j, x)' => AtOut(j, x) /\ <<j, x>> # <<i, m>>
    BY <1>4, <1>5, <1>8 DEF AtOut
  <2>3. \A j \in Inst, x \in Msg : AtHand(j, x)' => (AtHand(j, x) /\ j # i) \/ (j = i /\ x = m)
    BY <1>6 DEF AtHand, Piece
  <2> QED BY <1>7, <2>1, <2>2, <2>3 DEF Has
<1>10. \A x \in Msg : (Started(x)' <=> Started(x)) /\ (Gone(x)' => Gone(x))
  BY <1>1, <1>9 DEF Gone, Started
<1>11. \A x \in Msg, k \in Nat : Written(x, k)' <=> Written(x, k)
  BY <1>1 DEF Written, Request
<1>12. Cursors'
  BY <1>1 DEF Cursors, Started, Pieces, Parts, Request, Reply
<1>13. StreamOnce'
  <2>1. ASSUME NEW s \in Stream, NEW e \in Entry, Waits(s, e) PROVE Waits(s, e)'
    <3>1. e.msg \in Msg /\ e.part \in Nat
      BY DEF Entry
    <3> QED BY <1>1, <1>10, <1>11, <2>1, <3>1 DEF Waits, Dest, Pieces, Parts
  <2>2. \A s \in Stream : \A k \in DOMAIN stream[s] : stream[s][k] \in Entry
    BY Sizes
  <2> QED BY <1>1, <2>1, <2>2 DEF StreamOnce
<1>14. AsmOnce'
  <2>1. \A j \in Inst, x \in Msg : \A k \in asm[j][x].got : k \in Nat
    BY Sizes
  <2> QED BY <1>1, <1>9, <1>11, <2>1 DEF AsmOnce, Parts, Dest
<1>15. WholeOnce'
  <2>1. \A x \in Msg : Pieces(x) \in Nat
    BY Sizes
  <2>2. \A x \in Msg : Gone(x)' => \A k \in 0 .. Pieces(x) - 1 : Written(x, k)'
    BY <1>10, <1>11, <2>1 DEF WholeOnce
  <2>3. \A j \in Inst, x \in Msg : Has(j, x)' => ~Started(x)' /\ Home[j] = Dest(x)
    BY <1>9, <1>10 DEF WholeOnce
  <2>4. \A j, l \in Inst, x \in Msg : Has(j, x)' /\ Has(l, x)' => j = l
    BY <1>9 DEF WholeOnce
  <2>5. \A j \in Inst, x \in Msg : AtAsm(j, x)' => ~AtOut(j, x)' /\ ~AtHand(j, x)'
    BY <1>7, <1>9 DEF WholeOnce
  <2>6. \A j \in Inst, x \in Msg : AtHand(j, x)' => ~AtOut(j, x)'
    BY <1>9 DEF WholeOnce
  <2>7. \A j \in Inst : \A k, l \in DOMAIN out'[j] : out'[j][k] = out'[j][l] => k = l
    <3>1. \A k, l \in DOMAIN out'[i] : out'[i][k] = out'[i][l] => k + 1 = l + 1
      BY <1>5 DEF WholeOnce
    <3>2. \A k, l \in DOMAIN out'[i] : out'[i][k] = out'[i][l] => k = l
      BY <1>5, <3>1
    <3> QED BY <1>4, <3>2 DEF WholeOnce
  <2> QED BY <2>2, <2>3, <2>4, <2>5, <2>6, <2>7 DEF WholeOnce, Pieces, Parts, Dest
<1>16. HandOnce'
  <2>1. ~IsPing(m)
    BY <1>7, Sizes
  <2>2. \A j \in Inst : \A k \in DOMAIN out'[j] : Parts(out'[j][k]) > 0
    BY <1>4, <1>5 DEF HandOnce
  <2>3. \A j \in Inst : loop'[j] = "acquire" =>
          \E x \in Msg : hand'[j] = {Piece(x, 0)} /\ ~IsPing(x)
    BY <1>6, <2>1 DEF HandOnce
  <2>4. \A j \in Inst : loop'[j] = "ack" =>
          \A e \in hand'[j] : IsExpired(e.msg) \/ Parts(e.msg) > 0
    BY <1>6 DEF HandOnce
  <2> QED BY <1>1, <2>2, <2>3, <2>4 DEF HandOnce, Piece, IsPing, IsExpired, HasDeadline, Parts
<1>17. TaskOnce'
  BY <1>1 DEF TaskOnce, Started, Dest, IsPing
<1> QED BY <1>12, <1>13, <1>14, <1>15, <1>16, <1>17

\* Starting the goroutine of a message that had none.
LEMMA SpawnEffect ==
  ASSUME TypeOK, Cursors, NEW i \in Inst, NEW m \in Msg, Spawn(i, m), ~Started(m), part' = part
  PROVE  /\ \A x \in Msg : x # m => task'[x] = task[x]
         /\ Started(m)' /\ task'[m].at = i /\ task'[m].pc \in {"run", "lookup"}
         /\ \A x \in Msg : task'[x].sent = task[x].sent /\ task'[x].part = task[x].part
         /\ \A x \in Msg, k \in Nat : Written(x, k)' <=> Written(x, k)
<1>1. task \in [Msg -> TaskType]
  BY DEF TypeOK, TaskType
<1>2. /\ \A x \in Msg : x # m => task'[x] = task[x]
      /\ task'[m].at = i /\ task'[m].pc \in {"run", "lookup"}
      /\ task'[m].sent = 0 /\ task'[m].part = 0
  BY <1>1 DEF Spawn
<1>3. Started(m)'
  BY <1>2 DEF Started
<1>4. \A x \in Msg : task'[x].sent = task[x].sent /\ task'[x].part = task[x].part
  BY <1>2 DEF Cursors
<1>5. \A x \in Msg, k \in Nat : Written(x, k)' <=> Written(x, k)
  BY <1>4, Sizes DEF Written, Request
<1> QED BY <1>2, <1>3, <1>4, <1>5

\* The loop gets its place of the semaphore and starts the goroutine.
LEMMA AcquireMoves ==
  ASSUME TypeOK, TypeOK', DeliveryInv, NEW i \in Inst, Acquire(i)
  PROVE  DeliveryInv'
<1> USE DEF DeliveryInv
<1>1. UNCHANGED <<stream, part, call, out, asm, expired>>
  BY DEF Acquire, redis, callers
<1>2. PICK m \in Msg : hand[i] = {Piece(m, 0)} /\ ~IsPing(m)
  BY DEF Acquire, HandOnce
<1>3. AtHand(i, m) /\ Has(i, m) /\ Spawn(i, m)
  BY <1>2 DEF Acquire, AtHand, Has, Piece
<1>4. ~Started(m) /\ Home[i] = Dest(m)
  BY <1>3 DEF WholeOnce
<1>5. /\ \A x \in Msg : x # m => task'[x] = task[x]
      /\ Started(m)' /\ task'[m].at = i /\ task'[m].pc \in {"run", "lookup"}
      /\ \A x \in Msg : task'[x].sent = task[x].sent /\ task'[x].part = task[x].part
      /\ \A x \in Msg, k \in Nat : Written(x, k)' <=> Written(x, k)
  BY <1>1, <1>3, <1>4, SpawnEffect
<1>6. /\ hand'[i] = {} /\ loop'[i] = "poll"
      /\ \A j \in Inst : j # i => hand'[j] = hand[j] /\ loop'[j] = loop[j]
  BY DEF Acquire, TypeOK
<1>7. \A j \in Inst, x \in Msg :
        /\ AtAsm(j, x)' => AtAsm(j, x)
        /\ AtOut(j, x)' => AtOut(j, x)
        /\ AtHand(j, x)' => AtHand(j, x) /\ j # i
        /\ Has(j, x)' => Has(j, x) /\ x # m
  <2>1. \A j \in Inst, x \in Msg : AtAsm(j, x)' => AtAsm(j, x)
    BY <1>1 DEF AtAsm
  <2>2. \A j \in Inst, x \in Msg : AtOut(j, x)' => AtOut(j, x)
    BY <1>1 DEF AtOut
  <2>3. \A j \in Inst, x \in Msg : AtHand(j, x)' => AtHand(j, x) /\ j # i
    BY <1>6 DEF AtHand, Piece
  <2>4. \A j \in Inst, x \in Msg : Has(j, x)' => Has(j, x)
    BY <2>1, <2>2, <2>3 DEF Has
  <2>5. \A j \in Inst : ~Has(j, m)'
    BY <1>3, <2>1, <2>2, <2>3, <2>4 DEF WholeOnce, Has
  <2> QED BY <2>1, <2>2, <2>3, <2>4, <2>5
<1>8. \A x \in Msg : /\ Started(x)' <=> Started(x) \/ x = m
                     /\ Gone(x)' => Gone(x)
  <2>1. \A x \in Msg : Started(x)' <=> Started(x) \/ x = m
    BY <1>5 DEF Started
  <2> QED BY <1>3, <1>7, <2>1 DEF Gone
<1>9. Cursors'
  <2>1. \A x \in Msg : ~Started(x)' => task'[x].sent = 0 /\ task'[x].part = 0
    BY <1>5, <1>8 DEF Cursors
  <2>2. \A r \in Req : Request(r) \in Msg
    BY DEF Request, Msg
  <2> QED BY <1>1, <1>5, <2>1, <2>2 DEF Cursors, Pieces, Parts, Request, Reply
<1>10. StreamOnce'
  <2>1. ASSUME NEW s \in Stream, NEW e \in Entry, Waits(s, e) PROVE Waits(s, e)'
    <3>1. e.msg \in Msg /\ e.part \in Nat
      BY DEF Entry
    <3> QED BY <1>1, <1>5, <1>8, <2>1, <3>1 DEF Waits, Dest, Pieces, Parts
  <2>2. \A s \in Stream : \A k \in DOMAIN stream[s] : stream[s][k] \in Entry
    BY Sizes
  <2> QED BY <1>1, <2>1, <2>2 DEF StreamOnce
<1>11. AsmOnce'
  <2>1. \A j \in Inst, x \in Msg : \A k \in asm[j][x].got : k \in Nat
    BY Sizes
  <2> QED BY <1>1, <1>5, <1>7, <2>1 DEF AsmOnce, Parts, Dest
<1>12. WholeOnce'
  <2>1. \A x \in Msg : Pieces(x) \in Nat
    BY Sizes
  <2>2. \A x \in Msg : Gone(x)' => \A k \in 0 .. Pieces(x) - 1 : Written(x, k)'
    BY <1>5, <1>8, <2>1 DEF WholeOnce
  <2>3. \A j \in Inst, x \in Msg : Has(j, x)' => ~Started(x)' /\ Home[j] = Dest(x)
    BY <1>7, <1>8 DEF WholeOnce
  <2>4. \A j, l \in Inst, x \in Msg : Has(j, x)' /\ Has(l, x)' => j = l
    BY <1>7 DEF WholeOnce
  <2>5. /\ \A j \in Inst, x \in Msg : AtAsm(j, x)' => ~AtOut(j, x)' /\ ~AtHand(j, x)'
        /\ \A j \in Inst, x \in Msg : AtHand(j, x)' => ~AtOut(j, x)'
    BY <1>7 DEF WholeOnce
  <2> QED BY <1>1, <2>2, <2>3, <2>4, <2>5 DEF WholeOnce, Pieces, Parts, Dest
<1>13. HandOnce'
  BY <1>1, <1>6 DEF HandOnce, Piece, IsPing, IsExpired, HasDeadline, Parts
<1>14. TaskOnce'
  BY <1>2, <1>4, <1>5, <1>8 DEF TaskOnce, Dest, IsPing
<1> QED BY <1>9, <1>10, <1>11, <1>12, <1>13, <1>14

\* As many different shards as there are shards are all of them.
LEMMA AllShards ==
  ASSUME NEW n \in Nat, NEW S \in SUBSET (0 .. n - 1), Cardinality(S) = n
  PROVE  S = 0 .. n - 1
<1>1. IsFiniteSet(0 .. n - 1) /\ Cardinality(0 .. n - 1) = n
  <2>1. 0 \in Int /\ n - 1 \in Int
    OBVIOUS
  <2>2. /\ IsFiniteSet(0 .. n - 1)
        /\ Cardinality(0 .. n - 1) = IF 0 > n - 1 THEN 0 ELSE n - 1 - 0 + 1
    BY <2>1, FS_Interval
  <2> QED BY <2>2
<1> QED BY <1>1, FS_Subset

\* What is left of a stream after its head was read.
LEMMA ReadEntry ==
  ASSUME TypeOK, StreamOnce, NEW i \in Inst, Read(i)
  PROVE  /\ Head(stream[Home[i]]) \in Entry
         /\ Waits(Home[i], Head(stream[Home[i]]))
         /\ \A s \in Stream : \A k \in DOMAIN stream'[s] :
              /\ stream'[s][k] \in Entry /\ stream'[s][k] # Head(stream[Home[i]])
              /\ Waits(s, stream'[s][k])
         /\ \A s \in Stream : \A k, l \in DOMAIN stream'[s] :
              stream'[s][k] = stream'[s][l] => k = l
<1> DEFINE H == Home[i]
           e == Head(stream[H])
<1>1. H \in Stream /\ stream[H] \in Seq(Entry) /\ stream[H] # <<>>
  BY ConstantsAssumption DEF Read, TypeOK
<1>2. e \in Entry /\ 1 \in DOMAIN stream[H] /\ e = stream[H][1]
  BY <1>1
<1>3. stream'[H] = Tail(stream[H]) /\ \A s \in Stream : s # H => stream'[s] = stream[s]
  BY <1>1 DEF Read, TypeOK
<1>4. \A k \in DOMAIN stream'[H] : /\ k \in Nat \ {0} /\ k + 1 \in DOMAIN stream[H]
                                   /\ stream'[H][k] = stream[H][k + 1]
  BY <1>1, <1>3
<1>5. Waits(H, e)
  BY <1>1, <1>2 DEF StreamOnce
<1> HIDE DEF e, H
<1>6. \A s \in Stream : \A k \in DOMAIN stream[s] : stream[s][k] \in Entry
  BY Sizes
<1>7. ASSUME NEW k \in DOMAIN stream'[H]
      PROVE  stream'[H][k] \in Entry /\ stream'[H][k] # e /\ Waits(H, stream'[H][k])
  <2>1. stream[H][k + 1] # e
    <3>1. stream[H][k + 1] = stream[H][1] => k + 1 = 1
      BY <1>1, <1>2, <1>4 DEF StreamOnce
    <3> QED BY <1>2, <1>4, <3>1
  <2> QED BY <1>1, <1>4, <1>6, <2>1 DEF StreamOnce
<1>8. \A k, l \in DOMAIN stream'[H] : stream'[H][k] = stream'[H][l] => k = l
  <2>1. \A k, l \in DOMAIN stream'[H] : stream'[H][k] = stream'[H][l] => k + 1 = l + 1
    BY <1>1, <1>4 DEF StreamOnce
  <2> QED BY <1>4, <2>1
<1>9. ASSUME NEW s \in Stream, s # H, NEW k \in DOMAIN stream'[s]
      PROVE  stream'[s][k] \in Entry /\ stream'[s][k] # e /\ Waits(s, stream'[s][k])
  <2>1. Waits(s, stream[s][k])
    BY <1>3, <1>9 DEF StreamOnce
  <2>2. stream[s][k] # e
    BY <1>5, <1>9, <2>1 DEF Waits
  <2> QED BY <1>3, <1>6, <1>9, <2>1, <2>2
<1>10. \A s \in Stream : s # H =>
         \A k, l \in DOMAIN stream'[s] : stream'[s][k] = stream'[s][l] => k = l
  BY <1>3 DEF StreamOnce
<1> QED BY <1>2, <1>5, <1>7, <1>8, <1>9, <1>10 DEF e, H

\* What a step of the loop does with the entry e of message m it read: nothing,
\* a goroutine for a ping, a part for the assembler, or a wait for the semaphore.
ReadOutcome(i, e, m) ==
  /\ \A j \in Inst, x \in Msg :
       \/ asm'[j][x] = asm[j][x]
       \/ /\ j = i /\ x = m /\ Parts(m) > 0
          /\ asm'[i][m].got = asm[i][m].got \cup {e.part}
          /\ AtAsm(i, m)' => asm'[i][m].got = 0 .. Parts(m) - 1
  /\ \A x \in Msg : x # m => task'[x] = task[x]
  /\ Started(m)' => /\ task'[m].at = i /\ task'[m].pc \in {"run", "lookup"}
                    /\ Parts(m) = 0 /\ loop'[i] # "acquire"
  /\ \A x \in Msg : task'[x].sent = task[x].sent /\ task'[x].part = task[x].part
  /\ \A x \in Msg, k \in Nat : Written(x, k)' <=> Written(x, k)
  /\ loop'[i] = "acquire" => hand'[i] = {Piece(m, 0)} /\ ~IsPing(m) /\ Parts(m) = 0
  /\ loop'[i] = "ack" => hand'[i] = {e} /\ (IsExpired(m) \/ Parts(m) > 0)
  /\ \A j \in Inst : j # i => loop'[j] = loop[j] /\ hand'[j] = hand[j]

\* The four ways of the loop with the entry it read.
LEMMA ReadEffect ==
  ASSUME TypeOK, TypeOK', DeliveryInv, NEW i \in Inst, Read(i),
         NEW e \in Entry, e = Head(stream[Home[i]]), NEW m \in Msg, m = e.msg
  PROVE  ReadOutcome(i, e, m)
<1> USE DEF DeliveryInv, ReadOutcome
<1>1. UNCHANGED <<part, call, out>>
  BY DEF Read, callers
<1>2. Waits(Home[i], e)
  BY ReadEntry
<1>3. ~Started(m) /\ ~AtAsm(i, m) /\ e.part < Pieces(m) /\ e.part \in Nat /\ Parts(m) \in Nat
  BY <1>2, Sizes DEF Waits, Gone, Has, Entry
<1>4. \A j \in Inst : j # i => loop'[j] = loop[j] /\ hand'[j] = hand[j]
  BY DEF Read, TypeOK
<1>5. /\ task' = task => \A x \in Msg : task'[x].sent = task[x].sent /\ task'[x].part = task[x].part
      /\ task' = task => \A x \in Msg, k \in Nat : Written(x, k)' <=> Written(x, k)
      /\ task' = task => ~Started(m)'
  BY <1>1, <1>3 DEF Written, Started
<1>6. CASE /\ IsExpired(m) /\ loop' = [loop EXCEPT ![i] = "ack"]
           /\ hand' = [hand EXCEPT ![i] = {e}] /\ UNCHANGED <<asm, task>>
  <2>1. loop'[i] = "ack" /\ hand'[i] = {e}
    BY <1>6 DEF TypeOK
  <2> QED BY <1>4, <1>5, <1>6, <2>1
<1>7. CASE /\ IsPing(m) /\ Spawn(i, m) /\ loop' = [loop EXCEPT ![i] = "poll"]
           /\ UNCHANGED <<hand, asm>>
  <2>1. loop'[i] = "poll" /\ Parts(m) = 0
    BY <1>7, Sizes DEF TypeOK
  <2> QED BY <1>1, <1>3, <1>4, <1>7, <2>1, SpawnEffect
<1>8. CASE /\ Parts(m) > 0 /\ AddShard(i, e) /\ loop' = [loop EXCEPT ![i] = "ack"]
           /\ hand' = [hand EXCEPT ![i] = {e}] /\ UNCHANGED task
  <2>1. loop'[i] = "ack" /\ hand'[i] = {e}
    BY <1>8 DEF TypeOK
  <2> DEFINE got == asm[i][m].got \cup {e.part}
             new == [pc |-> IF Cardinality(got) = Parts(m) THEN "full" ELSE "wait", got |-> got]
  <2>2. asm' = [asm EXCEPT ![i][m] = new]
    BY <1>8 DEF AddShard
  <2>3. /\ asm'[i][m] = new
        /\ \A j \in Inst, x \in Msg : j # i \/ x # m => asm'[j][x] = asm[j][x]
    <3> HIDE DEF new
    <3>1. asm \in [Inst -> [Msg -> AsmType]]
      BY DEF TypeOK, AsmType
    <3> QED BY <2>2, <3>1
  <2>4. asm'[i][m].got = got /\ (AtAsm(i, m)' => Cardinality(got) = Parts(m))
    BY <2>3 DEF AtAsm
  <2>5. got \in SUBSET (0 .. Parts(m) - 1)
    <3>1. \A k \in asm[i][m].got : k \in Nat /\ k < Parts(m)
      BY Sizes DEF AsmOnce
    <3>2. e.part < Parts(m)
      BY <1>3, <1>8 DEF Pieces
    <3> QED BY <1>3, <3>1, <3>2
  <2> HIDE DEF got
  <2>6. AtAsm(i, m)' => got = 0 .. Parts(m) - 1
    BY <1>3, <2>4, <2>5, AllShards
  <2> QED BY <1>4, <1>5, <1>8, <2>1, <2>3, <2>4, <2>6 DEF got
<1>9. CASE /\ ~IsPing(m) /\ Parts(m) = 0 /\ loop' = [loop EXCEPT ![i] = "acquire"]
           /\ hand' = [hand EXCEPT ![i] = {e}] /\ UNCHANGED <<asm, task>>
  <2>1. loop'[i] = "acquire" /\ hand'[i] = {e}
    BY <1>9 DEF TypeOK
  <2>2. e = Piece(m, 0)
    BY <1>3, <1>9 DEF Pieces, Piece, Entry
  <2> QED BY <1>4, <1>5, <1>9, <2>1, <2>2
<1> QED BY <1>6, <1>7, <1>8, <1>9 DEF Read

\* The loop reads the next entry of its stream.
LEMMA ReadMoves ==
  ASSUME TypeOK, TypeOK', DeliveryInv, NEW i \in Inst, Read(i)
  PROVE  DeliveryInv'
<1>1. PICK e \in Entry : e = Head(stream[Home[i]])
  BY ReadEntry DEF DeliveryInv
<1>2. PICK m \in Msg : m = e.msg
  BY DEF Entry
<1>0. ReadOutcome(i, e, m)
  BY <1>1, <1>2, ReadEffect
<1>3. /\ \A j \in Inst, x \in Msg :
           \/ asm'[j][x] = asm[j][x]
           \/ /\ j = i /\ x = m /\ Parts(m) > 0
              /\ asm'[i][m].got = asm[i][m].got \cup {e.part}
              /\ AtAsm(i, m)' => asm'[i][m].got = 0 .. Parts(m) - 1
      /\ \A x \in Msg : x # m => task'[x] = task[x]
      /\ Started(m)' => /\ task'[m].at = i /\ task'[m].pc \in {"run", "lookup"}
                        /\ Parts(m) = 0 /\ loop'[i] # "acquire"
      /\ \A x \in Msg : task'[x].sent = task[x].sent /\ task'[x].part = task[x].part
      /\ \A x \in Msg, k \in Nat : Written(x, k)' <=> Written(x, k)
      /\ loop'[i] = "acquire" => hand'[i] = {Piece(m, 0)} /\ ~IsPing(m) /\ Parts(m) = 0
      /\ loop'[i] = "ack" => hand'[i] = {e} /\ (IsExpired(m) \/ Parts(m) > 0)
      /\ \A j \in Inst : j # i => loop'[j] = loop[j] /\ hand'[j] = hand[j]
  BY <1>0 DEF ReadOutcome
<1> USE DEF DeliveryInv
<1>6. UNCHANGED <<part, call, out, expired>>
  BY DEF Read, callers
<1>4. Waits(Home[i], e)
  BY <1>1, ReadEntry
<1>5. /\ ~Gone(m) /\ ~Started(m) /\ Home[i] = Dest(m) /\ e.part < Pieces(m) /\ Written(m, e.part)
      /\ e.part \in Nat /\ Parts(m) \in Nat
      /\ \A j \in Inst : ~Has(j, m) /\ ~AtAsm(j, m) /\ ~AtOut(j, m) /\ ~AtHand(j, m)
  BY <1>2, <1>4, Sizes DEF Waits, Gone, Has, Entry
<1> DEFINE Full == AtAsm(i, m)' /\ Parts(m) > 0 /\ asm'[i][m].got = 0 .. Parts(m) - 1
<1>7. \A j \in Inst, x \in Msg :
        /\ AtAsm(j, x)' => (AtAsm(j, x) /\ asm'[j][x] = asm[j][x]) \/ (j = i /\ x = m /\ Full)
        /\ AtOut(j, x)' <=> AtOut(j, x)
        /\ AtHand(j, x)' => AtHand(j, x) \/ (j = i /\ x = m /\ Parts(m) = 0 /\ ~Started(m)')
  <2>1. \A j \in Inst, x \in Msg :
          AtAsm(j, x)' => (AtAsm(j, x) /\ asm'[j][x] = asm[j][x]) \/ (j = i /\ x = m /\ Full)
    BY <1>3 DEF AtAsm
  <2>2. \A j \in Inst, x \in Msg : AtOut(j, x)' <=> AtOut(j, x)
    BY <1>6 DEF AtOut
  <2>3. \A j \in Inst, x \in Msg :
          AtHand(j, x)' => AtHand(j, x) \/ (j = i /\ x = m /\ Parts(m) = 0 /\ ~Started(m)')
    BY <1>3 DEF AtHand, Piece
  <2> QED BY <2>1, <2>2, <2>3
<1>8. ~Started(m)' \/ Parts(m) = 0
  BY <1>3
<1> DEFINE Left == Parts(m) = 0 \/ Full
<1>9. \A j \in Inst, x \in Msg : Has(j, x)' => Has(j, x) \/ (j = i /\ x = m /\ Left /\ ~Started(m)')
  BY <1>7, <1>8 DEF Has
<1>10. \A x \in Msg : Started(x)' => Started(x) \/ (x = m /\ Left)
  BY <1>3 DEF Started
<1>11. \A x \in Msg : Gone(x)' => Gone(x) \/ (x = m /\ Left)
  BY <1>9, <1>10 DEF Gone
<1>12. \A x \in Msg : Started(x) => Started(x)' /\ x # m /\ task'[x] = task[x]
  BY <1>5, <1>3 DEF Started
<1>13. Cursors'
  <2>1. \A x \in Msg : ~Started(x)' => task'[x].sent = 0 /\ task'[x].part = 0
    BY <1>3, <1>12 DEF Cursors
  <2>2. \A r \in Req : Request(r) \in Msg
    BY DEF Request, Msg
  <2> QED BY <1>6, <1>3, <2>1, <2>2 DEF Cursors, Pieces, Parts, Request, Reply
<1>14. StreamOnce'
  <2>1. ASSUME NEW s \in Stream, NEW x \in Entry, Waits(s, x), x # e
        PROVE  Waits(s, x)'
    <3>1. x.msg \in Msg /\ x.part \in Nat
      BY DEF Entry
    <3>2. x.msg = m => x.part # e.part
      BY <1>2, <2>1 DEF Entry
    <3>3. x.msg = m => ~Left
      BY <1>5, <1>3, <2>1, <3>1, <3>2 DEF Waits, Pieces
    <3>4. ~Gone(x.msg)'
      BY <1>11, <2>1, <3>1, <3>3 DEF Waits
    <3>5. \A j \in Inst : x.part \notin asm'[j][x.msg].got
      BY <1>3, <2>1, <3>1, <3>2 DEF Waits
    <3>6. Written(x.msg, x.part)'
      BY <1>3, <2>1, <3>1 DEF Waits
    <3> QED BY <2>1, <3>4, <3>5, <3>6 DEF Waits, Dest, Pieces, Parts
  <2>2. \A s \in Stream : \A k \in DOMAIN stream'[s] :
          /\ stream'[s][k] \in Entry /\ stream'[s][k] # e
          /\ Waits(s, stream'[s][k])
    BY <1>1, ReadEntry
  <2>3. \A s \in Stream : \A k, l \in DOMAIN stream'[s] : stream'[s][k] = stream'[s][l] => k = l
    BY ReadEntry
  <2> QED BY <2>1, <2>2, <2>3 DEF StreamOnce
<1>15. AsmOnce'
  <2>1. \A j \in Inst, x \in Msg : \A k \in asm[j][x].got : k \in Nat
    BY Sizes
  <2>2. \A j \in Inst, x \in Msg : asm'[j][x].got # {} => Parts(x) > 0 /\ Home[j] = Dest(x)
    BY <1>5, <1>3 DEF AsmOnce
  <2>3. \A j \in Inst, x \in Msg : \A k \in asm'[j][x].got : k < Parts(x) /\ Written(x, k)'
    BY <1>5, <1>3, <2>1 DEF AsmOnce, Pieces
  <2>4. \A j \in Inst, x \in Msg :
          AtAsm(j, x)' => Parts(x) > 0 /\ 0 .. Parts(x) - 1 = asm'[j][x].got
    BY <1>7 DEF AsmOnce
  <2> QED BY <2>2, <2>3, <2>4 DEF AsmOnce, Parts, Dest
<1>16. WholeOnce'
  <2>1. \A x \in Msg : Pieces(x) \in Nat
    BY Sizes
  <2>2. Left => \A k \in 0 .. Pieces(m) - 1 : Written(m, k)'
    <3>1. ASSUME Parts(m) = 0 PROVE \A k \in 0 .. Pieces(m) - 1 : Written(m, k)'
      <4>1. Pieces(m) = 1
        BY <3>1 DEF Pieces
      <4>2. \A k \in 0 .. Pieces(m) - 1 : k = e.part
        BY <1>5, <4>1
      <4> QED BY <1>5, <1>3, <4>2
    <3>2. ASSUME Full PROVE \A k \in 0 .. Pieces(m) - 1 : Written(m, k)'
      <4>1. \A k \in 0 .. Pieces(m) - 1 : k \in asm'[i][m].got
        BY <1>5, <3>2 DEF Pieces
      <4> QED BY <1>15, <4>1 DEF AsmOnce
    <3> QED BY <3>1, <3>2
  <2>3. \A x \in Msg : Gone(x)' => \A k \in 0 .. Pieces(x) - 1 : Written(x, k)'
    <3>1. ASSUME NEW x \in Msg, Gone(x) PROVE \A k \in 0 .. Pieces(x) - 1 : Written(x, k)'
      BY <1>3, <2>1, <3>1 DEF WholeOnce
    <3> QED BY <1>11, <2>2, <3>1
  <2>4. \A j \in Inst, x \in Msg : Has(j, x)' => ~Started(x)' /\ Home[j] = Dest(x)
    BY <1>5, <1>9, <1>10 DEF WholeOnce
  <2>5. \A j, l \in Inst, x \in Msg : Has(j, x)' /\ Has(l, x)' => j = l
    BY <1>5, <1>9 DEF WholeOnce
  <2>6. \A j \in Inst, x \in Msg : AtAsm(j, x)' => ~AtOut(j, x)' /\ ~AtHand(j, x)'
    BY <1>5, <1>7 DEF WholeOnce
  <2>7. \A j \in Inst, x \in Msg : AtHand(j, x)' => ~AtOut(j, x)'
    BY <1>5, <1>7 DEF WholeOnce
  <2> QED BY <1>6, <2>3, <2>4, <2>5, <2>6, <2>7 DEF WholeOnce, Pieces, Parts, Dest
<1>17. HandOnce'
  <2>1. \A j \in Inst : loop'[j] = "acquire" =>
          \E x \in Msg : hand'[j] = {Piece(x, 0)} /\ ~IsPing(x)
    BY <1>3 DEF HandOnce
  <2>2. \A j \in Inst : loop'[j] = "ack" =>
          \A x \in hand'[j] : IsExpired(x.msg) \/ Parts(x.msg) > 0
    BY <1>2, <1>3 DEF HandOnce
  <2> QED BY <1>6, <2>1, <2>2 DEF HandOnce, Piece, IsPing, IsExpired, HasDeadline, Parts
<1>18. TaskOnce'
  <2>1. \A x \in Msg : Started(x)' => Home[task'[x].at] = Dest(x)
    BY <1>5, <1>3, <1>10 DEF TaskOnce
  <2>2. \A x \in Msg : IsPing(x) => task'[x].pc # "free"
    BY <1>3 DEF TaskOnce, Started
  <2> QED BY <2>1, <2>2 DEF TaskOnce, Dest, IsPing
<1> QED BY <1>13, <1>14, <1>15, <1>16, <1>17, <1>18

-----------------------------------------------------------------------------
(* The invariant of delivery                                                *)

LEMMA DeliveryNext ==
  TypeOK /\ TypeOK' /\ CallShape /\ DeliveryInv /\ [Next]_vars => DeliveryInv'
<1> SUFFICES ASSUME TypeOK, TypeOK', CallShape, DeliveryInv, [Next]_vars PROVE DeliveryInv'
  OBVIOUS
<1> USE DEF redis, callers, proc
<1>1. task \in [Msg -> TaskType] /\ asm \in [Inst -> [Msg -> AsmType]]
  BY DEF TypeOK, TaskType, AsmType
<1>2. \A m \in Msg : IsPing(m) => task[m].pc # "free" /\ Parts(m) = 0
  BY Sizes DEF DeliveryInv, TaskOnce
<1>3. ASSUME NEW r \in Req, \/ DeadlinePasses(r) \/ Send(r) \/ TakeReply(r)
                            \/ TimeOut(r) \/ Unregister(r)
      PROVE  DeliveryInv'
  <2>1. UNCHANGED <<stream, part, task, asm, out, loop, hand>> /\ expired \subseteq expired'
    BY <1>3 DEF DeadlinePasses, Send, TakeReply, TimeOut, Unregister
  <2>2. \A q \in Req : call'[q] \in {"idle", "sending"} => call[q] \in {"idle", "sending"}
    BY <1>3 DEF DeadlinePasses, Send, TakeReply, TimeOut, Unregister, TypeOK
  <2> QED BY <1>2, <2>1, <2>2, Calm
<1>4. ASSUME NEW i \in Inst, Start(i) PROVE DeliveryInv'
  <2>1. UNCHANGED <<part, task, asm, out, hand, call, expired>>
    BY <1>4 DEF Start
  <2>2. \A s \in Stream : stream'[s] = stream[s] \/ stream'[s] = <<>>
    BY <1>4 DEF Start, TypeOK
  <2>3. \A j \in Inst : loop'[j] \in {"acquire", "ack"} => loop'[j] = loop[j] /\ hand'[j] = hand[j]
    BY <1>4 DEF Start, TypeOK
  <2> QED BY <1>2, <2>1, <2>2, <2>3, Calm
<1>5. ASSUME NEW i \in Inst, Crash(i) PROVE DeliveryInv'
  <2>1. UNCHANGED <<stream, part, expired>>
    BY <1>5 DEF Crash
  <2>2. \A q \in Req : call'[q] \in {"idle", "sending"} => call[q] \in {"idle", "sending"}
    BY <1>5 DEF Crash
  <2>3. \A m \in Msg : task'[m] = task[m] \/ (task[m].pc # "none" /\ task'[m] = [task[m] EXCEPT !.pc = "dead"])
    BY <1>5 DEF Crash
  <2>4. \A m \in Msg : /\ task'[m].pc = "none" <=> task[m].pc = "none"
                       /\ task'[m].sent = task[m].sent /\ task'[m].part = task[m].part
                       /\ task'[m].at = task[m].at
                       /\ IsPing(m) => task'[m].pc # "free"
    BY <1>1, <1>2, <2>3 DEF TaskType
  <2>5. \A j \in Inst, m \in Msg : asm'[j][m] = asm[j][m] \/ asm'[j][m] = NoAssembler
    BY <1>1, <1>5 DEF Crash
  <2>6. \A j \in Inst : out'[j] = out[j] \/ out'[j] = <<>>
    BY <1>5 DEF Crash, TypeOK
  <2>7. \A j \in Inst : loop'[j] \in {"acquire", "ack"} => loop'[j] = loop[j] /\ hand'[j] = hand[j]
    BY <1>5 DEF Crash, TypeOK
  <2> QED BY <2>1, <2>2, <2>4, <2>5, <2>6, <2>7, Calm
<1>6. ASSUME NEW i \in Inst, PollNothing(i) \/ ReadFails(i) \/ LoopAck(i) PROVE DeliveryInv'
  <2>1. UNCHANGED <<stream, part, task, asm, out, call, expired>>
    BY <1>6 DEF PollNothing, ReadFails, LoopAck
  <2>2. \A j \in Inst : loop'[j] \in {"acquire", "ack"} => loop'[j] = loop[j] /\ hand'[j] = hand[j]
    BY <1>6 DEF PollNothing, ReadFails, LoopAck, TypeOK
  <2> QED BY <1>2, <2>1, <2>2, Calm
<1>7. ASSUME NEW m \in Msg, RunEnd(m) \/ Lookup(m) \/ Deliver(m) \/ TaskAck(m) \/ Release(m)
      PROVE  DeliveryInv'
  <2>1. UNCHANGED <<stream, part, asm, out, loop, hand, call, expired>>
    BY <1>7 DEF RunEnd, Lookup, Deliver, TaskAck, Release
  <2>2. PICK q \in {"deliver", "ack", "free", "done"} :
          task' = [task EXCEPT ![m].pc = q] /\ (IsPing(m) => q # "free")
    BY <1>2, <1>7 DEF RunEnd, Lookup, Deliver, TaskAck, Release, Handled
  <2>3. task[m].pc # "none"
    BY <1>7 DEF RunEnd, Lookup, Deliver, TaskAck, Release
  <2>4. \A x \in Msg : /\ task'[x].pc = "none" <=> task[x].pc = "none"
                       /\ task'[x].sent = task[x].sent /\ task'[x].part = task[x].part
                       /\ task'[x].at = task[x].at
                       /\ IsPing(x) => task'[x].pc # "free"
    BY <1>1, <1>2, <2>2, <2>3 DEF TaskType
  <2> QED BY <2>1, <2>4, Calm
<1>8. ASSUME NEW i \in Inst, NEW m \in Msg, AsmTake(i, m) \/ AsmTimeout(i, m) PROVE DeliveryInv'
  <2>1. UNCHANGED <<stream, part, task, out, loop, hand, call, expired>>
    BY <1>8 DEF AsmTake, AsmTimeout
  <2>2. \A j \in Inst, x \in Msg :
          \/ asm'[j][x] = asm[j][x]
          \/ asm'[j][x] = NoAssembler
          \/ asm'[j][x].got = asm[j][x].got /\ AtAsm(j, x)
    <3>1. CASE AsmTake(i, m)
      <4>1. asm' = [asm EXCEPT ![i][m].pc = "put"] /\ asm[i][m].pc = "full"
        BY <3>1 DEF AsmTake
      <4>2. /\ \A j \in Inst, x \in Msg : j # i \/ x # m => asm'[j][x] = asm[j][x]
            /\ asm'[i][m] = [asm[i][m] EXCEPT !.pc = "put"]
        BY <1>1, <4>1
      <4>3. asm'[i][m].got = asm[i][m].got
        BY <1>1, <4>2 DEF AsmType
      <4> QED BY <4>1, <4>2, <4>3 DEF AtAsm
    <3>2. CASE AsmTimeout(i, m)
      BY <1>1, <3>2 DEF AsmTimeout
    <3> QED BY <1>8, <3>1, <3>2
  <2> QED BY <1>2, <2>1, <2>2, Calm
<1>9. CASE UNCHANGED vars
  BY <1>2, <1>9, Calm DEF vars
<1> QED
  BY <1>3, <1>4, <1>5, <1>6, <1>7, <1>8, <1>9, RequestWrites, ReplyWrites, PollMoves,
     ReadMoves, AcquireMoves, AsmPutMoves
     DEF Next, CallStep, LoopStep, TaskStep, AsmStep

LEMMA DeliveryInvariant == Spec => [](RefInv /\ DeliveryInv)
<1>1. RefInv /\ RefInv' /\ DeliveryInv /\ [Next]_vars => DeliveryInv'
  BY DeliveryNext DEF RefInv
<1> QED BY <1>1, DeliveryInit, RefInvInvariant, PTL DEF Spec

-----------------------------------------------------------------------------
(* At most once                                                             *)

LEMMA OnePlace ==
  ASSUME TypeOK, DeliveryInv, NEW m \in Msg
  PROVE  /\ \A x, y \in Pending(m) : x = y
         /\ Started(m) => Pending(m) = {}
<1> USE DEF DeliveryInv
<1> DEFINE InStream(x) == \E k \in DOMAIN stream[Dest(m)] :
                            /\ Parts(m) = 0 /\ stream[Dest(m)][k].msg = m
                            /\ x = <<"stream", Dest(m), k>>
           InHand(x)   == \E i \in Inst : AtHand(i, m) /\ x = <<"hand", i, 0>>
           InOut(x)    == \E i \in Inst : \E k \in DOMAIN out[i] :
                            out[i][k] = m /\ x = <<"out", i, k>>
           InAsm(x)    == \E i \in Inst : AtAsm(i, m) /\ x = <<"asm", i, 0>>
<1>1. \A x \in Pending(m) : InStream(x) \/ InHand(x) \/ InOut(x) \/ InAsm(x)
  <2> SUFFICES ASSUME NEW x \in Pending(m) PROVE InStream(x) \/ InHand(x) \/ InOut(x) \/ InAsm(x)
    OBVIOUS
  <2> DEFINE S == {<<"stream", s, k>> : s \in {Dest(m)}, k \in {k \in DOMAIN stream[Dest(m)] :
                     Parts(m) = 0 /\ stream[Dest(m)][k].msg = m}}
             H == {<<"hand", i, 0>> : i \in {i \in Inst : loop[i] = "acquire" /\ Piece(m, 0) \in hand[i]}}
             O == UNION {{<<"out", i, k>> : k \in {k \in DOMAIN out[i] : out[i][k] = m}} : i \in Inst}
             A == {<<"asm", i, 0>> : i \in {i \in Inst : asm[i][m].pc \in {"full", "put"}}}
  <2>1. Pending(m) = S \cup H \cup O \cup A
    BY DEF Pending
  <2>2. x \in S => InStream(x)
    OBVIOUS
  <2>3. x \in H => InHand(x)
    BY DEF AtHand
  <2>4. x \in O => InOut(x)
    OBVIOUS
  <2>5. x \in A => InAsm(x)
    BY DEF AtAsm
  <2> HIDE DEF S, H, O, A, InStream, InHand, InOut, InAsm
  <2> QED BY <2>1, <2>2, <2>3, <2>4, <2>5
<1>2. \A k \in DOMAIN stream[Dest(m)] :
        stream[Dest(m)][k].msg = m =>
          /\ ~Gone(m)
          /\ Parts(m) = 0 => stream[Dest(m)][k] = Piece(m, 0)
  <2> SUFFICES ASSUME NEW k \in DOMAIN stream[Dest(m)], stream[Dest(m)][k].msg = m
               PROVE  /\ ~Gone(m)
                      /\ Parts(m) = 0 => stream[Dest(m)][k] = Piece(m, 0)
    OBVIOUS
  <2> DEFINE e == stream[Dest(m)][k]
  <2>1. Dest(m) \in Stream /\ e \in Entry
    BY Sizes
  <2>2. Waits(Dest(m), e)
    BY <2>1 DEF StreamOnce
  <2>3. e.part \in Nat /\ e = [msg |-> m, part |-> e.part]
    BY <2>1 DEF Entry
  <2>4. Parts(m) = 0 => e.part = 0
    BY <2>2, <2>3 DEF Waits, Pieces
  <2> QED BY <2>2, <2>3, <2>4 DEF Waits, Piece
<1>3. \A k, l \in DOMAIN stream[Dest(m)] :
        Parts(m) = 0 /\ stream[Dest(m)][k].msg = m /\ stream[Dest(m)][l].msg = m => k = l
  <2>1. Dest(m) \in Stream
    BY Sizes
  <2> QED BY <1>2, <2>1 DEF StreamOnce
<1>4. \A x : InStream(x) => ~Gone(m)
  BY <1>2
<1>5. \A x : InHand(x) \/ InOut(x) \/ InAsm(x) => \E i \in Inst : Has(i, m)
  BY DEF Has, AtOut
<1>6. \A x, y : InStream(x) /\ InStream(y) => x = y
  BY <1>3
<1>7. \A x, y : InHand(x) /\ InHand(y) => x = y
  BY DEF WholeOnce, Has
<1>8. \A x, y : InAsm(x) /\ InAsm(y) => x = y
  BY DEF WholeOnce, Has
<1>9. \A x, y : InOut(x) /\ InOut(y) => x = y
  <2> SUFFICES ASSUME NEW x, NEW y, InOut(x), InOut(y) PROVE x = y
    OBVIOUS
  <2>1. PICK i \in Inst : \E k \in DOMAIN out[i] : out[i][k] = m /\ x = <<"out", i, k>>
    OBVIOUS
  <2>2. PICK j \in Inst : \E k \in DOMAIN out[j] : out[j][k] = m /\ y = <<"out", j, k>>
    OBVIOUS
  <2>3. i = j
    BY <2>1, <2>2 DEF WholeOnce, Has, AtOut
  <2> QED BY <2>1, <2>2, <2>3 DEF WholeOnce
<1>10. \A x, y : /\ ~(InHand(x) /\ InOut(y))
                 /\ ~(InHand(x) /\ InAsm(y))
                 /\ ~(InOut(x) /\ InAsm(y))
  BY DEF WholeOnce, Has, AtOut
<1>11. \A x, y : InStream(x) => ~InHand(y) /\ ~InOut(y) /\ ~InAsm(y)
  BY <1>4, <1>5 DEF Gone
<1>12. Started(m) => \A x : ~InStream(x) /\ ~InHand(x) /\ ~InOut(x) /\ ~InAsm(x)
  BY <1>4, <1>5 DEF Gone, WholeOnce
<1> HIDE DEF InStream, InHand, InOut, InAsm
<1> QED BY <1>1, <1>6, <1>7, <1>8, <1>9, <1>10, <1>11, <1>12

\* No message is handled twice, whatever instances share its stream, however
\* it was sharded and whichever processes crash and start again.
THEOREM HandledAtMostOnce == Spec => []AtMostOnce
<1>1. TypeOK /\ DeliveryInv => AtMostOnce
  <2> SUFFICES ASSUME TypeOK, DeliveryInv, NEW m \in Msg
               PROVE  Cardinality(Pending(m)) + (IF task[m].pc = "none" THEN 0 ELSE 1) <= 1
    BY DEF AtMostOnce
  <2>1. CASE Pending(m) = {}
    BY <2>1, FS_EmptySet
  <2>2. CASE Pending(m) # {}
    <3>1. PICK x : x \in Pending(m)
      BY <2>2
    <3>2. Pending(m) = {x}
      BY <3>1, OnePlace
    <3>3. Cardinality(Pending(m)) = 1
      BY <3>2, FS_Singleton
    <3>4. task[m].pc = "none"
      BY <2>2, OnePlace DEF Started
    <3> QED BY <3>3, <3>4
  <2> QED BY <2>1, <2>2
<1>2. RefInv /\ DeliveryInv => AtMostOnce
  BY <1>1 DEF RefInv
<1> QED BY <1>2, DeliveryInvariant, PTL

-----------------------------------------------------------------------------
(* The semaphore                                                            *)

LEMMA MsgFinite == IsFiniteSet(Msg)
<1> DEFINE K == {"request", "response"}
           N == 0 .. MaxReplies
           T == K \X (Req \X N)
           f == [m \in Msg |-> <<m.kind, <<m.req, m.n>>>>]
<1>1. IsFiniteSet(K)
  <2>1. IsFiniteSet({"request"})
    BY FS_Singleton
  <2>2. IsFiniteSet({"request"} \cup {"response"})
    BY <2>1, FS_AddElement
  <2>3. K = {"request"} \cup {"response"}
    OBVIOUS
  <2> QED BY <2>2, <2>3
<1>2. IsFiniteSet(N)
  BY FS_Interval, ConstantsAssumption
<1>3. IsFiniteSet(T)
  BY <1>1, <1>2, FS_Product, ConstantsAssumption
<1>4. \A m \in Msg : <<m.kind, <<m.req, m.n>>>> \in T
  BY ConstantsAssumption DEF Msg
<1>5. \A m, x \in Msg : m.kind = x.kind /\ m.req = x.req /\ m.n = x.n => m = x
  BY DEF Msg
<1>6. f \in Injection(Msg, T)
  BY <1>4, <1>5 DEF Injection, IsInjective
<1> QED BY <1>3, <1>6, FS_Injection

\* The places of the semaphores change hands one at a time.
LEMMA SemaphoreStep ==
  ASSUME RefInv, RefInv', DeliveryInv, SemaphoreAccounting, [Next]_vars
  PROVE  SemaphoreAccounting'
<1> USE DEF redis, callers, proc
<1>0. TypeOK /\ CallShape
  BY DEF RefInv
<1>1. /\ task \in [Msg -> TaskType] /\ sem \in [Inst -> Int]
      /\ \A i \in Inst : sem[i] = Cardinality(Holders(i))
      /\ \A i \in Inst : IsFiniteSet(Holders(i))
  <2>1. \A i \in Inst : Holders(i) \in SUBSET Msg
    BY DEF Holders
  <2> QED BY <1>0, <2>1, MsgFinite, FS_Subset DEF TypeOK, TaskType, SemaphoreAccounting
\* Nothing changes when every goroutine keeps its place.
<1>2. ASSUME sem' = sem,
             \A m \in Msg : ~IsPing(m) => /\ Active(m)' <=> Active(m)
                                          /\ Active(m) => task'[m].at = task[m].at
      PROVE  SemaphoreAccounting'
  <2>1. \A i \in Inst : Holders(i)' = Holders(i)
    BY <1>2 DEF Holders, IsPing
  <2> QED BY <1>1, <1>2, <2>1 DEF SemaphoreAccounting
<1>3. ASSUME sem' = sem, task' = task PROVE SemaphoreAccounting'
  BY <1>2, <1>3 DEF Active
<1>4. ASSUME NEW r \in Req, DeadlinePasses(r) \/ Send(r) \/ CallStep(r) PROVE SemaphoreAccounting'
  BY <1>3, <1>4 DEF DeadlinePasses, Send, CallStep, WritePart, WriteFails, TakeReply, TimeOut, Unregister
<1>5. ASSUME NEW i \in Inst, \/ Start(i) \/ PollReassembled(i) \/ PollNothing(i)
                             \/ ReadFails(i) \/ LoopAck(i)
      PROVE  SemaphoreAccounting'
  BY <1>3, <1>5 DEF Start, PollReassembled, PollNothing, ReadFails, LoopAck
<1>6. ASSUME NEW i \in Inst, NEW m \in Msg, AsmStep(i, m) PROVE SemaphoreAccounting'
  BY <1>3, <1>6 DEF AsmStep, AsmTake, AsmPut, AsmTimeout
<1>7. ASSUME NEW i \in Inst, Crash(i) PROVE SemaphoreAccounting'
  <2>1. Holders(i)' = {}
    BY <1>1, <1>7 DEF Holders, Active, Crash, TaskType
  <2>2. \A j \in Inst : j # i => Holders(j)' = Holders(j)
    BY <1>1, <1>7 DEF Holders, Active, Crash, TaskType, IsPing
  <2>3. sem' = [sem EXCEPT ![i] = 0]
    BY <1>7 DEF Crash
  <2> QED BY <1>1, <2>1, <2>2, <2>3, FS_EmptySet DEF SemaphoreAccounting
\* Reading starts the goroutine of a ping at most, which takes no place.
<1>8. ASSUME NEW i \in Inst, Read(i) PROVE SemaphoreAccounting'
  <2>1. PICK e \in Entry : e = Head(stream[Home[i]])
    BY <1>0, <1>8, ReadEntry DEF DeliveryInv
  <2>2. sem' = sem
    BY <1>8 DEF Read
  <2>3. task' = task \/ (IsPing(e.msg) /\ Spawn(i, e.msg))
    BY <1>8, <2>1 DEF Read
  <2>4. \A m \in Msg : ~IsPing(m) => task'[m] = task[m]
    BY <1>1, <2>3 DEF Spawn
  <2> QED BY <1>2, <2>2, <2>4 DEF Active
<1>9. ASSUME NEW i \in Inst, Acquire(i) PROVE SemaphoreAccounting'
  <2>1. PICK m \in Msg : hand[i] = {Piece(m, 0)} /\ ~IsPing(m)
    BY <1>9 DEF Acquire, HandOnce, DeliveryInv
  <2>2. Spawn(i, m) /\ AtHand(i, m)
    BY <1>9, <2>1 DEF Acquire, AtHand, Piece
  <2>3. ~Started(m)
    BY <2>2 DEF Has, WholeOnce, DeliveryInv
  <2>4. part' = part
    BY <1>9 DEF Acquire
  <2>5. /\ \A x \in Msg : x # m => task'[x] = task[x]
        /\ task'[m].at = i /\ task'[m].pc \in {"run", "lookup"}
    BY <1>0, <2>2, <2>3, <2>4, SpawnEffect DEF DeliveryInv
  <2>6. m \notin Holders(i) /\ Holders(i)' = Holders(i) \cup {m}
    BY <2>1, <2>3, <2>5 DEF Holders, Active, Started, IsPing
  <2>7. \A j \in Inst : j # i => Holders(j)' = Holders(j)
    BY <2>1, <2>3, <2>5 DEF Holders, Active, Started, IsPing
  <2>8. sem' = [sem EXCEPT ![i] = @ + 1]
    BY <1>9 DEF Acquire
  <2>9. Cardinality(Holders(i) \cup {m}) = Cardinality(Holders(i)) + 1
    BY <1>1, <2>6, FS_AddElement
  <2> QED BY <1>1, <2>6, <2>7, <2>8, <2>9 DEF SemaphoreAccounting
<1>10. ASSUME NEW m \in Msg, RunReply(m) \/ RunReplyFails(m) PROVE SemaphoreAccounting'
  <2>1. sem' = sem
    BY <1>10 DEF RunReply, RunReplyFails
  <2>2. \A x \in Msg : task'[x].pc = task[x].pc /\ task'[x].at = task[x].at
    <3>1. PICK t \in {[task[m] EXCEPT !.sent = @ + 1, !.part = 0], [task[m] EXCEPT !.part = @ + 1]} :
            task' = [task EXCEPT ![m] = t]
      BY <1>10 DEF RunReply, RunReplyFails
    <3>2. t.pc = task[m].pc /\ t.at = task[m].at
      BY <1>1 DEF TaskType
    <3>3. \A x \in Msg : task'[x] = IF x = m THEN t ELSE task[x]
      BY <1>1, <3>1
    <3> QED BY <3>2, <3>3
  <2> QED BY <1>2, <2>1, <2>2 DEF Active
<1>11. ASSUME NEW m \in Msg, RunEnd(m) \/ Lookup(m) \/ Deliver(m) \/ TaskAck(m)
       PROVE  SemaphoreAccounting'
  <2>1. sem' = sem
    BY <1>11 DEF RunEnd, Lookup, Deliver, TaskAck
  <2>2. PICK q \in {"deliver", "ack", "free", "done"} :
          task' = [task EXCEPT ![m].pc = q] /\ (q = "done" => IsPing(m))
    BY <1>11 DEF RunEnd, Lookup, Deliver, TaskAck, Handled
  <2>3. Active(m)
    BY <1>11 DEF RunEnd, Lookup, Deliver, TaskAck, Active
  <2>4. \A x \in Msg : /\ x # m => task'[x] = task[x]
                       /\ task'[x].at = task[x].at
    BY <1>1, <2>2 DEF TaskType
  <2>5. task'[m].pc = q
    BY <1>1, <2>2 DEF TaskType
  <2> QED BY <1>2, <2>1, <2>2, <2>3, <2>4, <2>5 DEF Active
<1>12. ASSUME NEW m \in Msg, Release(m) PROVE SemaphoreAccounting'
  <2>0. PICK i \in Inst : i = task[m].at
    BY <1>1 DEF TaskType
  <2>1. task[m].pc = "free" /\ ~IsPing(m)
    BY <1>1, <1>12 DEF Release, TaskType, TaskOnce, DeliveryInv
  <2>2. sem' = [sem EXCEPT ![i] = @ - 1] /\ task' = [task EXCEPT ![m].pc = "done"]
    BY <1>12, <2>0 DEF Release
  <2>3. /\ \A x \in Msg : x # m => task'[x] = task[x]
        /\ task'[m].pc = "done"
    BY <1>1, <2>2 DEF TaskType
  <2>4. m \in Holders(i) /\ Holders(i)' = Holders(i) \ {m}
    BY <2>0, <2>1, <2>3 DEF Holders, Active, IsPing
  <2>5. \A j \in Inst : j # i => Holders(j)' = Holders(j)
    BY <2>0, <2>1, <2>3 DEF Holders, Active, IsPing
  <2>6. Cardinality(Holders(i) \ {m}) = Cardinality(Holders(i)) - 1
    BY <1>1, <2>1, <2>4, FS_RemoveElement
  <2> QED BY <1>1, <2>1, <2>2, <2>4, <2>5, <2>6 DEF SemaphoreAccounting
<1>13. CASE UNCHANGED vars
  BY <1>3, <1>13 DEF vars
<1> QED
  BY <1>4, <1>5, <1>6, <1>7, <1>8, <1>9, <1>10, <1>11, <1>12, <1>13
     DEF Next, LoopStep, TaskStep

\* The length of every semaphore is the number of its business goroutines: no
\* exit of a handler leaks a place and none gives one back twice.
THEOREM SemaphoreCounts == Spec => []SemaphoreAccounting
<1>1. Init => SemaphoreAccounting
  <2> SUFFICES ASSUME Init, NEW i \in Inst PROVE sem[i] = Cardinality(Holders(i))
    BY DEF SemaphoreAccounting
  <2>1. Holders(i) = {}
    BY DEF Init, NoTask, Holders, Active
  <2> QED BY <2>1, FS_EmptySet DEF Init
<1>2. RefInv /\ RefInv' /\ DeliveryInv /\ SemaphoreAccounting /\ [Next]_vars
        => SemaphoreAccounting'
  BY SemaphoreStep
<1> QED BY <1>1, <1>2, DeliveryInvariant, PTL DEF Spec

-----------------------------------------------------------------------------
(* Acknowledgement                                                          *)

\* What leaves the pending entries list: an entry the loop drops, or the entry
\* of a message whose handler has returned.
LEMMA WhoAcks ==
  ASSUME TypeOK, DeliveryInv, [Next]_vars, NEW e \in pel \ pel'
  PROVE  /\ e \in Entry
         /\ \/ IsExpired(e.msg) \/ Parts(e.msg) > 0
            \/ task[e.msg].pc = "ack" /\ e = Piece(e.msg, 0)
<1> USE DEF redis, callers, proc
<1>0. e \in Entry
  BY DEF TypeOK
<1>1. ASSUME NEW r \in Req, DeadlinePasses(r) \/ Send(r) \/ CallStep(r) PROVE FALSE
  BY <1>1 DEF DeadlinePasses, Send, CallStep, WritePart, WriteFails, TakeReply, TimeOut, Unregister
<1>2. ASSUME NEW i \in Inst, \/ Start(i) \/ Crash(i) \/ PollReassembled(i) \/ PollNothing(i)
                             \/ Read(i) \/ ReadFails(i) \/ Acquire(i)
      PROVE  FALSE
  BY <1>2 DEF Start, Crash, PollReassembled, PollNothing, Read, ReadFails, Acquire
<1>3. ASSUME NEW i \in Inst, LoopAck(i) PROVE IsExpired(e.msg) \/ Parts(e.msg) > 0
  <2>1. e \in hand[i] /\ loop[i] = "ack"
    BY <1>3 DEF LoopAck, AckAndDelete
  <2> QED BY <2>1 DEF DeliveryInv, HandOnce
<1>4. ASSUME NEW m \in Msg, \/ RunReply(m) \/ RunReplyFails(m) \/ RunEnd(m) \/ Lookup(m)
                            \/ Deliver(m) \/ Release(m)
      PROVE  FALSE
  BY <1>4 DEF RunReply, RunReplyFails, RunEnd, Lookup, Deliver, Release
<1>5. ASSUME NEW m \in Msg, TaskAck(m)
      PROVE  task[e.msg].pc = "ack" /\ e = Piece(e.msg, 0)
  <2>1. e = Piece(m, 0) /\ task[m].pc = "ack"
    BY <1>5 DEF TaskAck, AckAndDelete
  <2>2. e.msg = m
    BY <2>1 DEF Piece
  <2> QED BY <2>1, <2>2
<1>6. ASSUME NEW i \in Inst, NEW m \in Msg, AsmStep(i, m) PROVE FALSE
  BY <1>6 DEF AsmStep, AsmTake, AsmPut, AsmTimeout
<1>7. CASE UNCHANGED vars
  BY <1>7 DEF vars
<1> QED BY <1>0, <1>1, <1>2, <1>3, <1>4, <1>5, <1>6, <1>7 DEF Next, LoopStep, TaskStep

\* Without sharding an entry is acknowledged only when its handler has
\* returned or its deadline has passed.  (A shard is acknowledged as soon as
\* an assembler has it, which AckAfterHandling does not allow.)
THEOREM AckedAfterHandling ==
  (\A r \in Req : ReqParts[r] = 0 /\ RepParts[r] = 0) => (Spec => AckAfterHandling)
<1> SUFFICES ASSUME \A r \in Req : ReqParts[r] = 0 /\ RepParts[r] = 0
             PROVE  Spec => AckAfterHandling
  OBVIOUS
<1>1. RefInv /\ DeliveryInv /\ [Next]_vars
        => [\A e \in pel \ pel' : IsExpired(e.msg) \/ task[e.msg].pc \in {"ack", "free", "done"}]_vars
  <2> SUFFICES ASSUME RefInv, DeliveryInv, [Next]_vars, NEW e \in pel \ pel'
               PROVE  IsExpired(e.msg) \/ task[e.msg].pc \in {"ack", "free", "done"}
    OBVIOUS
  <2>1. TypeOK
    BY DEF RefInv
  <2>2. /\ e \in Entry
        /\ \/ IsExpired(e.msg) \/ Parts(e.msg) > 0
           \/ task[e.msg].pc = "ack"
    BY <2>1, WhoAcks
  <2>3. Parts(e.msg) = 0
    BY <2>2 DEF Parts, Entry, Msg
  <2> QED BY <2>2, <2>3
<1> QED BY <1>1, DeliveryInvariant, PTL DEF Spec, AckAfterHandling

-----------------------------------------------------------------------------
(* Replies                                                                  *)

\* A reply whose goroutine is past the channel is in it while the caller waits.
ReplyHeld ==
  \A m \in Msg :
    /\ m.kind = "response" /\ task[m].pc \in {"ack", "free", "done"}
    /\ call[m.req] \in {"sending", "waiting"}
    => chan[m.req] # <<>>

LEMMA ReplyHeldNext ==
  ASSUME \A i, j \in Inst : Home[i] = Home[j] => i = j,
         RefInv, RefInv', DeliveryInv, ReplyHeld, [Next]_vars
  PROVE  ReplyHeld'
<1> USE DEF redis, callers, proc
<1>0. TypeOK /\ Provenance /\ CallShape
  BY DEF RefInv
<1>1. /\ task \in [Msg -> TaskType] /\ chan \in [Req -> Seq(0 .. MaxReplies)]
      /\ call \in [Req -> {"idle", "sending", "waiting", "leaving", "returned"}]
      /\ \A m \in Msg : m.req \in Req
  BY <1>0, Sizes DEF TypeOK, TaskType
<1> SUFFICES ASSUME NEW x \in Msg, x.kind = "response", task'[x].pc \in {"ack", "free", "done"},
                    call'[x.req] \in {"sending", "waiting"}
             PROVE  chan'[x.req] # <<>>
  BY DEF ReplyHeld
\* A step of another process: the reply was past the channel before.
<1>2. ASSUME task'[x].pc \in {"ack", "free", "done"} => task[x].pc \in {"ack", "free", "done"},
             call[x.req] \in {"sending", "waiting"}, chan'[x.req] = chan[x.req]
      PROVE  chan'[x.req] # <<>>
  BY <1>2 DEF ReplyHeld
<1>3. ASSUME NEW r \in Req, DeadlinePasses(r) PROVE chan'[x.req] # <<>>
  BY <1>2, <1>3 DEF DeadlinePasses
<1>4. ASSUME NEW r \in Req, Send(r) PROVE chan'[x.req] # <<>>
  <2>1. task[x].pc # "none"
    BY <1>4 DEF Send
  <2>2. task[Request(x.req)].pc # "none"
    BY <1>0, <2>1 DEF Provenance, TaskKnown, Known
  <2>3. Request(x.req) \in Msg /\ Request(x.req).req = x.req /\ Request(x.req).kind = "request"
    BY <1>1 DEF Request, Msg
  <2>4. call[x.req] # "idle"
    BY <1>0, <2>2, <2>3 DEF Provenance, TaskKnown, Known
  <2> QED BY <1>1, <1>2, <1>4, <2>4 DEF Send
<1>5. ASSUME NEW r \in Req, WritePart(r) \/ WriteFails(r) \/ TimeOut(r) \/ Unregister(r) \/ TakeReply(r)
      PROVE  chan'[x.req] # <<>>
  <2>1. task' = task
    BY <1>5 DEF WritePart, WriteFails, TimeOut, Unregister, TakeReply
  <2>2. call[x.req] \in {"sending", "waiting"} /\ chan'[x.req] = chan[x.req]
    BY <1>1, <1>5 DEF WritePart, WriteFails, TimeOut, Unregister, TakeReply
  <2> QED BY <1>2, <2>1, <2>2
<1>6. ASSUME NEW i \in Inst, Start(i) PROVE chan'[x.req] # <<>>
  BY <1>2, <1>6 DEF Start
<1>7. ASSUME NEW i \in Inst, Crash(i) PROVE chan'[x.req] # <<>>
  <2>1. task'[x].pc \in {"ack", "free", "done"} => task[x].pc \in {"ack", "free", "done"}
    BY <1>1, <1>7 DEF Crash, TaskType
  <2>2. call[x.req] \in {"sending", "waiting"} /\ chan'[x.req] = chan[x.req]
    BY <1>1, <1>7 DEF Crash, Registered
  <2> QED BY <1>2, <2>1, <2>2
<1>8. ASSUME NEW i \in Inst, LoopStep(i) PROVE chan'[x.req] # <<>>
  <2>1. UNCHANGED <<call, chan>>
    BY <1>8 DEF LoopStep, PollReassembled, PollNothing, Read, ReadFails, LoopAck, Acquire
  <2>2. task' = task \/ \E y \in Msg : Spawn(i, y)
    BY <1>0, <1>8, LoopSpawns
  <2>3. ASSUME NEW y \in Msg, Spawn(i, y)
        PROVE  task'[x].pc \in {"ack", "free", "done"} => task[x].pc \in {"ack", "free", "done"}
    BY <1>1, <2>3 DEF Spawn
  <2> QED BY <1>2, <2>1, <2>2, <2>3
<1>9. ASSUME NEW m \in Msg, RunReply(m) \/ RunReplyFails(m) PROVE chan'[x.req] # <<>>
  <2>1. UNCHANGED <<call, chan>> /\ task[m].pc = "run"
    BY <1>9 DEF RunReply, RunReplyFails
  <2>2. m # x
    BY <1>0, <2>1 DEF CallShape
  <2>3. task'[x] = task[x]
    BY <1>1, <1>9, <2>2 DEF RunReply, RunReplyFails
  <2> QED BY <1>2, <2>1, <2>3
<1>10. ASSUME NEW m \in Msg, RunEnd(m) PROVE chan'[x.req] # <<>>
  <2>1. m # x
    BY <1>0, <1>10 DEF CallShape, RunEnd
  <2>2. task'[x] = task[x]
    BY <1>1, <1>10, <2>1 DEF RunEnd
  <2> QED BY <1>2, <1>10, <2>2 DEF RunEnd
\* The caller has gone when its reply finds no channel.
<1>11. ASSUME NEW m \in Msg, Lookup(m) PROVE chan'[x.req] # <<>>
  <2>1. UNCHANGED <<call, chan>>
    BY <1>11 DEF Lookup
  <2>2. CASE m # x
    <3>1. task'[x] = task[x]
      BY <1>1, <1>11, <2>2 DEF Lookup
    <3> QED BY <1>2, <2>1, <3>1
  <2>3. CASE m = x
    <3>1. task[x].at = Caller[x.req]
      <4>1. Started(x)
        BY <1>11, <2>3 DEF Lookup, Started
      <4>2. Home[task[x].at] = Home[Caller[x.req]]
        BY <4>1 DEF DeliveryInv, TaskOnce, Dest
      <4>3. task[x].at \in Inst /\ Caller[x.req] \in Inst
        BY <1>1, ConstantsAssumption DEF TaskType
      <4> QED BY <4>2, <4>3
    <3>2. task'[x].pc = "deliver"
      BY <1>1, <1>11, <2>1, <2>3, <3>1 DEF Lookup, Registered, TaskType
    <3> QED BY <3>2
  <2> QED BY <2>2, <2>3
<1>12. ASSUME NEW m \in Msg, Deliver(m) PROVE chan'[x.req] # <<>>
  <2>1. call' = call /\ chan' = [chan EXCEPT ![m.req] = <<m.n>>]
    BY <1>12 DEF Deliver
  <2>2. CASE m.req = x.req
    BY <1>1, <2>1, <2>2
  <2>3. CASE m.req # x.req
    <3>1. task'[x] = task[x]
      BY <1>1, <1>12, <2>3 DEF Deliver
    <3> QED BY <1>1, <1>2, <2>1, <2>3, <3>1
  <2> QED BY <2>2, <2>3
<1>13. ASSUME NEW m \in Msg, TaskAck(m) \/ Release(m) PROVE chan'[x.req] # <<>>
  <2>1. UNCHANGED <<call, chan>> /\ task[m].pc \in {"ack", "free"}
    BY <1>13 DEF TaskAck, Release
  <2>2. m # x => task'[x] = task[x]
    BY <1>1, <1>13 DEF TaskAck, Release
  <2> QED BY <1>2, <2>1, <2>2
<1>14. ASSUME NEW i \in Inst, NEW m \in Msg, AsmStep(i, m) PROVE chan'[x.req] # <<>>
  BY <1>2, <1>14 DEF AsmStep, AsmTake, AsmPut, AsmTimeout
<1>15. CASE UNCHANGED vars
  BY <1>2, <1>15 DEF vars
<1> QED
  BY <1>3, <1>4, <1>5, <1>6, <1>7, <1>8, <1>9, <1>10, <1>11, <1>12, <1>13, <1>14, <1>15
     DEF Next, CallStep, TaskStep

\* Where every stream has one reader, a reply that came whole is acknowledged
\* only when its caller was handed it or no longer waits.
THEOREM RepliesReachCallers ==
  (\A i, j \in Inst : Home[i] = Home[j] => i = j) => (Spec => NoReplyDropped)
<1> SUFFICES ASSUME \A i, j \in Inst : Home[i] = Home[j] => i = j
             PROVE  Spec => NoReplyDropped
  OBVIOUS
<1>1. Init => ReplyHeld
  BY DEF Init, ReplyHeld, NoTask
<1>2. RefInv /\ RefInv' /\ DeliveryInv /\ ReplyHeld /\ [Next]_vars => ReplyHeld'
  BY ReplyHeldNext
<1>3. Spec => []ReplyHeld
  BY <1>1, <1>2, DeliveryInvariant, PTL DEF Spec
<1>4. RefInv /\ DeliveryInv /\ ReplyHeld /\ [Next]_vars
        => [\A e \in pel \ pel' :
              e.msg.kind = "response" /\ Parts(e.msg) = 0 /\ call[e.msg.req] = "waiting"
                => chan[e.msg.req] # <<>>]_vars
  <2> SUFFICES ASSUME RefInv, DeliveryInv, ReplyHeld, [Next]_vars, NEW e \in pel \ pel',
                      e.msg.kind = "response", Parts(e.msg) = 0, call[e.msg.req] = "waiting"
               PROVE  chan[e.msg.req] # <<>>
    OBVIOUS
  <2>1. TypeOK
    BY DEF RefInv
  <2>2. /\ e \in Entry
        /\ \/ IsExpired(e.msg) \/ Parts(e.msg) > 0
           \/ task[e.msg].pc = "ack"
    BY <2>1, WhoAcks
  <2>3. task[e.msg].pc = "ack" /\ e.msg \in Msg
    BY <2>2 DEF IsExpired, HasDeadline, Entry
  <2> QED BY <2>3 DEF ReplyHeld
<1> QED BY <1>3, <1>4, DeliveryInvariant, PTL DEF Spec, NoReplyDropped

-----------------------------------------------------------------------------
(* The library implements RPCCall                                           *)

\* How often the goroutine of a message was started.
StartedOnce == \A m \in Msg : task[m].runs = IF task[m].pc = "none" THEN 0 ELSE 1

\* The loop starts the goroutine of a message that is known and had none: it
\* is in a stream or in a hand, so it has not left before.
LEMMA LoopSpawnsNew ==
  ASSUME TypeOK, Provenance, DeliveryInv, NEW i \in Inst, LoopStep(i)
  PROVE  task' = task \/ \E y \in Msg : Spawn(i, y) /\ Known(y) /\ ~Started(y)
<1>1. CASE Read(i)
  <2> DEFINE e == Head(stream[Home[i]])
  <2>1. stream[Home[i]] # <<>> /\ Home[i] \in Stream
    BY <1>1, ConstantsAssumption DEF Read
  <2>2. task' = task \/ (Spawn(i, e.msg) /\ IsPing(e.msg))
    BY <1>1 DEF Read
  <2>3. e.msg \in Msg /\ 1 \in DOMAIN stream[Home[i]] /\ e = stream[Home[i]][1]
    BY <2>1, HeadEntry
  <2>4. Known(e.msg)
    BY <2>1, <2>3 DEF Provenance, StreamKnown
  <2>5. ~Started(e.msg)
    BY <2>1, <2>3 DEF DeliveryInv, StreamOnce, Waits, Gone
  <2> HIDE DEF e
  <2> QED BY <2>2, <2>3, <2>4, <2>5
<1>2. CASE Acquire(i)
  <2>1. PICK e \in hand[i] : Spawn(i, e.msg)
    BY <1>2 DEF Acquire
  <2>2. PICK m \in Msg : hand[i] = {Piece(m, 0)}
    BY <1>2 DEF Acquire, DeliveryInv, HandOnce
  <2>3. e.msg = m /\ Known(m)
    BY <2>1, <2>2 DEF Piece, Provenance, HandKnown
  <2>4. Has(i, m)
    BY <1>2, <2>2 DEF Acquire, Has, AtHand
  <2>5. ~Started(m)
    BY <2>4 DEF DeliveryInv, WholeOnce
  <2> QED BY <2>1, <2>3, <2>5
<1> QED BY <1>1, <1>2 DEF LoopStep, PollReassembled, PollNothing, ReadFails, LoopAck, proc

\* A goroutine that runs starts no goroutine.
LEMMA TaskKeepsRuns ==
  ASSUME TypeOK, NEW m \in Msg, TaskStep(m)
  PROVE  /\ task[m].pc # "none" /\ task'[m].pc # "none"
         /\ \A x \in Msg : x # m => task'[x] = task[x]
         /\ \A x \in Msg : task'[x].runs = task[x].runs
<1>1. task \in [Msg -> TaskType]
  BY DEF TypeOK, TaskType
<1>2. CASE RunReply(m) \/ RunReplyFails(m)
  <2>1. task[m] \in TaskType /\ task[m].pc = "run"
    BY <1>1, <1>2 DEF RunReply, RunReplyFails
  <2>2. PICK s, p \in Int :
          task' = [task EXCEPT ![m] = [task[m] EXCEPT !.sent = s, !.part = p]]
    <3> DEFINE W(s, p) == task' = [task EXCEPT ![m] = [task[m] EXCEPT !.sent = s, !.part = p]]
    <3>1. task[m].sent \in Int /\ task[m].part \in Int
      BY <2>1, ConstantsAssumption DEF TaskType
    <3>2. [task[m] EXCEPT !.part = task[m].part + 1]
            = [task[m] EXCEPT !.sent = task[m].sent, !.part = task[m].part + 1]
      BY <2>1 DEF TaskType
    <3>3. W(task[m].sent + 1, 0) \/ W(task[m].sent, task[m].part + 1)
      BY <1>2, <3>2 DEF RunReply, RunReplyFails
    <3> HIDE DEF W
    <3>4. \E s, p \in Int : W(s, p)
      BY <3>1, <3>3
    <3> QED BY <3>4 DEF W
  <2> QED BY <1>1, <2>1, <2>2 DEF TaskType
<1>3. CASE RunEnd(m) \/ Lookup(m) \/ Deliver(m) \/ TaskAck(m) \/ Release(m)
  <2>1. PICK q \in {"deliver", "ack", "free", "done"} : task' = [task EXCEPT ![m].pc = q]
    BY <1>3 DEF RunEnd, Lookup, Deliver, TaskAck, Release, Handled
  <2>2. task[m].pc # "none"
    BY <1>3 DEF RunEnd, Lookup, Deliver, TaskAck, Release
  <2> QED BY <1>1, <2>1, <2>2 DEF TaskType
<1> QED BY <1>2, <1>3 DEF TaskStep

LEMMA StartedOnceNext == RefInv /\ DeliveryInv /\ StartedOnce /\ [Next]_vars => StartedOnce'
<1> SUFFICES ASSUME RefInv, DeliveryInv, StartedOnce, [Next]_vars,
                    NEW x \in Msg
             PROVE  task'[x].runs = IF task'[x].pc = "none" THEN 0 ELSE 1
  BY DEF StartedOnce
<1> USE DEF redis, callers, proc
<1>0. TypeOK /\ Provenance
  BY DEF RefInv
<1>1. task \in [Msg -> TaskType]
  BY <1>0 DEF TypeOK, TaskType
<1>2. task[x].runs = IF task[x].pc = "none" THEN 0 ELSE 1
  BY DEF StartedOnce
<1>3. ASSUME task' = task PROVE task'[x].runs = IF task'[x].pc = "none" THEN 0 ELSE 1
  BY <1>2, <1>3
<1>4. ASSUME NEW i \in Inst, LoopStep(i) PROVE task'[x].runs = IF task'[x].pc = "none" THEN 0 ELSE 1
  <2>1. ASSUME NEW y \in Msg, Spawn(i, y), ~Started(y)
        PROVE  task'[x].runs = IF task'[x].pc = "none" THEN 0 ELSE 1
    <3>1. task[y].runs = 0
      BY <2>1 DEF StartedOnce, Started
    <3>2. \/ x # y /\ task'[x] = task[x]
          \/ x = y /\ task'[x].runs = 1 /\ task'[x].pc # "none"
      BY <1>1, <2>1, <3>1 DEF Spawn
    <3> QED BY <1>2, <3>2
  <2> QED BY <1>0, <1>3, <1>4, <2>1, LoopSpawnsNew
<1>5. ASSUME NEW i \in Inst, Crash(i) PROVE task'[x].runs = IF task'[x].pc = "none" THEN 0 ELSE 1
  BY <1>1, <1>2, <1>5 DEF Crash, TaskType
<1>6. ASSUME NEW m \in Msg, TaskStep(m) PROVE task'[x].runs = IF task'[x].pc = "none" THEN 0 ELSE 1
  BY <1>0, <1>2, <1>6, TaskKeepsRuns
<1>7. ASSUME NEW r \in Req, DeadlinePasses(r) \/ Send(r) \/ CallStep(r) PROVE task' = task
  BY <1>7 DEF DeadlinePasses, Send, CallStep, WritePart, WriteFails, TakeReply, TimeOut, Unregister
<1>8. ASSUME NEW i \in Inst, Start(i) PROVE task' = task
  BY <1>8 DEF Start
<1>9. ASSUME NEW i \in Inst, NEW m \in Msg, AsmStep(i, m) PROVE task' = task
  BY <1>9 DEF AsmStep, AsmTake, AsmPut, AsmTimeout
<1> QED BY <1>3, <1>4, <1>5, <1>6, <1>7, <1>8, <1>9 DEF Next, vars

LEMMA RunsCount == Spec => []StartedOnce
<1>1. Init => StartedOnce
  BY DEF Init, StartedOnce, NoTask
<1>2. RefInv /\ DeliveryInv /\ StartedOnce /\ [Next]_vars => StartedOnce'
  BY StartedOnceNext
<1> QED BY <1>1, <1>2, DeliveryInvariant, PTL DEF Spec

LEMMA RPCInit == Init => RPC!Init
<1> SUFFICES ASSUME Init PROVE RPC!Init
  OBVIOUS
<1>1. \A r \in Req : Request(r) \in Msg
  BY DEF Request, Msg
<1> QED BY <1>1 DEF Init, RPC!Init, Outcome, NoTask

\* The abstract variables that a step leaves alone.
LEMMA SameCalls ==
  ASSUME call' = call, result' = result
  PROVE  /\ [r \in Req |-> Outcome(r)]' = [r \in Req |-> Outcome(r)]
         /\ {r \in Req : call[r] = "returned"}' = {r \in Req : call[r] = "returned"}
BY DEF Outcome

LEMMA SameExecuted ==
  ASSUME \A r \in Req : task'[Request(r)].runs = task[Request(r)].runs
  PROVE  [r \in Req |-> task[Request(r)].runs]' = [r \in Req |-> task[Request(r)].runs]
BY DEF Request

LEMMA RPCStep == RefInv /\ DeliveryInv /\ StartedOnce /\ [Next]_vars => [RPC!Next]_(RPC!rpcvars)
<1> SUFFICES ASSUME RefInv, DeliveryInv, StartedOnce, [Next]_vars PROVE [RPC!Next]_(RPC!rpcvars)
  OBVIOUS
<1> USE DEF redis, callers, proc
<1> DEFINE outcome  == [r \in Req |-> Outcome(r)]
           returned == {r \in Req : call[r] = "returned"}
           executed == [r \in Req |-> task[Request(r)].runs]
<1>0. TypeOK /\ Provenance /\ CallShape
  BY DEF RefInv
<1>1. /\ call \in [Req -> {"idle", "sending", "waiting", "leaving", "returned"}]
      /\ result \in [Req -> {"none", "reply", "timeout", "error", "crashed"}]
      /\ task \in [Msg -> TaskType]
  BY <1>0 DEF TypeOK, TaskType
<1>2. \A r \in Req : Request(r) \in Msg /\ Request(r).kind = "request" /\ Request(r).req = r
  BY DEF Request, Msg
<1>3. \A r \in Req : call[r] \in {"idle", "sending", "waiting"} <=> result[r] = "none"
  BY <1>0 DEF CallShape
<1>4. ASSUME call' = call, result' = result PROVE outcome' = outcome /\ returned' = returned
  BY <1>4, SameCalls
<1>5. ASSUME task' = task PROVE executed' = executed
  BY <1>5, SameExecuted
<1>6. ASSUME outcome' = outcome, returned' = returned, executed' = executed
      PROVE  UNCHANGED RPC!rpcvars
  BY <1>6 DEF RPC!rpcvars
<1>7. ASSUME NEW r \in Req, Send(r) PROVE RPC!Open(r)
  <2>1. outcome' = [outcome EXCEPT ![r] = "open"]
    BY <1>1, <1>3, <1>7 DEF Send, Outcome
  <2>2. returned' = returned
    BY <1>1, <1>7 DEF Send
  <2>3. outcome[r] = "uncalled"
    BY <1>7 DEF Send, Outcome
  <2> QED BY <1>5, <1>7, <2>1, <2>2, <2>3 DEF Send, RPC!Open
<1>8. ASSUME NEW r \in Req, WriteFails(r) \/ TimeOut(r) PROVE RPC!GiveUp(r)
  <2>1. PICK w \in {"timeout", "error"} :
          call' = [call EXCEPT ![r] = "leaving"] /\ result' = [result EXCEPT ![r] = w]
    BY <1>8 DEF WriteFails, TimeOut
  <2>2. outcome' = [outcome EXCEPT ![r] = w] /\ returned' = returned
    BY <1>1, <1>8, <2>1 DEF Outcome, WriteFails, TimeOut
  <2>3. outcome[r] = "open"
    BY <1>3, <1>8 DEF Outcome, WriteFails, TimeOut
  <2>4. task' = task
    BY <1>8 DEF WriteFails, TimeOut
  <2> QED BY <1>5, <2>2, <2>3, <2>4 DEF RPC!GiveUp
<1>9. ASSUME NEW r \in Req, TakeReply(r) PROVE RPC!Answer(r)
  <2>1. outcome' = [outcome EXCEPT ![r] = "reply"] /\ returned' = returned
    BY <1>1, <1>9 DEF Outcome, TakeReply
  <2>2. outcome[r] = "open"
    BY <1>3, <1>9 DEF Outcome, TakeReply
  <2>3. executed[r] = 1
    BY <1>0, <1>2, <1>9 DEF TakeReply, CallShape, StartedOnce
  <2> QED BY <1>5, <1>9, <2>1, <2>2, <2>3 DEF TakeReply, RPC!Answer
<1>10. ASSUME NEW r \in Req, Unregister(r) PROVE RPC!Return(r)
  <2>1. outcome' = outcome
    BY <1>1, <1>10 DEF Outcome, Unregister
  <2>2. returned' = returned \cup {r} /\ r \notin returned
    BY <1>1, <1>10 DEF Unregister
  <2>3. outcome[r] \notin {"uncalled", "open"}
    BY <1>1, <1>3, <1>10 DEF Outcome, Unregister
  <2> QED BY <1>5, <1>10, <2>1, <2>2, <2>3 DEF Unregister, RPC!Return
<1>11. ASSUME NEW i \in Inst, Crash(i) PROVE RPC!Lose
  <2> DEFINE R == {r \in Req : Caller[r] = i /\ Registered(r)}
  <2>1. call' = [r \in Req |-> IF Caller[r] = i /\ Registered(r) THEN "returned" ELSE call[r]]
    BY <1>11 DEF Crash
  <2>2. result' = [r \in Req |-> IF Caller[r] = i /\ Registered(r) THEN "crashed" ELSE result[r]]
    BY <1>11 DEF Crash
  <2>3. R \in SUBSET {r \in Req : outcome[r] # "uncalled" /\ r \notin returned}
    <3> SUFFICES ASSUME NEW r \in R PROVE r \in Req /\ outcome[r] # "uncalled" /\ r \notin returned
      OBVIOUS
    <3> QED BY <1>1 DEF Registered, Outcome
  <2>4. outcome' = [r \in Req |-> IF r \in R THEN "crashed" ELSE outcome[r]]
    BY <2>1, <2>2 DEF Outcome
  <2>5. returned' = returned \cup R
    BY <2>1
  <2>6. executed' = executed
    <3>1. \A m \in Msg : task'[m].runs = task[m].runs
      BY <1>1, <1>11 DEF Crash, TaskType
    <3> QED BY <1>2, <3>1, SameExecuted
  <2> HIDE DEF R
  <2> QED BY <2>3, <2>4, <2>5, <2>6 DEF RPC!Lose
<1>12. ASSUME NEW i \in Inst, LoopStep(i)
       PROVE  (\E r \in Req : RPC!Execute(r)) \/ UNCHANGED RPC!rpcvars
  <2>1. call' = call /\ result' = result
    BY <1>12 DEF LoopStep, PollReassembled, PollNothing, Read, ReadFails, LoopAck, Acquire
  <2>2. outcome' = outcome /\ returned' = returned
    BY <1>4, <2>1
  <2>3. ASSUME NEW y \in Msg, Spawn(i, y), Known(y), ~Started(y)
        PROVE  (\E r \in Req : RPC!Execute(r)) \/ UNCHANGED RPC!rpcvars
    <3>1. /\ \A m \in Msg : m # y => task'[m] = task[m]
          /\ task'[y].runs = 1
      BY <1>1, <2>3 DEF Spawn, Started, StartedOnce
    <3>2. CASE y.kind = "request"
      <4>1. y = Request(y.req) /\ y.req \in Req
        BY <3>2 DEF Request, Msg
      <4>2. \A r \in Req : r # y.req => task'[Request(r)] = task[Request(r)]
        BY <1>2, <3>1
      <4>3. executed[y.req] = 0
        BY <2>3, <4>1 DEF Started, StartedOnce
      <4>4. executed' = [executed EXCEPT ![y.req] = 1]
        BY <3>1, <4>1, <4>2 DEF Request
      <4>5. outcome[y.req] # "uncalled"
        BY <1>1, <2>3, <3>2, <4>1 DEF Known, Outcome
      <4> QED BY <2>2, <4>1, <4>3, <4>4, <4>5 DEF RPC!Execute
    <3>3. CASE y.kind # "request"
      <4>1. \A r \in Req : task'[Request(r)].runs = task[Request(r)].runs
        BY <1>2, <3>1, <3>3
      <4> QED BY <1>6, <2>2, <4>1, SameExecuted
    <3> QED BY <3>2, <3>3
  <2> QED BY <1>0, <1>5, <1>6, <1>12, <2>2, <2>3, LoopSpawnsNew
<1>13. ASSUME NEW m \in Msg, TaskStep(m) PROVE UNCHANGED RPC!rpcvars
  <2>1. call' = call /\ result' = result
    BY <1>13 DEF TaskStep, RunReply, RunReplyFails, RunEnd, Lookup, Deliver, TaskAck, Release
  <2>2. \A x \in Msg : task'[x].runs = task[x].runs
    BY <1>0, <1>13, TaskKeepsRuns
  <2> QED BY <1>2, <1>4, <1>6, <2>1, <2>2, SameExecuted
<1>14. ASSUME call' = call, result' = result, task' = task PROVE UNCHANGED RPC!rpcvars
  BY <1>4, <1>5, <1>6, <1>14
<1>15. ASSUME NEW r \in Req, WritePart(r) PROVE UNCHANGED RPC!rpcvars
  <2>1. outcome' = outcome /\ returned' = returned
    BY <1>1, <1>15 DEF WritePart, Outcome
  <2> QED BY <1>5, <1>6, <1>15, <2>1 DEF WritePart
<1>16. ASSUME NEW r \in Req, DeadlinePasses(r) PROVE UNCHANGED RPC!rpcvars
  BY <1>14, <1>16 DEF DeadlinePasses
<1>17. ASSUME NEW i \in Inst, Start(i) PROVE UNCHANGED RPC!rpcvars
  BY <1>14, <1>17 DEF Start
<1>18. ASSUME NEW i \in Inst, NEW m \in Msg, AsmStep(i, m) PROVE UNCHANGED RPC!rpcvars
  BY <1>14, <1>18 DEF AsmStep, AsmTake, AsmPut, AsmTimeout
<1>19. CASE UNCHANGED vars
  BY <1>14, <1>19 DEF vars
<1> HIDE DEF outcome, returned, executed
<1> QED
  BY <1>7, <1>8, <1>9, <1>10, <1>11, <1>12, <1>13, <1>15, <1>16, <1>17, <1>18, <1>19
     DEF Next, CallStep, RPC!Next

\* Send, the consume loops and the handlers implement RPCCall: one outcome for
\* each call, final once returned, no second start of its handler, no start
\* without a call and no answer without a start, for any number of instances,
\* calls, shards and crashes.
THEOREM Implements == Spec => ImplementsRPC
<1>1. RefInv /\ DeliveryInv /\ StartedOnce /\ [Next]_vars => [RPC!Next]_(RPC!rpcvars)
  BY RPCStep
<1> QED
  BY <1>1, RPCInit, DeliveryInvariant, RunsCount, PTL DEF Spec, ImplementsRPC, RPC!Spec
=============================================================================
