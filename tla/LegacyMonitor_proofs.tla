------------------------- MODULE LegacyMonitor_proofs -------------------------
(* Theorems about LegacyMonitor, for every set of fragments, slots, values    *)
(* and error signatures, and any number of failures.                          *)
EXTENDS LegacyMonitor, FiniteSetTheorems, TLAPS

(***************************************************************************)
(* One notice per error signature                                          *)
(***************************************************************************)

TroubleType == [failed : Nat, crashed : Nat, asked : Nat]

\* The monitor's locals have their fields, and a report knows its signature
\* and a place to go on that is not inside another report.
Locals ==
  /\ DOMAIN mon = DOMAIN Fresh
  /\ mon.back \in {"ping", "wait", "loop"}
  /\ mon.pc \in {"lookup", "remember", "notify"} => mon.sig \in Signature

\* A signature that was mailed is remembered; a report that is about to store
\* it has not mailed it, nor has one that is about to mail it.
NoticeInv ==
  /\ Locals
  /\ notices \in [Signature -> Nat]
  /\ trouble \in TroubleType
  /\ trouble.failed = 0 =>
       /\ \A sig \in Signature : notices[sig] <= IF sig \in dedup THEN 1 ELSE 0
       /\ mon.pc = "remember" => mon.sig \notin dedup
       /\ mon.pc = "notify" => mon.sig \in dedup /\ notices[mon.sig] = 0

LEMMA TroubleGrows ==
  ASSUME NEW kind \in {"failed", "crashed", "asked"}, trouble \in TroubleType, Trouble(kind)
  PROVE  /\ trouble' \in TroubleType
         /\ trouble'[kind] = trouble[kind] + 1
         /\ \A other \in {"failed", "crashed", "asked"} \ {kind} : trouble'[other] = trouble[other]
  BY DEF Trouble, TroubleType

\* Steps of the cache only let calls and commands fail, or others ask.
LEMMA TroubleStep ==
  ASSUME trouble \in TroubleType,
         UNCHANGED trouble \/ \E kind \in {"failed", "crashed", "asked"} : Trouble(kind)
  PROVE  trouble' \in TroubleType /\ trouble'.failed >= trouble.failed
<1>1. CASE UNCHANGED trouble
  BY <1>1 DEF TroubleType
<1>2. ASSUME NEW kind \in {"failed", "crashed", "asked"}, Trouble(kind)
      PROVE  trouble' \in TroubleType /\ trouble'.failed >= trouble.failed
  BY <1>2, TroubleGrows DEF TroubleType
<1> QED BY <1>1, <1>2

\* What a step can do to the count of troubles.
LEMMA TroubleNext ==
  ASSUME [Next]_vars
  PROVE  UNCHANGED trouble \/ \E kind \in {"failed", "crashed", "asked"} : Trouble(kind)
<1> DEFINE Goal == UNCHANGED trouble \/ \E kind \in {"failed", "crashed", "asked"} : Trouble(kind)
<1>1. CASE \E s \in Slot : Service(s)
  BY <1>1 DEF Service, Handle, Read, Write, Delete, Execute, Fault
<1>2. CASE Compare \/ Compared \/ CacheSet \/ Stored
  BY <1>2 DEF Compare, Compared, CacheSet, Stored, Send, Failed, Answered, GiveUp, Fault, cache
<1>3. CASE Lookup \/ Remember
  BY <1>3 DEF Lookup, Remember, Fault
<1>4. CASE Ping \/ Wait \/ Crawl \/ Parse \/ EndLoop \/ Notify
  BY <1>4 DEF Ping, Wait, Crawl, Parse, EndLoop, Notify, cache
<1>5. CASE Crash \/ ClientAsks
  BY <1>5 DEF Crash, ClientAsks
<1>6. CASE Restart \/ ClientTakes \/ \E sig \in Signature : Expire(sig)
  BY <1>6 DEF Restart, ClientTakes, Expire, cache
<1>7. CASE UNCHANGED vars
  BY <1>7 DEF vars, cache
<1> QED BY <1>1, <1>2, <1>3, <1>4, <1>5, <1>6, <1>7 DEF Next, Round

LEMMA ReportLocals ==
  ASSUME NEW m, NEW back \in {"wait", "loop"}, DOMAIN m = DOMAIN Fresh, Report(m, back)
  PROVE  Locals' /\ mon'.pc = "lookup"
<1>1. PICK sig \in Signature : mon' = [m EXCEPT !.pc = "lookup", !.sig = sig, !.back = back]
  BY DEF Report
<1>2. {"pc", "sig", "back"} \subseteq DOMAIN m
  BY DEF Fresh
<1>3. mon'.pc = "lookup" /\ mon'.sig = sig /\ mon'.back = back /\ DOMAIN mon' = DOMAIN m
  BY <1>1, <1>2
<1> QED BY <1>3 DEF Locals

\* The steps outside of ReportError.
LEMMA LocalsNext ==
  ASSUME Locals, \/ Ping \/ Wait \/ Crawl \/ Parse \/ Compare \/ Compared \/ CacheSet \/ Stored
                 \/ EndLoop \/ Crash \/ Restart
  PROVE  Locals' /\ mon'.pc \notin {"remember", "notify"}
<1> DEFINE Goal == Locals' /\ mon'.pc \notin {"remember", "notify"}
<1>1. /\ DOMAIN mon = DOMAIN Fresh /\ mon.back \in {"ping", "wait", "loop"}
      /\ DOMAIN Fresh = {"pc", "pd", "todo", "caches", "i", "changed", "call", "sig", "back"}
  BY DEF Locals, Fresh
<1>2. Fresh.back = "ping"
  BY DEF Fresh
<1>3. ASSUME NEW m, m = Fresh \/ m = mon, NEW pc,
             pc \in {"ping", "crawl", "dead", "parse", "loop", "compared", "set", "stored", "wait", "killed"},
             DOMAIN mon' = DOMAIN m, mon'.pc = pc, mon'.back = m.back
      PROVE  Goal
  BY <1>1, <1>2, <1>3 DEF Locals
<1>4. Fresh.pc = "ping"
  BY DEF Fresh
<1>5. CASE Ping
  BY <1>1, <1>3, <1>5 DEF Ping
<1>6. CASE Wait \/ Restart
  BY <1>1, <1>3, <1>4, <1>6 DEF Wait, Restart
<1>7. CASE EndLoop \/ Crash
  <2>1. PICK pc \in {"wait", "killed"} : mon' = [Fresh EXCEPT !.pc = pc]
    BY <1>7 DEF EndLoop, Crash
  <2>2. mon'.pc = pc /\ mon'.back = Fresh.back /\ DOMAIN mon' = DOMAIN Fresh
    BY <1>1, <2>1
  <2> QED BY <1>3, <2>2
<1>8. ASSUME NEW m, DOMAIN m = DOMAIN Fresh, NEW back \in {"wait", "loop"}, Report(m, back)
      PROVE  Goal
  BY <1>8, ReportLocals
<1>9. CASE Crawl
  <2>1. CASE \E pd \in [Fragment -> Value] : mon' = [mon EXCEPT !.pc = "parse", !.pd = pd]
    <3>1. PICK pd \in [Fragment -> Value] : mon' = [mon EXCEPT !.pc = "parse", !.pd = pd]
      BY <2>1
    <3>2. mon'.pc = "parse" /\ mon'.back = mon.back /\ DOMAIN mon' = DOMAIN mon
      BY <1>1, <3>1
    <3> QED BY <1>3, <3>2
  <2> QED BY <1>8, <1>9, <2>1 DEF Crawl, Panic
<1>10. CASE Parse
  <2>1. CASE mon' = [mon EXCEPT !.pc = "loop", !.todo = Fragment,
                                !.caches = [n \in 1..Cardinality(Fragment) |-> <<>>]]
    <3>1. mon'.pc = "loop" /\ mon'.back = mon.back /\ DOMAIN mon' = DOMAIN mon
      BY <1>1, <2>1
    <3> QED BY <1>3, <3>1
  <2> QED BY <1>8, <1>10, <2>1 DEF Parse, Panic
<1>11. ASSUME NEW op, NEW entry, NEW m, Send(op, entry, m)
       PROVE  \E s : mon' = [m EXCEPT !.call = s]
  BY <1>11 DEF Send
<1>12. CASE Compare
  <2>1. PICK k \in mon.todo : \E s :
          mon' = [[mon EXCEPT !.pc = "compared", !.caches[mon.i] = [key |-> k, data |-> mon.pd[k]],
                              !.todo = mon.todo \ {k}] EXCEPT !.call = s]
    BY <1>11, <1>12 DEF Compare
  <2>2. mon'.pc = "compared" /\ mon'.back = mon.back /\ DOMAIN mon' = DOMAIN mon
    BY <1>1, <2>1
  <2> QED BY <1>3, <2>2
<1>13. CASE CacheSet
  <2>1. PICK s : mon' = [[mon EXCEPT !.pc = "stored"] EXCEPT !.call = s]
    BY <1>11, <1>13 DEF CacheSet
  <2>2. mon'.pc = "stored" /\ mon'.back = mon.back /\ DOMAIN mon' = DOMAIN mon
    BY <1>1, <2>1
  <2> QED BY <1>3, <2>2
<1>14. CASE Compared
  <2>1. CASE mon' = [mon EXCEPT !.pc = "set", !.call = NoSlot]
    <3>1. mon'.pc = "set" /\ mon'.back = mon.back /\ DOMAIN mon' = DOMAIN mon
      BY <1>1, <2>1
    <3> QED BY <1>3, <3>1
  <2>2. CASE mon' = NextEntry(req[mon.call].replies[1].changed)
    <3>1. mon'.pc = "loop" /\ mon'.back = mon.back /\ DOMAIN mon' = DOMAIN mon
      BY <1>1, <2>2 DEF NextEntry
    <3> QED BY <1>3, <3>1
  <2> QED BY <1>14, <2>1, <2>2 DEF Compared
<1>15. CASE Stored
  <2>1. CASE mon' = [mon EXCEPT !.pc = "loop", !.call = NoSlot,
                                !.changed = Append(mon.changed, mon.i)]
    <3>1. mon'.pc = "loop" /\ mon'.back = mon.back /\ DOMAIN mon' = DOMAIN mon
      BY <1>1, <2>1
    <3> QED BY <1>3, <3>1
  <2>2. CASE Report([mon EXCEPT !.call = NoSlot], "loop")
    <3>1. DOMAIN [mon EXCEPT !.call = NoSlot] = DOMAIN Fresh
      BY <1>1
    <3> QED BY <1>8, <2>2, <3>1
  <2> QED BY <1>15, <2>1, <2>2 DEF Stored
<1> QED BY <1>5, <1>6, <1>7, <1>9, <1>10, <1>12, <1>13, <1>14, <1>15

LEMMA NoticeInit == Init => NoticeInv
  BY DEF Init, InitCache, NoticeInv, Locals, Fresh, TroubleType

LEMMA NoticeNext == NoticeInv /\ [Next]_vars => NoticeInv'
<1> SUFFICES ASSUME NoticeInv, [Next]_vars PROVE NoticeInv'
  OBVIOUS
<1>1. /\ Locals /\ notices \in [Signature -> Nat] /\ trouble \in TroubleType
      /\ trouble' \in TroubleType /\ trouble'.failed >= trouble.failed
  BY TroubleNext, TroubleStep DEF NoticeInv
<1>2. trouble'.failed = 0 => trouble.failed = 0
  BY <1>1 DEF TroubleType
<1>3. /\ DOMAIN mon = DOMAIN Fresh /\ mon.back \in {"ping", "wait", "loop"}
      /\ DOMAIN Fresh = {"pc", "pd", "todo", "caches", "i", "changed", "call", "sig", "back"}
  BY <1>1 DEF Locals, Fresh
<1>4. ASSUME UNCHANGED <<dedup, notices>>, Locals', mon'.pc \notin {"remember", "notify"}
      PROVE  NoticeInv'
  BY <1>1, <1>2, <1>4 DEF NoticeInv
<1>5. CASE \/ Ping \/ Wait \/ Crawl \/ Parse \/ Compare \/ Compared \/ CacheSet \/ Stored
           \/ EndLoop \/ Crash \/ Restart
  <2>1. UNCHANGED <<dedup, notices>>
    BY <1>5 DEF Ping, Wait, Crawl, Parse, Compare, Compared, CacheSet, Stored, EndLoop, Crash,
                Restart, history
  <2> QED BY <1>1, <1>4, <1>5, <2>1, LocalsNext
<1>6. ASSUME UNCHANGED <<mon, dedup, notices>> PROVE NoticeInv'
  <2>1. Locals'
    BY <1>1, <1>6 DEF Locals
  <2> QED BY <1>1, <1>2, <1>6, <2>1 DEF NoticeInv
<1>7. ASSUME Return PROVE Locals' /\ mon'.pc \in {"ping", "wait", "loop"}
  <2>1. mon'.pc = mon.back /\ mon'.back = mon.back /\ DOMAIN mon' = DOMAIN mon
    BY <1>3, <1>7 DEF Return
  <2> QED BY <1>3, <2>1 DEF Locals
<1>8. CASE Lookup
  <2>1. mon.pc = "lookup" /\ mon.sig \in Signature /\ UNCHANGED <<dedup, notices>>
    BY <1>1, <1>8 DEF Lookup, At, Locals, history
  <2>2. CASE Return
    BY <1>4, <1>7, <2>1, <2>2
  <2>3. CASE mon' = [mon EXCEPT !.pc = "remember"] /\ (mon.sig \notin dedup \/ Fault)
    <3>1. mon'.pc = "remember" /\ mon'.sig = mon.sig /\ mon'.back = mon.back /\ DOMAIN mon' = DOMAIN mon
      BY <1>3, <2>3
    <3>2. Fault => trouble'.failed # 0
      BY <1>1, TroubleGrows DEF Fault, TroubleType
    <3> QED BY <1>1, <1>2, <1>3, <2>1, <2>3, <3>1, <3>2 DEF NoticeInv, Locals
  <2> QED BY <1>8, <2>2, <2>3 DEF Lookup
<1>9. CASE Remember
  <2>1. /\ mon.pc = "remember" /\ mon.sig \in Signature /\ notices' = notices
        /\ mon' = [mon EXCEPT !.pc = "notify"]
    BY <1>1, <1>9 DEF Remember, At, Locals, history
  <2>2. mon'.pc = "notify" /\ mon'.sig = mon.sig /\ mon'.back = mon.back /\ DOMAIN mon' = DOMAIN mon
    BY <1>3, <2>1
  <2>3. Locals'
    BY <1>3, <2>1, <2>2 DEF Locals
  <2>4. Fault => trouble'.failed # 0
    BY <1>1, TroubleGrows DEF Fault, TroubleType
  <2>5. CASE dedup' = dedup \cup {mon.sig}
    <3>1. ASSUME trouble'.failed = 0
          PROVE  /\ \A sig \in Signature : notices[sig] <= IF sig \in dedup' THEN 1 ELSE 0
                 /\ notices[mon.sig] = 0
      BY <1>1, <1>2, <2>1, <2>5, <3>1 DEF NoticeInv
    <3> QED BY <1>1, <2>1, <2>2, <2>3, <2>5, <3>1 DEF NoticeInv
  <2>6. CASE Fault
    BY <1>1, <2>1, <2>3, <2>4, <2>6 DEF NoticeInv
  <2> QED BY <1>9, <2>5, <2>6 DEF Remember
<1>10. CASE Notify
  <2>1. /\ mon.pc = "notify" /\ mon.sig \in Signature /\ dedup' = dedup
        /\ notices' \in {notices, [notices EXCEPT ![mon.sig] = @ + 1]}
        /\ Return
    BY <1>1, <1>10 DEF Notify, At, Locals
  <2>2. notices' \in [Signature -> Nat]
    BY <1>1, <2>1
  <2>3. ASSUME trouble'.failed = 0, NEW sig \in Signature
        PROVE  notices'[sig] <= IF sig \in dedup THEN 1 ELSE 0
    BY <1>1, <1>2, <2>1, <2>3 DEF NoticeInv
  <2> QED BY <1>1, <1>7, <2>1, <2>2, <2>3 DEF NoticeInv
<1>11. ASSUME NEW sig \in Signature, Expire(sig) PROVE NoticeInv'
  <2>1. /\ mon' = mon /\ mon.sig # sig /\ dedup' = dedup \ {sig}
        /\ notices' = [notices EXCEPT ![sig] = 0]
    BY <1>11 DEF Expire
  <2>2. Locals'
    BY <1>1, <2>1 DEF Locals
  <2>3. mon.pc = "notify" => mon.sig \in Signature
    BY <1>1 DEF Locals
  <2> QED BY <1>1, <1>2, <2>1, <2>2, <2>3 DEF NoticeInv
<1>12. CASE ClientAsks \/ ClientTakes \/ \E s \in Slot : Service(s)
  BY <1>6, <1>12 DEF ClientAsks, ClientTakes, Service, history
<1>13. CASE UNCHANGED vars
  BY <1>6, <1>13 DEF vars, history
<1> QED BY <1>5, <1>8, <1>9, <1>10, <1>11, <1>12, <1>13 DEF Next, Round

\* Unless Redis failed, the administrators get at most one notice of an error
\* until it expires, whatever crashes and restarts come between.
THEOREM OneNoticePerError == Spec => []NoticeOnce
<1>1. NoticeInv => NoticeOnce
  BY DEF NoticeInv, NoticeOnce
<1> QED BY <1>1, NoticeInit, NoticeNext, PTL DEF Spec

(***************************************************************************)
(* The mail of a round names the changes                                   *)
(***************************************************************************)

InLoop   == mon.pc \in {"loop", "compared", "set", "stored"}
Handling == mon.pc \in {"compared", "set", "stored"}

\* The fragment the loop is at, and those it is done with.
Current    == mon.caches[mon.i].key
Settled(k) == InLoop /\ k \notin mon.todo /\ ~(Handling /\ k = Current)
Changed(k) == last[k] # mon.pd[k] \/ last[k] = Null
AllThere   == \A k \in Fragment : last[k] # Absent

\* The locals outside of the loop and in it: there is an entry of newCaches left
\* for every fragment left, and the one at the index holds the current fragment.
LoopOK ==
  /\ mon.todo \subseteq Fragment /\ mon.changed \in Seq(Nat) /\ mon.i \in Nat \ {0}
  /\ mon.pc \in {"lookup", "remember", "notify"} => mon.back = "wait"
  /\ ~InLoop => mon.i = 1 /\ mon.changed = <<>> /\ mon.todo = {}
  /\ InLoop => DOMAIN mon.caches = 1 .. Cardinality(Fragment)
  /\ mon.pc = "loop" => mon.i + Cardinality(mon.todo) <= Cardinality(Fragment) + 1
  /\ Handling => /\ mon.i + Cardinality(mon.todo) <= Cardinality(Fragment)
                 /\ \E c \in Fragment \ mon.todo : mon.caches[mon.i] = Entry(c)

\* Nobody but the monitor's call touches a fragment.
ReqOK ==
  /\ DOMAIN store = Key /\ DOMAIN req = Slot
  /\ \A s \in Slot : DOMAIN req[s] = DOMAIN Idle
  /\ \A s \in Slot \ {ClientSlot, mon.call} : req[s].pc = "idle"
  /\ req[ClientSlot].pc \in {"read", "write", "delete"} => req[ClientSlot].key \in Key \ Fragment
  /\ mon.pc \in {"compared", "stored"} <=> mon.call # NoSlot
  /\ mon.call # NoSlot => mon.call \in Slot \ {ClientSlot} /\ mon.call \in waiting

\* What the cache holds of the current fragment k while the call that compares,
\* or sets, it is on its way.
Comparing(k) ==
  LET q == req[mon.call]
  IN  /\ q.op = "compare_and_save" /\ q.key = k /\ q.data = mon.pd[k]
      /\ \/ q.pc = "read" /\ store[k] = last[k]
         \/ q.pc = "write" /\ store[k] = last[k] /\ last[k] # Absent /\ Changed(k)
         \/ q.pc = "done" /\ q.replies[1].ok = FALSE /\ store[k] = last[k] /\ last[k] = Absent
         \/ /\ q.pc = "done" /\ q.replies[1].ok = TRUE /\ store[k] = mon.pd[k] /\ last[k] # Absent
            /\ \/ q.replies[1].changed = TRUE /\ Changed(k)
               \/ q.replies[1].changed = FALSE /\ ~Changed(k)

Setting(k) ==
  LET q == req[mon.call]
  IN  /\ q.op = "set" /\ q.key = k /\ q.data = mon.pd[k] /\ last[k] = Absent
      /\ \/ q.pc = "write" /\ store[k] = last[k]
         \/ q.pc = "done" /\ q.replies[1].ok = TRUE /\ store[k] = mon.pd[k]

StoreOK ==
  \A k \in Fragment :
    /\ Settled(k) => store[k] = mon.pd[k]
    /\ ~Settled(k) /\ ~(Handling /\ k = Current) => store[k] = last[k]
    /\ k = Current =>
         /\ mon.pc = "compared" => Comparing(k)
         /\ mon.pc = "set"      => store[k] = last[k] /\ last[k] = Absent
         /\ mon.pc = "stored"   => Setting(k)

\* What the mail would list, and that it lists no fragment twice.
Listed == {mon.caches[n] : n \in ToSet(mon.changed)}
Once   == \A m, n \in DOMAIN mon.changed :
            mon.caches[mon.changed[m]].key = mon.caches[mon.changed[n]].key => m = n

\* So far the pointers into newCaches are those of the settled changes.
MailOK ==
  InLoop /\ AllThere =>
    /\ ToSet(mon.changed) \subseteq 1 .. mon.i - 1
    /\ Listed = {Entry(k) : k \in {j \in Fragment : Settled(j) /\ Changed(j)}}
    /\ Once

RoundInv == LoopOK /\ ReqOK /\ StoreOK /\ MailOK
MailInv  == NoticeInv /\ (Faultless => RoundInv)

LEMMA NoFault ==
  ASSUME NoticeInv, [Next]_vars, Faultless'
  PROVE  Faultless /\ ~Fault /\ ~Trouble("crashed")
<1>1. trouble \in TroubleType /\ trouble' \in TroubleType
  BY TroubleNext, TroubleStep DEF NoticeInv
<1>2. trouble'.failed + trouble'.crashed = 0
  BY DEF Faultless
<1>3. trouble'.failed = 0 /\ trouble'.crashed = 0
  BY <1>1, <1>2 DEF TroubleType
<1>4. ~Trouble("failed") /\ ~Trouble("crashed")
  BY <1>1, <1>3, TroubleGrows DEF TroubleType
<1>5. UNCHANGED trouble \/ Trouble("asked")
  BY <1>4, TroubleNext
<1>6. trouble'.failed = trouble.failed /\ trouble'.crashed = trouble.crashed
  BY <1>1, <1>5, TroubleGrows
<1> QED BY <1>3, <1>4, <1>6 DEF Faultless, Fault

LEMMA AppendToSet ==
  ASSUME NEW q \in Seq(Nat), NEW n \in Nat
  PROVE  Append(q, n) \in Seq(Nat) /\ ToSet(Append(q, n)) = ToSet(q) \cup {n}
<1>1. /\ Append(q, n) \in Seq(Nat) /\ Len(q) \in Nat
      /\ DOMAIN Append(q, n) = 1 .. Len(q) + 1 /\ DOMAIN q = 1 .. Len(q)
      /\ \A j \in 1 .. Len(q) : Append(q, n)[j] = q[j]
      /\ Append(q, n)[Len(q) + 1] = n
  OBVIOUS
<1>2. ToSet(Append(q, n)) = {Append(q, n)[j] : j \in 1 .. Len(q) + 1}
  BY <1>1 DEF ToSet
<1>3. ToSet(q) = {q[j] : j \in 1 .. Len(q)}
  BY <1>1 DEF ToSet
<1>4. 1 .. Len(q) + 1 = 1 .. Len(q) \cup {Len(q) + 1}
  BY <1>1
<1> QED BY <1>1, <1>2, <1>3, <1>4

\* A step of the cache or of its other client.
LEMMA OtherStep ==
  ASSUME RoundInv, UNCHANGED <<mon, last>>, ReqOK',
         \A k \in Fragment : store'[k] = store[k],
         mon.call # NoSlot => req'[mon.call] = req[mon.call]
  PROVE  RoundInv'
<1>1. LoopOK /\ ReqOK /\ StoreOK /\ MailOK
  BY DEF RoundInv
<1>2. LoopOK'
  BY <1>1 DEF LoopOK, InLoop, Handling, Entry
<1>3. /\ Handling' <=> Handling
      /\ Current' = Current
      /\ \A k \in Fragment : (Settled(k)' <=> Settled(k)) /\ (Changed(k)' <=> Changed(k))
  BY DEF Handling, Current, Settled, Changed, InLoop
<1>4. StoreOK'
  <2> SUFFICES ASSUME NEW k \in Fragment
               PROVE  /\ Settled(k)' => store'[k] = mon'.pd[k]
                      /\ ~Settled(k)' /\ ~(Handling' /\ k = Current') => store'[k] = last'[k]
                      /\ k = Current' =>
                           /\ mon'.pc = "compared" => Comparing(k)'
                           /\ mon'.pc = "set" => store'[k] = last'[k] /\ last'[k] = Absent
                           /\ mon'.pc = "stored" => Setting(k)'
    BY DEF StoreOK
  <2>1. /\ Settled(k) => store[k] = mon.pd[k]
        /\ ~Settled(k) /\ ~(Handling /\ k = Current) => store[k] = last[k]
        /\ k = Current =>
             /\ mon.pc = "compared" => Comparing(k)
             /\ mon.pc = "set" => store[k] = last[k] /\ last[k] = Absent
             /\ mon.pc = "stored" => Setting(k)
    BY <1>1 DEF StoreOK
  <2>2. store'[k] = store[k] /\ mon' = mon /\ last' = last
    OBVIOUS
  <2>3. mon.pc = "compared" /\ Comparing(k) => Comparing(k)'
    BY <1>1, <2>2 DEF ReqOK, Comparing, Changed
  <2>4. mon.pc = "stored" /\ Setting(k) => Setting(k)'
    BY <1>1, <2>2 DEF ReqOK, Setting
  <2> QED BY <1>3, <2>1, <2>2, <2>3, <2>4
<1>5. MailOK'
  BY <1>1, <1>3 DEF MailOK, InLoop, AllThere, Listed, Once, Entry
<1> QED BY <1>2, <1>4, <1>5 DEF RoundInv

\* A step of the monitor that ends outside of the loop.
LEMMA OutsideStep ==
  ASSUME ReqOK, mon.call = NoSlot, UNCHANGED <<store, req, waiting>>, ~InLoop',
         mon'.pc \in {"lookup", "remember", "notify"} => mon'.back = "wait",
         mon'.i = 1, mon'.changed = <<>>, mon'.todo = {}, mon'.call = NoSlot,
         \A k \in Fragment : store[k] = last'[k]
  PROVE  RoundInv'
<1>1. /\ ~Handling'
      /\ mon'.pc \notin {"loop", "compared", "set", "stored"}
      /\ \A k \in Fragment : ~Settled(k)'
  BY DEF InLoop, Handling, Settled
<1>2. LoopOK'
  BY <1>1 DEF LoopOK
<1>3. ReqOK'
  BY <1>1 DEF ReqOK
<1>4. StoreOK'
  BY <1>1 DEF StoreOK
<1>5. MailOK'
  BY DEF MailOK
<1> QED BY <1>2, <1>3, <1>4, <1>5 DEF RoundInv

\* Where the loop is while it handles a fragment.
LEMMA AtFragment ==
  ASSUME RoundInv, Handling
  PROVE  \E c \in Fragment \ mon.todo : mon.caches[mon.i] = Entry(c) /\ Current = c
<1>1. PICK c \in Fragment \ mon.todo : mon.caches[mon.i] = Entry(c)
  BY DEF RoundInv, LoopOK
<1>2. Current = c
  BY <1>1 DEF Current, Entry
<1> QED BY <1>1, <1>2

\* The call of the monitor progresses: the cache may take the new content of
\* the current fragment.
LEMMA CallProgress ==
  ASSUME RoundInv, UNCHANGED <<mon, last, waiting>>, mon.call # NoSlot,
         NEW c \in Fragment, Current = c,
         NEW q, DOMAIN q = DOMAIN Idle, req' = [req EXCEPT ![mon.call] = q],
         NEW v, store' = store \/ store' = [store EXCEPT ![c] = v],
         mon.pc = "compared" => Comparing(c)',
         mon.pc = "stored" => Setting(c)'
  PROVE  RoundInv'
<1>1. LoopOK /\ ReqOK /\ StoreOK /\ MailOK
  BY DEF RoundInv
<1>2. LoopOK'
  BY <1>1 DEF LoopOK, InLoop, Handling, Entry
<1>3. /\ Handling' <=> Handling
      /\ Current' = Current
      /\ \A k \in Fragment : (Settled(k)' <=> Settled(k)) /\ (Changed(k)' <=> Changed(k))
  BY DEF Handling, Current, Settled, Changed, InLoop
<1>4. /\ mon.call \in Slot \ {ClientSlot} /\ mon.pc \in {"compared", "stored"}
      /\ DOMAIN req' = Slot /\ \A s \in Slot \ {mon.call} : req'[s] = req[s]
      /\ req'[mon.call] = q
      /\ DOMAIN store' = Key /\ \A k \in Fragment \ {c} : store'[k] = store[k]
  BY <1>1, MonitorAssumption DEF ReqOK
<1>5. ReqOK'
  BY <1>1, <1>4, MonitorAssumption DEF ReqOK
<1>6. StoreOK'
  <2> SUFFICES ASSUME NEW k \in Fragment
               PROVE  /\ Settled(k)' => store'[k] = mon'.pd[k]
                      /\ ~Settled(k)' /\ ~(Handling' /\ k = Current') => store'[k] = last'[k]
                      /\ k = Current' =>
                           /\ mon'.pc = "compared" => Comparing(k)'
                           /\ mon'.pc = "set" => store'[k] = last'[k] /\ last'[k] = Absent
                           /\ mon'.pc = "stored" => Setting(k)'
    BY DEF StoreOK
  <2>1. Handling /\ mon.pc # "set"
    BY <1>4 DEF Handling
  <2>2. CASE k = c
    BY <1>3, <2>1, <2>2 DEF Settled
  <2>3. CASE k # c
    BY <1>1, <1>3, <1>4, <2>1, <2>3 DEF StoreOK
  <2> QED BY <2>2, <2>3
<1>7. MailOK'
  BY <1>1, <1>3 DEF MailOK, InLoop, AllThere, Listed, Once, Entry
<1> QED BY <1>2, <1>5, <1>6, <1>7 DEF RoundInv

\* The handler of the monitor's call.
LEMMA CallStep ==
  ASSUME RoundInv, mon.call # NoSlot, Handle(mon.call), ~Fault, UNCHANGED <<mon, last>>
  PROVE  RoundInv'
<1>1. LoopOK /\ ReqOK /\ StoreOK /\ MailOK
  BY DEF RoundInv
<1>2. mon.pc \in {"compared", "stored"} /\ Handling /\ mon.call \in waiting
  BY <1>1 DEF ReqOK, Handling
<1>3. PICK c \in Fragment \ mon.todo : Current = c
  BY <1>2, AtFragment
<1>4. /\ mon.pc = "compared" => Comparing(c)
      /\ mon.pc = "stored" => Setting(c)
  BY <1>1, <1>3 DEF StoreOK
<1>5. PICK s \in Slot : s = mon.call
  BY <1>1 DEF ReqOK
<1>6. DOMAIN req[s] = DOMAIN Idle /\ DOMAIN req = Slot /\ c \in Key /\ DOMAIN store = Key
  BY <1>1, <1>5, MonitorAssumption DEF ReqOK
<1>7. DOMAIN Idle = {"pc", "op", "key", "data", "old", "replies"}
  BY DEF Idle
<1> DEFINE Answer(r) == [req[s] EXCEPT !.pc = "done", !.replies = <<r>>]
<1>8. ASSUME NEW r, Respond(s, <<r>>)
      PROVE  /\ req' = [req EXCEPT ![s] = Answer(r)]
             /\ DOMAIN Answer(r) = DOMAIN Idle
             /\ Answer(r).pc = "done" /\ Answer(r).replies[1] = r
             /\ Answer(r).op = req[s].op /\ Answer(r).key = req[s].key
             /\ Answer(r).data = req[s].data
  <2>1. req' = [req EXCEPT ![s] = Answer(r)]
    BY <1>2, <1>5, <1>8 DEF Respond
  <2>2. <<r>>[1] = r
    OBVIOUS
  <2> QED BY <1>6, <1>7, <2>1, <2>2
<1> HIDE DEF Answer
<1>9. Err.ok = FALSE /\ \A b, v : Ok(b, v).ok = TRUE /\ Ok(b, v).changed = b
  BY DEF Err, Ok
<1>10. CASE Read(s)
  <2>1. /\ req[s].pc = "read" /\ mon.pc = "compared" /\ Comparing(c)
        /\ UNCHANGED <<store, waiting>>
    BY <1>2, <1>4, <1>5, <1>10 DEF Read, Setting
  <2>2. /\ req[s].op = "compare_and_save" /\ req[s].key = c /\ req[s].data = mon.pd[c]
        /\ store[c] = last[c]
    BY <1>5, <2>1 DEF Comparing
  <2>3. CASE last[c] = Absent
    <3>1. Respond(s, <<Err>>)
      BY <1>10, <2>2, <2>3 DEF Read, ReadFailed
    <3>2. req'[s] = Answer(Err) /\ DOMAIN Answer(Err) = DOMAIN Idle
      BY <1>6, <1>8, <3>1
    <3>3. Comparing(c)'
      BY <1>5, <1>8, <1>9, <2>1, <2>2, <2>3, <3>1, <3>2 DEF Comparing
    <3> QED BY <1>3, <1>5, <1>8, <2>1, <3>1, <3>2, <3>3, CallProgress
  <2>4. CASE last[c] # Absent /\ ~CompareData(last[c], mon.pd[c])
    <3> DEFINE r == Ok(FALSE, Absent)
    <3>1. Respond(s, <<r>>) /\ r.ok = TRUE /\ r.changed = FALSE
      BY <1>9, <1>10, <2>2, <2>4 DEF Read
    <3> HIDE DEF r
    <3>2. req'[s] = Answer(r) /\ DOMAIN Answer(r) = DOMAIN Idle
      BY <1>6, <1>8, <3>1
    <3>3. ~Changed(c) /\ last[c] = mon.pd[c]
      BY <2>4 DEF Changed, CompareData
    <3>4. Comparing(c)'
      BY <1>5, <1>8, <1>9, <2>1, <2>2, <2>4, <3>1, <3>2, <3>3 DEF Comparing, Changed
    <3> QED BY <1>3, <1>5, <1>8, <2>1, <3>1, <3>2, <3>4, CallProgress
  <2>5. CASE last[c] # Absent /\ CompareData(last[c], mon.pd[c])
    <3> DEFINE q == [req[s] EXCEPT !.pc = "write", !.old = store[req[s].key]]
    <3>1. req' = [req EXCEPT ![s].pc = "write", ![s].old = store[req[s].key]]
      BY <1>10, <2>2, <2>5 DEF Read
    <3>2. req' = [req EXCEPT ![s] = q]
      BY <1>6, <3>1
    <3>3. /\ DOMAIN q = DOMAIN Idle /\ q.pc = "write" /\ q.op = req[s].op
          /\ q.key = req[s].key /\ q.data = req[s].data
      BY <1>6, <1>7
    <3> HIDE DEF q
    <3>4. req'[s] = q
      BY <1>6, <3>2
    <3>5. Changed(c)
      BY <2>5 DEF Changed, CompareData
    <3>6. Comparing(c)'
      BY <1>5, <2>1, <2>2, <2>5, <3>3, <3>4, <3>5 DEF Comparing, Changed
    <3> QED BY <1>3, <1>5, <2>1, <3>2, <3>3, <3>6, CallProgress
  <2> QED BY <2>3, <2>4, <2>5
<1>11. CASE Write(s)
  <2>1. req[s].pc = "write" /\ req[s].key = c /\ req[s].data = mon.pd[c] /\ UNCHANGED waiting
    BY <1>2, <1>4, <1>5, <1>11 DEF Write, Execute, Comparing, Setting
  <2>2. store' = [store EXCEPT ![c] = mon.pd[c]] /\ store'[c] = mon.pd[c]
    BY <1>6, <1>11, <2>1 DEF Write, Execute
  <2>3. CASE mon.pc = "compared"
    <3>1. /\ Comparing(c) /\ req[s].op = "compare_and_save" /\ Changed(c)
          /\ last[c] # Absent
      BY <1>4, <1>5, <2>1, <2>3 DEF Comparing
    <3> DEFINE r == Ok(TRUE, Absent)
    <3>2. Respond(s, <<r>>) /\ r.ok = TRUE /\ r.changed = TRUE
      BY <1>9, <1>11, <3>1 DEF Write, Execute
    <3> HIDE DEF r
    <3>3. req'[s] = Answer(r) /\ DOMAIN Answer(r) = DOMAIN Idle
      BY <1>6, <1>8, <3>2
    <3>4. Comparing(c)'
      BY <1>5, <1>8, <1>9, <2>1, <2>2, <3>1, <3>2, <3>3 DEF Comparing, Changed
    <3> QED BY <1>3, <1>5, <1>8, <2>1, <2>2, <2>3, <3>2, <3>3, <3>4, CallProgress
  <2>4. CASE mon.pc = "stored"
    <3>1. Setting(c) /\ req[s].op = "set" /\ last[c] = Absent
      BY <1>4, <1>5, <2>4 DEF Setting
    <3> DEFINE r == Ok(FALSE, Absent)
    <3>2. Respond(s, <<r>>) /\ r.ok = TRUE
      BY <1>9, <1>11, <3>1 DEF Write, Execute
    <3> HIDE DEF r
    <3>3. req'[s] = Answer(r) /\ DOMAIN Answer(r) = DOMAIN Idle
      BY <1>6, <1>8, <3>2
    <3>4. Setting(c)'
      BY <1>5, <1>8, <1>9, <2>1, <2>2, <3>1, <3>2, <3>3 DEF Setting
    <3> QED BY <1>3, <1>5, <1>8, <2>1, <2>2, <2>4, <3>2, <3>3, <3>4, CallProgress
  <2> QED BY <1>2, <2>3, <2>4
<1>12. CASE Delete(s)
  BY <1>2, <1>4, <1>5, <1>12 DEF Delete, Comparing, Setting
<1> QED BY <1>5, <1>10, <1>11, <1>12 DEF Handle

LEMMA TodoSize ==
  ASSUME NEW S \in SUBSET Fragment
  PROVE  /\ Cardinality(S) \in Nat /\ Cardinality(Fragment) \in Nat
         /\ Cardinality(S) <= Cardinality(Fragment)
         /\ \A k \in S : Cardinality(S \ {k}) = Cardinality(S) - 1 /\ Cardinality(S) >= 1
<1>1. IsFiniteSet(S) /\ Cardinality(S) \in Nat /\ Cardinality(Fragment) \in Nat
      /\ Cardinality(S) <= Cardinality(Fragment)
  BY MonitorAssumption, FS_Subset, FS_CardinalityType
<1>2. ASSUME NEW k \in S PROVE Cardinality(S \ {k}) = Cardinality(S) - 1 /\ Cardinality(S) >= 1
  <2>1. Cardinality(S \ {k}) = Cardinality(S) - 1
    BY <1>1, FS_RemoveElement
  <2>2. Cardinality(S \ {k}) \in Nat
    BY <1>1, FS_Subset, FS_CardinalityType
  <2> QED BY <1>1, <2>1, <2>2
<1> QED BY <1>1, <1>2

\* A request of the monitor, when nothing fails.
LEMMA SendStep ==
  ASSUME ReqOK, mon.call = NoSlot, ~Fault, NEW op, NEW entry, NEW m, Send(op, entry, m),
         op \in {"compare_and_save", "set"}
  PROVE  \E s \in Slot \ {ClientSlot} :
           /\ mon' = [m EXCEPT !.call = s]
           /\ store' = store /\ s \in waiting'
           /\ DOMAIN req' = Slot /\ \A t \in Slot \ {s} : req'[t] = req[t]
           /\ DOMAIN req'[s] = DOMAIN Idle
           /\ req'[s].pc = IF op = "set" THEN "write" ELSE "read"
           /\ req'[s].op = op /\ req'[s].key = entry.key /\ req'[s].data = entry.data
<1>1. PICK s \in FreeSlots : Ask(s, op, entry.key, entry.data) /\ mon' = [m EXCEPT !.call = s]
  BY DEF Send
<1>2. s \in Slot \ {ClientSlot} /\ store' = store
  BY <1>1 DEF FreeSlots, Send
<1> DEFINE q == [Idle EXCEPT !.op = op, !.key = entry.key, !.data = entry.data,
                   !.pc = CASE op = "set" -> "write" [] op = "delete" -> "delete" [] OTHER -> "read"]
<1>3. req' = [req EXCEPT ![s] = q] /\ waiting' = waiting \cup {s}
  BY <1>1 DEF Ask
<1>4. /\ DOMAIN q = DOMAIN Idle /\ q.op = op /\ q.key = entry.key /\ q.data = entry.data
      /\ q.pc = IF op = "set" THEN "write" ELSE "read"
  BY DEF Idle
<1> HIDE DEF q
<1>5. req'[s] = q /\ DOMAIN req' = Slot /\ \A t \in Slot \ {s} : req'[t] = req[t]
  BY <1>2, <1>3 DEF ReqOK
<1> QED BY <1>1, <1>2, <1>3, <1>4, <1>5

\* The fields of the monitor's locals.
LEMMA Fields == DOMAIN Fresh = {"pc", "pd", "todo", "caches", "i", "changed", "call", "sig", "back"}
  BY DEF Fresh

LEMMA CompareStep ==
  ASSUME Locals, RoundInv, Compare, ~Fault
  PROVE  RoundInv'
<1>1. LoopOK /\ ReqOK /\ StoreOK /\ MailOK /\ DOMAIN mon = DOMAIN Fresh
  BY DEF RoundInv, Locals
<1>2. mon.pc = "loop" /\ InLoop /\ ~Handling /\ mon.call = NoSlot /\ last' = last
  BY <1>1 DEF Compare, At, InLoop, Handling, ReqOK, history
<1>3. PICK k \in mon.todo :
        Send("compare_and_save", [key |-> k, data |-> mon.pd[k]],
             [mon EXCEPT !.pc = "compared", !.caches[mon.i] = [key |-> k, data |-> mon.pd[k]],
                         !.todo = mon.todo \ {k}])
  BY DEF Compare
<1> DEFINE entry == [key |-> k, data |-> mon.pd[k]]
           m == [mon EXCEPT !.pc = "compared", !.caches[mon.i] = entry, !.todo = mon.todo \ {k}]
<1>4. PICK s \in Slot \ {ClientSlot} :
        /\ mon' = [m EXCEPT !.call = s]
        /\ store' = store /\ s \in waiting'
        /\ DOMAIN req' = Slot /\ \A t \in Slot \ {s} : req'[t] = req[t]
        /\ DOMAIN req'[s] = DOMAIN Idle /\ req'[s].pc = "read" /\ req'[s].op = "compare_and_save"
        /\ req'[s].key = entry.key /\ req'[s].data = entry.data
  <2> HIDE DEF entry, m
  <2>1. Send("compare_and_save", entry, m)
    BY <1>3 DEF entry, m
  <2> QED BY <1>1, <1>2, <2>1, SendStep
<1>5. entry.key = k /\ entry.data = mon.pd[k]
  OBVIOUS
<1>6. /\ mon'.pc = "compared" /\ mon'.caches = [mon.caches EXCEPT ![mon.i] = entry]
      /\ mon'.todo = mon.todo \ {k} /\ mon'.call = s /\ mon'.i = mon.i /\ mon'.pd = mon.pd
      /\ mon'.changed = mon.changed
  <2> HIDE DEF entry
  <2> QED BY <1>1, <1>4, Fields
<1> HIDE DEF entry, m
<1>7. /\ k \in Fragment /\ mon.todo \subseteq Fragment /\ mon.i \in Nat \ {0}
      /\ mon.i + Cardinality(mon.todo) <= Cardinality(Fragment) + 1
      /\ DOMAIN mon.caches = 1 .. Cardinality(Fragment)
  BY <1>1, <1>2 DEF LoopOK
<1>8. /\ mon.i + Cardinality(mon.todo \ {k}) <= Cardinality(Fragment)
      /\ Cardinality(Fragment) \in Nat /\ mon.i \in 1 .. Cardinality(Fragment)
  <2>1. /\ Cardinality(mon.todo) \in Nat /\ Cardinality(Fragment) \in Nat
        /\ Cardinality(mon.todo \ {k}) = Cardinality(mon.todo) - 1 /\ Cardinality(mon.todo) >= 1
    BY <1>7, TodoSize
  <2> QED BY <1>7, <2>1
<1>9. /\ mon'.caches[mon.i] = entry /\ DOMAIN mon'.caches = DOMAIN mon.caches
      /\ \A n \in 1 .. Cardinality(Fragment) : n # mon.i => mon'.caches[n] = mon.caches[n]
  BY <1>6, <1>7, <1>8
<1>10. entry = Entry(k)' /\ Current' = k
  BY <1>5, <1>6, <1>9 DEF Entry, Current, entry
<1>11. LoopOK'
  <2>1. InLoop' /\ Handling' /\ mon'.pc = "compared"
    BY <1>6 DEF InLoop, Handling
  <2>2. k \in Fragment \ mon'.todo /\ mon'.caches[mon'.i] = Entry(k)'
    BY <1>6, <1>7, <1>9, <1>10
  <2>3. \E c \in Fragment \ mon'.todo : mon'.caches[mon'.i] = Entry(c)'
    BY <2>2 DEF Entry
  <2> QED BY <1>1, <1>6, <1>7, <1>8, <1>9, <2>1, <2>3 DEF LoopOK
<1>12. ReqOK'
  BY <1>1, <1>2, <1>4, <1>6, MonitorAssumption DEF ReqOK
<1>13. \A j \in Fragment : /\ Settled(j)' <=> Settled(j)
                           /\ Changed(j)' <=> Changed(j)
                           /\ Entry(j)' = Entry(j)
  BY <1>2, <1>6, <1>7, <1>10 DEF Settled, Changed, Entry, InLoop, Handling
<1>14. StoreOK'
  <2> SUFFICES ASSUME NEW j \in Fragment
               PROVE  /\ Settled(j)' => store'[j] = mon'.pd[j]
                      /\ ~Settled(j)' /\ ~(Handling' /\ j = Current') => store'[j] = last'[j]
                      /\ j = Current' =>
                           /\ mon'.pc = "compared" => Comparing(j)'
                           /\ mon'.pc = "set" => store'[j] = last'[j] /\ last'[j] = Absent
                           /\ mon'.pc = "stored" => Setting(j)'
    BY DEF StoreOK
  <2>1. /\ Settled(j) => store[j] = mon.pd[j]
        /\ ~Settled(j) => store[j] = last[j]
    BY <1>1, <1>2 DEF StoreOK
  <2>2. ~Settled(k)
    BY DEF Settled
  <2>3. Comparing(k)'
    BY <1>1, <1>2, <1>4, <1>5, <1>6, <1>7, <2>2 DEF Comparing, StoreOK
  <2> QED BY <1>2, <1>4, <1>6, <1>10, <1>13, <2>1, <2>3
<1>15. MailOK'
  <2> SUFFICES ASSUME AllThere
               PROVE  /\ ToSet(mon.changed) \subseteq 1 .. mon.i - 1
                      /\ Listed' = {Entry(j)' : j \in {j \in Fragment : Settled(j)' /\ Changed(j)'}}
                      /\ Once'
    BY <1>2, <1>6 DEF MailOK, AllThere
  <2>1. /\ ToSet(mon.changed) \subseteq 1 .. mon.i - 1
        /\ Listed = {Entry(j) : j \in {j \in Fragment : Settled(j) /\ Changed(j)}}
        /\ Once
    BY <1>1, <1>2 DEF MailOK
  <2>2. \A n \in ToSet(mon.changed) : mon'.caches[n] = mon.caches[n]
    <3>1. \A n \in 1 .. mon.i - 1 : n \in 1 .. Cardinality(Fragment) /\ n # mon.i
      BY <1>7, <1>8
    <3> QED BY <1>9, <2>1, <3>1
  <2>3. Listed' = Listed
    BY <1>6, <2>2 DEF Listed
  <2>4. Once'
    <3>1. \A n \in DOMAIN mon.changed : mon'.caches[mon.changed[n]] = mon.caches[mon.changed[n]]
      BY <2>2 DEF ToSet
    <3> QED BY <1>6, <2>1, <3>1 DEF Once
  <2> QED BY <1>13, <2>1, <2>3, <2>4
<1> QED BY <1>11, <1>12, <1>14, <1>15 DEF RoundInv

\* The call is over: its slot is free again.
LEMMA TakeStep ==
  ASSUME ReqOK, mon.call # NoSlot, Take(mon.call), UNCHANGED store,
         mon'.call = NoSlot, mon'.pc \notin {"compared", "stored"}
  PROVE  ReqOK'
<1>1. PICK s \in Slot \ {ClientSlot} : s = mon.call
  BY DEF ReqOK
<1>2. DOMAIN req' = Slot /\ req'[s] = Idle /\ \A t \in Slot \ {s} : req'[t] = req[t]
  BY <1>1 DEF ReqOK, Take
<1>3. Idle.pc = "idle"
  BY DEF Idle
<1>4. \A t \in Slot : DOMAIN req'[t] = DOMAIN Idle
  BY <1>2 DEF ReqOK
<1>5. \A t \in Slot \ {ClientSlot} : req'[t].pc = "idle"
  BY <1>1, <1>2, <1>3 DEF ReqOK
<1>6. req'[ClientSlot] = req[ClientSlot]
  BY <1>1, <1>2, MonitorAssumption
<1> QED BY <1>2, <1>4, <1>5, <1>6 DEF ReqOK

LEMMA ComparedStep ==
  ASSUME Locals, RoundInv, Compared, ~Fault
  PROVE  RoundInv'
<1>1. LoopOK /\ ReqOK /\ StoreOK /\ MailOK /\ DOMAIN mon = DOMAIN Fresh
  BY DEF RoundInv, Locals
<1>2. mon.pc = "compared" /\ InLoop /\ Handling /\ mon.call # NoSlot /\ last' = last
  BY <1>1 DEF Compared, At, InLoop, Handling, ReqOK, history
<1>3. PICK c \in Fragment \ mon.todo : mon.caches[mon.i] = Entry(c) /\ Current = c
  BY <1>2, AtFragment
<1>4. Comparing(c)
  BY <1>1, <1>2, <1>3 DEF StoreOK
<1>5. /\ mon.todo \subseteq Fragment /\ mon.i \in Nat \ {0} /\ mon.changed \in Seq(Nat)
      /\ mon.i + Cardinality(mon.todo) <= Cardinality(Fragment)
      /\ DOMAIN mon.caches = 1 .. Cardinality(Fragment)
      /\ Cardinality(mon.todo) \in Nat /\ Cardinality(Fragment) \in Nat
  BY <1>1, <1>2, TodoSize DEF LoopOK
<1>6. /\ Take(mon.call) /\ store' = store /\ req[mon.call].pc = "done"
      /\ \/ ~req[mon.call].replies[1].ok /\ mon' = [mon EXCEPT !.pc = "set", !.call = NoSlot]
         \/ /\ req[mon.call].replies[1].ok
            /\ mon' = NextEntry(req[mon.call].replies[1].changed)
  BY <1>2 DEF Compared, Failed, Answered, GiveUp, Take
<1>7. CASE /\ ~req[mon.call].replies[1].ok
           /\ mon' = [mon EXCEPT !.pc = "set", !.call = NoSlot]
  <2>1. /\ mon'.pc = "set" /\ mon'.call = NoSlot /\ mon'.caches = mon.caches /\ mon'.i = mon.i
        /\ mon'.todo = mon.todo /\ mon'.pd = mon.pd /\ mon'.changed = mon.changed
    BY <1>1, <1>7, Fields
  <2>2. InLoop' /\ Handling' /\ Current' = Current
    BY <2>1 DEF InLoop, Handling, Current
  <2>3. \A j \in Fragment : (Settled(j)' <=> Settled(j)) /\ Entry(j)' = Entry(j)
    BY <1>2, <2>1, <2>2 DEF Settled, Entry
  <2>4. LoopOK'
    BY <1>1, <1>2, <1>3, <1>5, <2>1, <2>2, <2>3 DEF LoopOK
  <2>5. ReqOK'
    BY <1>1, <1>2, <1>6, <2>1, TakeStep
  <2>6. store[c] = last[c] /\ last[c] = Absent
    BY <1>4, <1>6, <1>7 DEF Comparing
  <2>7. StoreOK'
    BY <1>1, <1>2, <1>3, <1>6, <2>1, <2>2, <2>3, <2>6 DEF StoreOK
  <2>8. MailOK'
    BY <1>2, <2>6 DEF MailOK, AllThere
  <2> QED BY <2>4, <2>5, <2>7, <2>8 DEF RoundInv
<1>8. CASE /\ req[mon.call].replies[1].ok
           /\ mon' = NextEntry(req[mon.call].replies[1].changed)
  <2>1. PICK b \in BOOLEAN : b = req[mon.call].replies[1].changed /\ (b <=> Changed(c))
    <3>1. \/ req[mon.call].replies[1].changed = TRUE /\ Changed(c)
          \/ req[mon.call].replies[1].changed = FALSE /\ ~Changed(c)
      BY <1>4, <1>6, <1>8 DEF Comparing
    <3> QED BY <3>1
  <2>2. store[c] = mon.pd[c]
    BY <1>4, <1>6, <1>8 DEF Comparing
  <2>3. /\ mon'.pc = "loop" /\ mon'.call = NoSlot /\ mon'.caches = mon.caches
        /\ mon'.i = mon.i + 1 /\ mon'.todo = mon.todo /\ mon'.pd = mon.pd
        /\ mon'.changed = IF b THEN Append(mon.changed, mon.i) ELSE mon.changed
    BY <1>1, <1>8, <2>1, Fields DEF NextEntry
  <2>4. InLoop' /\ ~Handling'
    BY <2>3 DEF InLoop, Handling
  <2>5. \A j \in Fragment : /\ Settled(j)' <=> Settled(j) \/ j = c
                            /\ Changed(j)' <=> Changed(j)
                            /\ Entry(j)' = Entry(j)
    BY <1>2, <1>3, <2>3, <2>4 DEF Settled, Changed, Entry
  <2>6. /\ mon'.changed \in Seq(Nat)
        /\ ToSet(mon'.changed) = ToSet(mon.changed) \cup (IF b THEN {mon.i} ELSE {})
    BY <1>5, <2>3, AppendToSet
  <2>7. LoopOK'
    BY <1>1, <1>5, <2>3, <2>4, <2>6 DEF LoopOK
  <2>8. ReqOK'
    BY <1>1, <1>2, <1>6, <2>3, TakeStep
  <2>9. StoreOK'
    BY <1>1, <1>2, <1>3, <1>6, <2>2, <2>3, <2>4, <2>5 DEF StoreOK
  <2>10. MailOK'
    <3> SUFFICES ASSUME AllThere
                 PROVE  /\ ToSet(mon'.changed) \subseteq 1 .. mon'.i - 1
                        /\ Listed' = {Entry(j)' : j \in {j \in Fragment : Settled(j)' /\ Changed(j)'}}
                        /\ Once'
      BY <1>2 DEF MailOK, AllThere
    <3>1. /\ ToSet(mon.changed) \subseteq 1 .. mon.i - 1
          /\ Listed = {Entry(j) : j \in {j \in Fragment : Settled(j) /\ Changed(j)}}
          /\ Once
      BY <1>1, <1>2 DEF MailOK
    <3>2. ToSet(mon'.changed) \subseteq 1 .. mon'.i - 1
      BY <1>5, <2>3, <2>6, <3>1
    <3>3. Listed' = Listed \cup (IF b THEN {Entry(c)} ELSE {})
      <4>1. Listed' = {mon.caches[n] : n \in ToSet(mon'.changed)}
        BY <2>3 DEF Listed
      <4> QED BY <1>3, <2>6, <4>1 DEF Listed
    <3>6. Once'
      <4>1. CASE ~b
        BY <2>3, <3>1, <4>1 DEF Once
      <4>2. CASE b
        <5>1. /\ DOMAIN mon'.changed = 1 .. Len(mon.changed) + 1 /\ Len(mon.changed) \in Nat
              /\ DOMAIN mon.changed = 1 .. Len(mon.changed)
              /\ mon'.changed[Len(mon.changed) + 1] = mon.i
              /\ \A n \in DOMAIN mon.changed : mon'.changed[n] = mon.changed[n]
          BY <1>5, <2>3, <4>2
        <5>2. mon.caches[mon.i].key = c
          BY <1>3 DEF Current
        <5>3. ASSUME NEW n \in DOMAIN mon.changed PROVE mon.caches[mon.changed[n]].key # c
          <6>1. mon.caches[mon.changed[n]] \in Listed
            BY DEF Listed, ToSet
          <6>2. PICK j \in Fragment : Settled(j) /\ mon.caches[mon.changed[n]] = Entry(j)
            BY <3>1, <6>1
          <6>3. Entry(j).key = j /\ j # c
            BY <1>2, <1>3, <6>2 DEF Entry, Settled
          <6> QED BY <6>2, <6>3
        <5>4. ASSUME NEW m \in DOMAIN mon'.changed, NEW n \in DOMAIN mon'.changed,
                     mon.caches[mon'.changed[m]].key = mon.caches[mon'.changed[n]].key
              PROVE  m = n
          <6>1. \A x \in DOMAIN mon'.changed : x \in DOMAIN mon.changed \/ x = Len(mon.changed) + 1
            BY <5>1
          <6>2. CASE m \in DOMAIN mon.changed /\ n \in DOMAIN mon.changed
            BY <3>1, <5>1, <5>4, <6>2 DEF Once
          <6> QED BY <5>1, <5>2, <5>3, <5>4, <6>1, <6>2
        <5> QED BY <2>3, <5>4 DEF Once
      <4> QED BY <4>1, <4>2
    <3>4. {j \in Fragment : Settled(j)' /\ Changed(j)'}
            = {j \in Fragment : Settled(j) /\ Changed(j)} \cup (IF b THEN {c} ELSE {})
      BY <2>1, <2>5
    <3>5. {Entry(j)' : j \in {j \in Fragment : Settled(j)' /\ Changed(j)'}}
            = {Entry(j) : j \in {j \in Fragment : Settled(j)' /\ Changed(j)'}}
      BY <2>5
    <3> QED BY <3>1, <3>2, <3>3, <3>4, <3>5, <3>6
  <2> QED BY <2>7, <2>8, <2>9, <2>10 DEF RoundInv
<1> QED BY <1>6, <1>7, <1>8

LEMMA CacheSetStep ==
  ASSUME Locals, RoundInv, CacheSet, ~Fault
  PROVE  RoundInv'
<1>1. LoopOK /\ ReqOK /\ StoreOK /\ MailOK /\ DOMAIN mon = DOMAIN Fresh
  BY DEF RoundInv, Locals
<1>2. mon.pc = "set" /\ InLoop /\ Handling /\ mon.call = NoSlot /\ last' = last
  BY <1>1 DEF CacheSet, At, InLoop, Handling, ReqOK, history
<1>3. PICK c \in Fragment \ mon.todo : mon.caches[mon.i] = Entry(c) /\ Current = c
  BY <1>2, AtFragment
<1>4. store[c] = last[c] /\ last[c] = Absent
  BY <1>1, <1>2, <1>3 DEF StoreOK
<1> DEFINE m == [mon EXCEPT !.pc = "stored"]
<1>5. PICK s \in Slot \ {ClientSlot} :
        /\ mon' = [m EXCEPT !.call = s]
        /\ store' = store /\ s \in waiting'
        /\ DOMAIN req' = Slot /\ \A t \in Slot \ {s} : req'[t] = req[t]
        /\ DOMAIN req'[s] = DOMAIN Idle /\ req'[s].pc = "write" /\ req'[s].op = "set"
        /\ req'[s].key = Entry(c).key /\ req'[s].data = Entry(c).data
  <2> HIDE DEF m
  <2>1. Send("set", Entry(c), m)
    BY <1>3 DEF m, CacheSet
  <2> QED BY <1>1, <1>2, <2>1, SendStep
<1>6. Entry(c).key = c /\ Entry(c).data = mon.pd[c]
  BY DEF Entry
<1>7. /\ mon'.pc = "stored" /\ mon'.call = s /\ mon'.caches = mon.caches /\ mon'.i = mon.i
      /\ mon'.todo = mon.todo /\ mon'.pd = mon.pd /\ mon'.changed = mon.changed
  BY <1>1, <1>5, Fields
<1>8. InLoop' /\ Handling' /\ Current' = Current
  BY <1>7 DEF InLoop, Handling, Current
<1>9. \A j \in Fragment : (Settled(j)' <=> Settled(j)) /\ Entry(j)' = Entry(j)
  BY <1>2, <1>7, <1>8 DEF Settled, Entry
<1>10. LoopOK'
  BY <1>1, <1>2, <1>3, <1>7, <1>8, <1>9 DEF LoopOK
<1>11. ReqOK'
  BY <1>1, <1>2, <1>5, <1>7, MonitorAssumption DEF ReqOK
<1>12. Setting(c)'
  BY <1>4, <1>5, <1>6, <1>2, <1>7 DEF Setting
<1>13. StoreOK'
  BY <1>1, <1>2, <1>3, <1>5, <1>7, <1>8, <1>9, <1>12 DEF StoreOK
<1>14. MailOK'
  BY <1>2, <1>4 DEF MailOK, AllThere
<1> QED BY <1>10, <1>11, <1>13, <1>14 DEF RoundInv

LEMMA StoredStep ==
  ASSUME Locals, RoundInv, Stored, ~Fault
  PROVE  RoundInv'
<1>1. LoopOK /\ ReqOK /\ StoreOK /\ MailOK /\ DOMAIN mon = DOMAIN Fresh
  BY DEF RoundInv, Locals
<1>2. mon.pc = "stored" /\ InLoop /\ Handling /\ mon.call # NoSlot /\ last' = last
  BY <1>1 DEF Stored, At, InLoop, Handling, ReqOK, history
<1>3. PICK c \in Fragment \ mon.todo : mon.caches[mon.i] = Entry(c) /\ Current = c
  BY <1>2, AtFragment
<1>4. Setting(c)
  BY <1>1, <1>2, <1>3 DEF StoreOK
<1>5. /\ mon.todo \subseteq Fragment /\ mon.i \in Nat \ {0} /\ mon.changed \in Seq(Nat)
      /\ mon.i + Cardinality(mon.todo) <= Cardinality(Fragment)
      /\ Cardinality(mon.todo) \in Nat /\ Cardinality(Fragment) \in Nat
  BY <1>1, <1>2, TodoSize DEF LoopOK
<1>6. /\ Take(mon.call) /\ store' = store
      /\ mon' = [mon EXCEPT !.pc = "loop", !.call = NoSlot, !.changed = Append(mon.changed, mon.i)]
      /\ store[c] = mon.pd[c] /\ last[c] = Absent
  BY <1>2, <1>4 DEF Stored, Failed, Answered, GiveUp, Take, Setting
<1>7. /\ mon'.pc = "loop" /\ mon'.call = NoSlot /\ mon'.caches = mon.caches
      /\ mon'.i = mon.i /\ mon'.todo = mon.todo /\ mon'.pd = mon.pd
      /\ mon'.changed = Append(mon.changed, mon.i)
  BY <1>1, <1>6, Fields
<1>8. InLoop' /\ ~Handling'
  BY <1>7 DEF InLoop, Handling
<1>9. \A j \in Fragment : Settled(j)' <=> Settled(j) \/ j = c
  BY <1>2, <1>3, <1>7, <1>8 DEF Settled
<1>10. LoopOK'
  <2>1. mon'.changed \in Seq(Nat)
    BY <1>5, <1>7, AppendToSet
  <2>2. DOMAIN mon'.caches = 1 .. Cardinality(Fragment)
    BY <1>1, <1>2, <1>7 DEF LoopOK
  <2>3. mon'.i + Cardinality(mon'.todo) <= Cardinality(Fragment) + 1
    BY <1>5, <1>7
  <2> QED BY <1>5, <1>7, <1>8, <2>1, <2>2, <2>3 DEF LoopOK
<1>11. ReqOK'
  BY <1>1, <1>2, <1>6, <1>7, TakeStep
<1>12. StoreOK'
  BY <1>1, <1>2, <1>3, <1>6, <1>7, <1>8, <1>9 DEF StoreOK
<1>13. MailOK'
  BY <1>2, <1>6 DEF MailOK, AllThere
<1> QED BY <1>10, <1>11, <1>12, <1>13 DEF RoundInv

\* The steps outside of the loop.
LEMMA OutsideSteps ==
  ASSUME Locals, RoundInv, ~Fault,
         Ping \/ Wait \/ Crawl \/ Lookup \/ Remember \/ Notify \/ Restart
  PROVE  RoundInv'
<1>1. LoopOK /\ ReqOK /\ StoreOK /\ MailOK /\ DOMAIN mon = DOMAIN Fresh
  BY DEF RoundInv, Locals
<1>2. /\ mon.pc \in {"ping", "wait", "crawl", "lookup", "remember", "notify", "dead", "killed"}
      /\ UNCHANGED <<store, req, waiting, last>>
  BY DEF Ping, Wait, Crawl, Lookup, Remember, Notify, Restart, At, cache, history
<1>3. ~InLoop /\ ~Handling /\ mon.call = NoSlot
  BY <1>1, <1>2 DEF InLoop, Handling, ReqOK
<1>4. \A k \in Fragment : store[k] = last[k]
  BY <1>1, <1>3 DEF StoreOK, Settled
<1>5. mon.i = 1 /\ mon.changed = <<>> /\ mon.todo = {}
  BY <1>1, <1>3 DEF LoopOK
<1>6. /\ Fresh.pc = "ping" /\ Fresh.i = 1 /\ Fresh.changed = <<>> /\ Fresh.todo = {}
      /\ Fresh.call = NoSlot
  BY DEF Fresh
<1>7. ASSUME NEW m, m = Fresh \/ m = mon,
             mon'.i = m.i, mon'.changed = m.changed, mon'.todo = m.todo, mon'.call = m.call,
             mon'.pc \notin {"loop", "compared", "set", "stored"},
             mon'.pc \in {"lookup", "remember", "notify"} => mon'.back = "wait"
      PROVE  RoundInv'
  <2>1. ~InLoop'
    BY <1>7 DEF InLoop
  <2>2. mon'.i = 1 /\ mon'.changed = <<>> /\ mon'.todo = {} /\ mon'.call = NoSlot
    BY <1>3, <1>5, <1>6, <1>7
  <2> QED BY <1>1, <1>2, <1>3, <1>4, <1>7, <2>1, <2>2, OutsideStep
<1>8. CASE Ping
  <2>1. PICK pc \in {"crawl", "dead"} : mon' = [mon EXCEPT !.pc = pc]
    BY <1>8 DEF Ping
  <2>2. /\ mon'.pc = pc /\ mon'.i = mon.i /\ mon'.changed = mon.changed
        /\ mon'.todo = mon.todo /\ mon'.call = mon.call
    BY <1>1, <2>1, Fields
  <2> QED BY <1>7, <2>2
<1>9. CASE Wait \/ Restart
  <2>1. mon' = Fresh
    BY <1>9 DEF Wait, Restart
  <2> QED BY <1>6, <1>7, <2>1
<1>10. CASE Crawl
  <2>1. CASE Report(Fresh, "wait")
    <3>1. PICK sig \in Signature : mon' = [Fresh EXCEPT !.pc = "lookup", !.sig = sig, !.back = "wait"]
      BY <2>1 DEF Report
    <3>2. /\ mon'.pc = "lookup" /\ mon'.back = "wait" /\ mon'.i = Fresh.i
          /\ mon'.changed = Fresh.changed /\ mon'.todo = Fresh.todo /\ mon'.call = Fresh.call
      BY <3>1, Fields
    <3> QED BY <1>7, <3>2
  <2>2. CASE \E pd \in [Fragment -> Value] : mon' = [mon EXCEPT !.pc = "parse", !.pd = pd]
    <3>1. PICK pd \in [Fragment -> Value] : mon' = [mon EXCEPT !.pc = "parse", !.pd = pd]
      BY <2>2
    <3>2. /\ mon'.pc = "parse" /\ mon'.i = mon.i /\ mon'.changed = mon.changed
          /\ mon'.todo = mon.todo /\ mon'.call = mon.call
      BY <1>1, <3>1, Fields
    <3> QED BY <1>7, <3>2
  <2> QED BY <1>10, <2>1, <2>2 DEF Crawl, Panic
<1>11. CASE Lookup \/ Remember \/ Notify
  <2>1. mon.back = "wait"
    BY <1>1, <1>11 DEF LoopOK, Lookup, Remember, Notify, At
  <2>2. CASE Return
    <3>1. /\ mon'.pc = "wait" /\ mon'.i = mon.i /\ mon'.changed = mon.changed
          /\ mon'.todo = mon.todo /\ mon'.call = mon.call
      BY <1>1, <2>1, <2>2, Fields DEF Return
    <3> QED BY <1>7, <3>1
  <2>3. ASSUME NEW pc \in {"remember", "notify"}, mon' = [mon EXCEPT !.pc = pc] PROVE RoundInv'
    <3>1. /\ mon'.pc = pc /\ mon'.i = mon.i /\ mon'.changed = mon.changed
          /\ mon'.todo = mon.todo /\ mon'.call = mon.call /\ mon'.back = mon.back
      BY <1>1, <2>3, Fields
    <3> QED BY <1>7, <2>1, <3>1
  <2> QED BY <1>11, <2>2, <2>3 DEF Lookup, Remember, Notify
<1> QED BY <1>8, <1>9, <1>10, <1>11

LEMMA ParseStep ==
  ASSUME Locals, RoundInv, Parse
  PROVE  RoundInv'
<1>1. LoopOK /\ ReqOK /\ StoreOK /\ MailOK /\ DOMAIN mon = DOMAIN Fresh
  BY DEF RoundInv, Locals
<1>2. mon.pc = "parse" /\ UNCHANGED <<store, req, waiting, last>>
  BY DEF Parse, At, cache, history
<1>3. ~InLoop /\ ~Handling /\ mon.call = NoSlot
  BY <1>1, <1>2 DEF InLoop, Handling, ReqOK
<1>4. \A k \in Fragment : store[k] = last[k]
  BY <1>1, <1>3 DEF StoreOK, Settled
<1>5. mon.i = 1 /\ mon.changed = <<>>
  BY <1>1, <1>3 DEF LoopOK
<1>6. CASE mon' = [mon EXCEPT !.pc = "loop", !.todo = Fragment,
                              !.caches = [n \in 1 .. Cardinality(Fragment) |-> <<>>]]
  <2>1. /\ mon'.pc = "loop" /\ mon'.todo = Fragment /\ mon'.i = 1 /\ mon'.changed = <<>>
        /\ mon'.caches = [n \in 1 .. Cardinality(Fragment) |-> <<>>] /\ mon'.call = NoSlot
    BY <1>1, <1>3, <1>5, <1>6, Fields
  <2>2. InLoop' /\ ~Handling' /\ \A k \in Fragment : ~Settled(k)'
    BY <2>1 DEF InLoop, Handling, Settled
  <2>3. LoopOK'
    <3>1. Cardinality(Fragment) \in Nat /\ 1 + Cardinality(Fragment) <= Cardinality(Fragment) + 1
      BY MonitorAssumption, FS_CardinalityType
    <3>2. <<>> \in Seq(Nat)
      OBVIOUS
    <3> QED BY <2>1, <2>2, <3>1, <3>2 DEF LoopOK
  <2>4. ReqOK'
    BY <1>1, <1>2, <1>3, <2>1 DEF ReqOK
  <2>5. StoreOK'
    BY <1>2, <1>4, <2>1, <2>2 DEF StoreOK
  <2>6. MailOK'
    <3>1. ToSet(<<>>) = {}
      BY DEF ToSet
    <3>2. ToSet(mon'.changed) = {} /\ Listed' = {} /\ Once'
      BY <2>1, <3>1 DEF Listed, Once
    <3> QED BY <2>2, <3>2 DEF MailOK
  <2> QED BY <2>3, <2>4, <2>5, <2>6 DEF RoundInv
<1>7. CASE Report(Fresh, "wait")
  <2>1. PICK sig \in Signature : mon' = [Fresh EXCEPT !.pc = "lookup", !.sig = sig, !.back = "wait"]
    BY <1>7 DEF Report
  <2>2. /\ mon'.pc = "lookup" /\ mon'.back = "wait" /\ mon'.i = 1 /\ mon'.changed = <<>>
        /\ mon'.todo = {} /\ mon'.call = NoSlot
    BY <2>1 DEF Fresh
  <2>3. ~InLoop'
    BY <2>2 DEF InLoop
  <2> QED BY <1>1, <1>2, <1>3, <1>4, <2>2, <2>3, OutsideStep
<1> QED BY <1>6, <1>7 DEF Parse, Panic

LEMMA EndLoopStep ==
  ASSUME RoundInv, EndLoop
  PROVE  RoundInv'
<1>1. ReqOK /\ StoreOK
  BY DEF RoundInv
<1>2. /\ mon.pc = "loop" /\ mon.todo = {} /\ UNCHANGED <<store, req, waiting>> /\ last' = mon.pd
      /\ mon' = [Fresh EXCEPT !.pc = "wait"]
  BY DEF EndLoop, At, cache
<1>3. \A k \in Fragment : store[k] = mon.pd[k]
  BY <1>1, <1>2 DEF StoreOK, Settled, InLoop, Handling
<1>4. /\ mon'.pc = "wait" /\ mon'.i = 1 /\ mon'.changed = <<>> /\ mon'.todo = {}
      /\ mon'.call = NoSlot
  BY <1>2 DEF Fresh
<1>5. mon.call = NoSlot /\ ~InLoop'
  BY <1>1, <1>2, <1>4 DEF ReqOK, InLoop
<1> QED BY <1>1, <1>2, <1>3, <1>4, <1>5, OutsideStep

\* The other client only has foreign keys.
LEMMA ClientStep ==
  ASSUME RoundInv, UNCHANGED <<mon, last>>, ~Fault,
         ClientAsks \/ ClientTakes \/ Service(ClientSlot)
  PROVE  RoundInv'
<1>1. LoopOK /\ ReqOK
  BY DEF RoundInv
<1>2. PICK c \in Slot : c = ClientSlot
  BY MonitorAssumption
<1>3. DOMAIN req = Slot /\ DOMAIN req[c] = DOMAIN Idle /\ DOMAIN store = Key /\ Idle.pc = "idle"
  BY <1>1 DEF ReqOK, Idle
<1>4. ASSUME NEW q, DOMAIN q = DOMAIN Idle, req' = [req EXCEPT ![c] = q],
             q.pc \in {"read", "write", "delete"} => q.key \in Key \ Fragment,
             waiting' \in {waiting, waiting \cup {c}, waiting \ {c}},
             \/ store' = store
             \/ \E k \in Key \ Fragment : \E v : store' = [store EXCEPT ![k] = v]
      PROVE  RoundInv'
  <2>1. /\ DOMAIN req' = Slot /\ req'[c] = q /\ \A s \in Slot \ {c} : req'[s] = req[s]
        /\ DOMAIN store' = Key /\ \A f \in Fragment : store'[f] = store[f]
    BY <1>3, <1>4, MonitorAssumption
  <2>2. ReqOK'
    BY <1>1, <1>2, <1>4, <2>1 DEF ReqOK
  <2>3. mon.call # NoSlot => req'[mon.call] = req[mon.call]
    BY <1>1, <1>2, <2>1 DEF ReqOK
  <2> QED BY <2>1, <2>2, <2>3, OtherStep
<1>5. ASSUME NEW q, DOMAIN q = DOMAIN Idle, req' = [req EXCEPT ![c] = q],
             q.pc \in {"read", "write", "delete"} => q.key \in Key \ Fragment,
             waiting' \in {waiting, waiting \cup {c}, waiting \ {c}}, store' = store
      PROVE  RoundInv'
  BY <1>4, <1>5
<1>6. DOMAIN Idle = {"pc", "op", "key", "data", "old", "replies"}
  BY DEF Idle
<1>7. CASE ClientAsks
  <2>1. CASE AskBadly(c)
    <3>1. PICK q : q = [Idle EXCEPT !.pc = "done", !.replies = <<Err>>]
      OBVIOUS
    <3>2. DOMAIN q = DOMAIN Idle /\ q.pc = "done"
      BY <1>6, <3>1
    <3> QED BY <1>2, <1>5, <1>7, <2>1, <3>1, <3>2 DEF AskBadly, ClientAsks
  <2>2. ASSUME NEW op \in Ops, NEW k \in Key \ Fragment, NEW v \in ClientData, Ask(c, op, k, v)
        PROVE  RoundInv'
    <3>1. PICK q : q = [Idle EXCEPT !.op = op, !.key = k, !.data = v,
                          !.pc = CASE op = "set" -> "write" [] op = "delete" -> "delete" [] OTHER -> "read"]
      OBVIOUS
    <3>2. DOMAIN q = DOMAIN Idle /\ q.key = k
      BY <1>6, <3>1
    <3> QED BY <1>2, <1>5, <1>7, <2>2, <3>1, <3>2 DEF Ask, ClientAsks
  <2> QED BY <1>2, <1>7, <2>1, <2>2 DEF ClientAsks
<1>8. CASE ClientTakes
  BY <1>2, <1>3, <1>5, <1>8 DEF ClientTakes, Take
<1>9. ASSUME NEW replies, Respond(c, replies)
      PROVE  \E q : /\ DOMAIN q = DOMAIN Idle /\ q.pc \in {"idle", "done"}
                    /\ req' = [req EXCEPT ![c] = q]
  <2>1. CASE c \in waiting
    <3>1. PICK q : q = [req[c] EXCEPT !.pc = "done", !.replies = replies]
      OBVIOUS
    <3>2. DOMAIN q = DOMAIN Idle /\ q.pc = "done"
      BY <1>3, <1>6, <3>1
    <3> QED BY <1>9, <2>1, <3>1, <3>2 DEF Respond
  <2>2. CASE c \notin waiting
    BY <1>3, <1>9, <2>2 DEF Respond
  <2> QED BY <2>1, <2>2
<1>10. CASE Service(ClientSlot)
  <2>1. req[c].pc \in {"read", "write", "delete"} => req[c].key \in Key \ Fragment
    BY <1>1, <1>2 DEF ReqOK
  <2>2. CASE Read(c)
    <3>1. req[c].pc = "read" /\ store' = store /\ waiting' = waiting
      BY <2>2 DEF Read
    <3>2. CASE \E replies : Respond(c, replies)
      BY <1>5, <1>9, <3>1, <3>2
    <3>3. ASSUME NEW old, req' = [req EXCEPT ![c].pc = "write", ![c].old = old] PROVE RoundInv'
      <4>1. PICK q : q = [req[c] EXCEPT !.pc = "write", !.old = old]
        OBVIOUS
      <4>2. DOMAIN q = DOMAIN Idle /\ q.key = req[c].key
        BY <1>3, <1>6, <4>1
      <4>3. req' = [req EXCEPT ![c] = q]
        BY <1>3, <3>3, <4>1
      <4> QED BY <1>5, <2>1, <3>1, <4>2, <4>3
    <3>4. \/ \E replies : Respond(c, replies)
          \/ req' = [req EXCEPT ![c].pc = "write", ![c].old = store[req[c].key]]
      BY <2>2 DEF Read, ReadFailed
    <3> QED BY <3>2, <3>3, <3>4
  <2>3. ASSUME NEW k \in Key \ Fragment, NEW v, NEW reply, Execute(c, k, v, reply) PROVE RoundInv'
    <3>1. /\ store' = [store EXCEPT ![k] = v] /\ waiting' = waiting /\ Respond(c, <<reply>>)
      BY <2>3 DEF Execute
    <3>2. PICK q : /\ DOMAIN q = DOMAIN Idle /\ q.pc \in {"idle", "done"}
                   /\ req' = [req EXCEPT ![c] = q]
      BY <1>9, <3>1
    <3> QED BY <1>4, <3>1, <3>2
  <2>4. CASE Write(c)
    <3>1. PICK k \in Key \ Fragment : \E v, reply : Execute(c, k, v, reply)
      BY <2>1, <2>4 DEF Write
    <3> QED BY <2>3, <3>1
  <2>5. CASE Delete(c)
    <3>1. PICK k \in Key \ Fragment : \E v, reply : Execute(c, k, v, reply)
      BY <2>1, <2>5 DEF Delete
    <3> QED BY <2>3, <3>1
  <2> QED BY <1>2, <1>10, <2>2, <2>4, <2>5 DEF Service, Handle
<1> QED BY <1>7, <1>8, <1>10

LEMMA MailInit == Init => MailInv
<1> SUFFICES ASSUME Init PROVE RoundInv
  BY NoticeInit DEF MailInv
<1>1. /\ mon = Fresh /\ store \in [Key -> Value \cup {Absent}] /\ req = [s \in Slot |-> Idle]
      /\ last = [k \in Fragment |-> store[k]]
  BY DEF Init, InitCache
<1>2. /\ mon.pc = "ping" /\ mon.i = 1 /\ mon.changed = <<>> /\ mon.todo = {} /\ mon.call = NoSlot
      /\ Idle.pc = "idle"
  BY <1>1 DEF Fresh, Idle
<1>3. ~InLoop /\ ~Handling
  BY <1>2 DEF InLoop, Handling
<1>4. LoopOK
  <2>1. <<>> \in Seq(Nat) /\ 1 \in Nat \ {0}
    OBVIOUS
  <2> QED BY <1>2, <1>3, <2>1 DEF LoopOK
<1>5. ReqOK
  BY <1>1, <1>2, MonitorAssumption DEF ReqOK
<1>6. StoreOK
  BY <1>1, <1>2, <1>3, MonitorAssumption DEF StoreOK, Settled
<1>7. MailOK
  BY <1>3 DEF MailOK
<1> QED BY <1>4, <1>5, <1>6, <1>7 DEF RoundInv

LEMMA MailNext == MailInv /\ [Next]_vars => MailInv'
<1> SUFFICES ASSUME MailInv, [Next]_vars, Faultless' PROVE RoundInv'
  BY NoticeNext DEF MailInv
<1>1. Locals /\ RoundInv /\ ~Fault /\ ~Trouble("crashed")
  BY NoFault DEF MailInv, NoticeInv
<1>2. LoopOK /\ ReqOK
  BY <1>1 DEF RoundInv
<1>3. CASE Ping \/ Wait \/ Crawl \/ Lookup \/ Remember \/ Notify \/ Restart
  BY <1>1, <1>3, OutsideSteps
<1>4. CASE Parse
  BY <1>1, <1>4, ParseStep
<1>5. CASE EndLoop
  BY <1>1, <1>5, EndLoopStep
<1>6. CASE Compare
  BY <1>1, <1>6, CompareStep
<1>7. CASE Compared
  BY <1>1, <1>7, ComparedStep
<1>8. CASE CacheSet
  BY <1>1, <1>8, CacheSetStep
<1>9. CASE Stored
  BY <1>1, <1>9, StoredStep
<1>10. CASE Crash
  BY <1>1, <1>10 DEF Crash
<1>11. CASE ClientAsks \/ ClientTakes
  <2>1. UNCHANGED <<mon, last>>
    BY <1>11 DEF ClientAsks, ClientTakes, history
  <2> QED BY <1>1, <1>11, <2>1, ClientStep
<1>12. ASSUME NEW s \in Slot, Service(s) PROVE RoundInv'
  <2>1. UNCHANGED <<mon, last>> /\ Handle(s)
    BY <1>12 DEF Service, history
  <2>2. req[s].pc # "idle"
    BY <2>1 DEF Handle, Read, Write, Delete
  <2>3. s = ClientSlot \/ (s = mon.call /\ mon.call # NoSlot)
    <3>1. s # NoSlot
      BY MonitorAssumption
    <3>2. s = ClientSlot \/ s = mon.call
      <4>1. \A r \in Slot \ {ClientSlot, mon.call} : req[r].pc = "idle"
        BY <1>2 DEF ReqOK
      <4> QED BY <2>2, <4>1
    <3> QED BY <3>1, <3>2
  <2>4. CASE s = ClientSlot
    BY <1>1, <1>12, <2>1, <2>4, ClientStep
  <2>5. CASE s = mon.call /\ mon.call # NoSlot
    BY <1>1, <2>1, <2>5, CallStep
  <2> QED BY <2>3, <2>4, <2>5
<1>13. CASE UNCHANGED vars \/ \E sig \in Signature : Expire(sig)
  <2>1. UNCHANGED <<store, req, waiting, mon, last>>
    BY <1>13 DEF vars, cache, history, Expire
  <2>2. ReqOK'
    BY <1>2, <2>1 DEF ReqOK
  <2> QED BY <1>1, <2>1, <2>2, OtherStep
<1> QED BY <1>3, <1>4, <1>5, <1>6, <1>7, <1>8, <1>9, <1>10, <1>11, <1>12, <1>13 DEF Next, Round

\* While no call failed and nothing crashed, the mail of a round in which every
\* fragment was in the cache before lists each fragment that differs from the
\* last round once, with its new content, and no other but those that were null
\* before and still are, which the code lists although they did not change.
THEOREM MailNamesTheChanges == Spec => MailNamesChanges
<1> DEFINE Right == \A k \in Fragment :
                      /\ last[k] # mon.pd[k] =>
                           \E n \in DOMAIN Mailed : Mailed[n] = Entry(k) /\ Lists(k) = {n}
                      /\ last[k] = mon.pd[k] /\ last[k] # Null => Lists(k) = {}
           Mails == /\ At("loop") /\ mon'.pc = "wait"
                    /\ Faultless
                    /\ \A k \in Fragment : last[k] # Absent
                    => Right
<1>1. MailInv /\ [Next]_vars => [Mails]_vars
  <2> SUFFICES ASSUME MailInv, Next, At("loop"), mon'.pc = "wait", Faultless,
                      \A k \in Fragment : last[k] # Absent
               PROVE  Right
    OBVIOUS
  <2> HIDE DEF Right
  <2>1. Locals /\ LoopOK /\ MailOK /\ mon.pc = "loop"
    BY DEF MailInv, NoticeInv, RoundInv, At
  <2>2. mon.todo = {}
    <3>1. CASE EndLoop
      BY <3>1 DEF EndLoop
    <3>2. CASE Compare
      <4>1. PICK k \in mon.todo : \E s : mon' =
              [[mon EXCEPT !.pc = "compared", !.caches[mon.i] = [key |-> k, data |-> mon.pd[k]],
                           !.todo = mon.todo \ {k}] EXCEPT !.call = s]
        BY <3>2 DEF Compare, Send
      <4>2. mon'.pc = "compared"
        BY <2>1, <4>1, Fields DEF Locals
      <4> QED BY <4>2
    <3>3. CASE Crash
      <4>1. mon'.pc = "killed"
        BY <3>3 DEF Crash, Fresh
      <4> QED BY <4>1
    <3>4. CASE mon' = mon
      BY <2>1, <3>4
    <3>5. CASE Ping \/ Wait \/ Crawl \/ Parse \/ Compared \/ CacheSet \/ Stored \/ Lookup
               \/ Remember \/ Notify \/ Restart
      BY <2>1, <3>5 DEF Ping, Wait, Crawl, Parse, Compared, CacheSet, Stored, Lookup, Remember,
                        Notify, Restart, At
    <3>6. CASE ClientAsks \/ ClientTakes \/ (\E s \in Slot : Service(s))
               \/ \E sig \in Signature : Expire(sig)
      BY <3>4, <3>6 DEF ClientAsks, ClientTakes, Service, Expire
    <3> QED BY <3>1, <3>2, <3>3, <3>5, <3>6 DEF Next, Round
  <2>3. \A k \in Fragment : Settled(k)
    BY <2>1, <2>2 DEF Settled, InLoop, Handling
  <2>4. /\ Listed = {Entry(k) : k \in {j \in Fragment : Settled(j) /\ Changed(j)}}
        /\ Once
    BY <2>1 DEF MailOK, InLoop, AllThere
  <2>5. /\ DOMAIN Mailed = DOMAIN mon.changed
        /\ \A n \in DOMAIN Mailed : Mailed[n] = mon.caches[mon.changed[n]] /\ Mailed[n] \in Listed
    BY DEF Mailed, Listed, ToSet
  <2>6. \A e \in Listed : \E n \in DOMAIN Mailed : Mailed[n] = e
    BY DEF Mailed, Listed, ToSet
  <2>7. \A k : Entry(k).key = k
    BY DEF Entry
  <2>8. ASSUME NEW k \in Fragment, last[k] # mon.pd[k]
        PROVE  \E n \in DOMAIN Mailed : Mailed[n] = Entry(k) /\ Lists(k) = {n}
    <3>1. Entry(k) \in Listed
      BY <2>3, <2>4, <2>8 DEF Changed
    <3>2. PICK n \in DOMAIN Mailed : Mailed[n] = Entry(k)
      BY <2>6, <3>1
    <3>3. \A m \in DOMAIN Mailed : Mailed[m].key = k => m = n
      BY <2>4, <2>5, <2>7, <3>2 DEF Once
    <3>4. Lists(k) = {n}
      BY <2>7, <3>2, <3>3 DEF Lists
    <3> QED BY <3>2, <3>4
  <2>9. ASSUME NEW k \in Fragment, last[k] = mon.pd[k], last[k] # Null
        PROVE  Lists(k) = {}
    <3>1. ASSUME NEW n \in DOMAIN Mailed PROVE Mailed[n].key # k
      <4>1. PICK j \in Fragment : Changed(j) /\ Mailed[n] = Entry(j)
        BY <2>4, <2>5
      <4> QED BY <2>7, <2>9, <4>1 DEF Changed
    <3> QED BY <3>1 DEF Lists
  <2> QED BY <2>8, <2>9 DEF Right
<1> QED BY <1>1, MailInit, MailNext, PTL DEF Spec, MailNamesChanges
=============================================================================
