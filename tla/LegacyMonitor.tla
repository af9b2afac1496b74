---------------------------- MODULE LegacyMonitor ----------------------------
(***************************************************************************)
(* The historical jobs runner of web_supervisor-manager (actions/Run.go    *)
(* and services/services.go): ping the four services, run every job, wait, *)
(* for ever.  A job crawls a page, has it parsed, compares each fragment   *)
(* with the cache and mails what changed; errors go to the administrators, *)
(* once per signature.                                                     *)
(*                                                                         *)
(* One job; its fragments are keys of the cache.  What the crawler, the    *)
(* parser and the mail service answer is chosen: only its kind decides     *)
(* what follows, and the page may differ at every crawl.                   *)
(***************************************************************************)
EXTENDS CacheService, FiniteSets, SequencesExt

CONSTANTS
  Fragment,    \* keys of the monitor's fragments; the rest of Key is foreign
  ClientSlot,  \* the slot of the other client; the rest are the monitor's
  ClientData,  \* what the other client saves
  NoSlot,
  Signature    \* error signatures: url, stage and message

ASSUME MonitorAssumption ==
  /\ Fragment \subseteq Key
  /\ IsFiniteSet(Fragment)
  /\ ClientSlot \in Slot /\ NoSlot \notin Slot
  /\ ClientData \subseteq Value

VARIABLES
  mon,      \* the monitor's goroutine
  dedup,    \* error signatures in Redis
  last,     \* the fragments of the last complete round (history)
  notices   \* notices per signature since it last expired (history)

history == <<last, notices>>
vars    == <<cache, mon, dedup, history>>

\* The locals of runs and run_one: caches is newCaches and i its index, changed
\* the pointers into it, todo the keys the loop has not seen, call the slot of
\* the request in flight, back where to go on after the report of error sig.
Fresh == [pc |-> "ping", pd |-> <<>>, todo |-> {}, caches |-> <<>>, i |-> 1,
          changed |-> <<>>, call |-> NoSlot, sig |-> NoSlot, back |-> "ping"]

Init ==
  /\ InitCache
  /\ mon = Fresh
  /\ dedup = {}
  /\ last = [k \in Fragment |-> store[k]]
  /\ notices = [s \in Signature |-> 0]

At(pc) == mon.pc = pc

-----------------------------------------------------------------------------
(* The loop of runs *)

\* PingServices: Send gives no message with its error, and the error branch
\* reads the message's payload, outside of run_one's recover.
Ping ==
  /\ At("ping")
  /\ mon' \in {[mon EXCEPT !.pc = "crawl"], [mon EXCEPT !.pc = "dead"]}
  /\ UNCHANGED <<cache, dedup, history>>

\* INTERVAL_SECONDS; the next round starts with new locals.
Wait ==
  /\ At("wait")
  /\ mon' = Fresh
  /\ UNCHANGED <<cache, dedup, history>>

\* ReportError(url, stage, msg) from state m, then go on at `back'.
Report(m, back) ==
  \E sig \in Signature : mon' = [m EXCEPT !.pc = "lookup", !.sig = sig, !.back = back]

\* Bug: no recover.
BugPanic == mon' = [mon EXCEPT !.pc = "dead"]
\* A panic of run_one is recovered and reported; the job is over.
Panic == Report(Fresh, "wait")

-----------------------------------------------------------------------------
(* run_one: crawl and parse *)

\* The page; an error reply or another status; no reply (Crawl then reads
\* ErrMsg of no message).
Crawl ==
  /\ At("crawl")
  /\ \/ \E pd \in [Fragment -> Value] : mon' = [mon EXCEPT !.pc = "parse", !.pd = pd]
     \/ Report(Fresh, "wait")
     \/ Panic
  /\ UNCHANGED <<cache, dedup, history>>

\* parsed_data is null when the content is no JSON.
Parse ==
  /\ At("parse")
  /\ \/ mon' = [mon EXCEPT !.pc = "loop", !.todo = Fragment,
                           !.caches = [n \in 1..Cardinality(Fragment) |-> <<>>]]
     \/ Report(Fresh, "wait")
     \/ Panic
  /\ UNCHANGED <<cache, dedup, history>>

-----------------------------------------------------------------------------
(* run_one: compare, save and mail *)

FreeSlots == {s \in Slot \ {ClientSlot} : req[s].pc = "idle"}

\* stream.Send to the cache service from state m; it may fail at once.
Send(op, entry, m) ==
  \/ /\ FreeSlots # {}
     /\ \E s \in {CHOOSE s \in FreeSlots : TRUE} :
          Ask(s, op, entry.key, entry.data) /\ mon' = [m EXCEPT !.call = s]
     /\ UNCHANGED <<store, trouble>>
  \/ /\ Fault
     /\ mon' = [m EXCEPT !.call = NoSlot]
     /\ UNCHANGED <<store, req, waiting>>

\* The end of the call: a failure, or a reply without error.
Failed ==
  \/ mon.call = NoSlot /\ UNCHANGED cache
  \/ mon.call # NoSlot /\ GiveUp(mon.call) /\ UNCHANGED store
  \/ /\ mon.call # NoSlot
     /\ Take(mon.call)
     /\ ~req[mon.call].replies[1].ok
     /\ UNCHANGED <<store, trouble>>

Answered ==
  /\ mon.call # NoSlot
  /\ Take(mon.call)
  /\ req[mon.call].replies[1].ok
  /\ UNCHANGED <<store, trouble>>

\* The loop over pd, in the order Go picks; newCaches[i] is written whatever i is.
Compare ==
  /\ At("loop")
  /\ \E k \in mon.todo :
       LET entry == [key |-> k, data |-> mon.pd[k]]
       IN  Send("compare_and_save", entry,
                [mon EXCEPT !.pc = "compared", !.caches[mon.i] = entry, !.todo = mon.todo \ {k}])
  /\ UNCHANGED <<dedup, history>>

\* Bug: the index moves on only past a change.
BugNext(changed) == [mon EXCEPT !.pc = "loop", !.call = NoSlot,
                                !.changed = IF changed THEN Append(mon.changed, mon.i) ELSE mon.changed,
                                !.i = IF changed THEN mon.i ELSE mon.i + 1]
NextEntry(changed) == [mon EXCEPT !.pc = "loop", !.call = NoSlot,
                                  !.changed = IF changed THEN Append(mon.changed, mon.i) ELSE mon.changed,
                                  !.i = mon.i + 1]

\* Any error counts as a key that is not in the cache.
Compared ==
  /\ At("compared")
  /\ \/ Failed /\ mon' = [mon EXCEPT !.pc = "set", !.call = NoSlot]
     \/ Answered /\ mon' = NextEntry(req[mon.call].replies[1].changed)
  /\ UNCHANGED <<dedup, history>>

CacheSet ==
  /\ At("set")
  /\ Send("set", mon.caches[mon.i], [mon EXCEPT !.pc = "stored"])
  /\ UNCHANGED <<dedup, history>>

\* Both ways continue the loop and skip its i++.
Stored ==
  /\ At("stored")
  /\ \/ Failed /\ Report([mon EXCEPT !.call = NoSlot], "loop")
     \/ Answered /\ mon' = [mon EXCEPT !.pc = "loop", !.call = NoSlot,
                                       !.changed = Append(mon.changed, mon.i)]
  /\ UNCHANGED <<dedup, history>>

\* What the pointers point to.
Mailed == [n \in DOMAIN mon.changed |-> mon.caches[mon.changed[n]]]

\* The mail with Mailed, if that is not empty; whether it is sent is ignored.
EndLoop ==
  /\ At("loop")
  /\ mon.todo = {}
  /\ mon' = [Fresh EXCEPT !.pc = "wait"]
  /\ last' = mon.pd
  /\ UNCHANGED <<cache, dedup, notices>>

-----------------------------------------------------------------------------
(* ReportError *)

Return == mon' = [mon EXCEPT !.pc = mon.back, !.sig = NoSlot]

\* An error of Redis counts as a new signature.
Lookup ==
  /\ At("lookup")
  /\ \/ mon.sig \in dedup /\ UNCHANGED trouble /\ Return
     \/ /\ \/ mon.sig \notin dedup /\ UNCHANGED trouble
           \/ Fault
        /\ mon' = [mon EXCEPT !.pc = "remember"]
  /\ UNCHANGED <<store, req, waiting, dedup, history>>

\* Bug: nothing is stored.
BugRemember ==
  /\ At("remember")
  /\ mon' = [mon EXCEPT !.pc = "notify"]
  /\ UNCHANGED <<cache, dedup, history>>

\* First the signature is stored ...
Remember ==
  /\ At("remember")
  /\ \/ dedup' = dedup \cup {mon.sig} /\ UNCHANGED trouble
     \/ Fault /\ UNCHANGED dedup
  /\ mon' = [mon EXCEPT !.pc = "notify"]
  /\ UNCHANGED <<store, req, waiting, history>>

\* ... then the notice is sent, if there is anybody to send it to.
Notify ==
  /\ At("notify")
  /\ notices' \in {notices, [notices EXCEPT ![mon.sig] = @ + 1]}
  /\ Return
  /\ UNCHANGED <<cache, dedup, last>>

\* errorDedupTTL, which no report lasts.
Expire(sig) ==
  /\ sig \in dedup
  /\ mon.sig # sig
  /\ dedup' = dedup \ {sig}
  /\ notices' = [notices EXCEPT ![sig] = 0]
  /\ UNCHANGED <<cache, mon, last>>

-----------------------------------------------------------------------------
(* Crashes, and another client of the cache *)

Crash ==
  /\ Trouble("crashed")
  /\ ~At("dead") /\ ~At("killed")
  /\ mon' = [Fresh EXCEPT !.pc = "killed"]
  /\ waiting' = waiting \ {mon.call}
  /\ req' = [s \in Slot |-> IF s = mon.call /\ req[s].pc = "done" THEN Idle ELSE req[s]]
  /\ UNCHANGED <<store, dedup, history>>

Restart ==
  /\ At("dead") \/ At("killed")
  /\ mon' = Fresh
  /\ UNCHANGED <<cache, dedup, history>>

ClientAsks ==
  /\ Trouble("asked")
  /\ \/ AskBadly(ClientSlot)
     \/ \E op \in Ops, k \in Key \ Fragment, v \in ClientData : Ask(ClientSlot, op, k, v)
  /\ UNCHANGED <<store, mon, dedup, history>>

ClientTakes ==
  /\ Take(ClientSlot)
  /\ UNCHANGED <<store, trouble, mon, dedup, history>>

Service(s) == Handle(s) /\ UNCHANGED <<mon, dedup, history>>

Round == \/ Ping \/ Wait \/ Crawl \/ Parse \/ Compare \/ Compared \/ CacheSet \/ Stored
         \/ EndLoop \/ Lookup \/ Remember \/ Notify

Next ==
  \/ Round
  \/ Crash \/ Restart \/ ClientAsks \/ ClientTakes
  \/ \E s \in Slot : Service(s)
  \/ \E sig \in Signature : Expire(sig)

\* The monitor and the handlers keep going; calls end by a reply or a timer.
Fairness ==
  /\ WF_vars(Round)
  /\ WF_vars(ClientTakes)
  /\ \A s \in Slot : WF_vars(Service(s))

Spec == Init /\ [][Next]_vars /\ Fairness

-----------------------------------------------------------------------------
(* Properties *)

Faultless == trouble.failed + trouble.crashed = 0
Entry(k)  == [key |-> k, data |-> mon.pd[k]]

Lists(k)  == {n \in DOMAIN Mailed : Mailed[n].key = k}

\* run_one, HandleCompareAndSave: once every fragment is in the cache, the mail
\* of a round lists each fragment that differs from the round before once, with
\* its new content, and no other, while no call failed and nothing crashed.
\* Not claimed: a fragment that was null (an empty result of the parser) and
\* still is.  The code lists it in every mail, against JOBS_GUIDE.md:22 and
\* README.md:41, which promise only real changes after the first round.
MailNamesChanges ==
  [][ /\ At("loop") /\ mon'.pc = "wait"
      /\ Faultless
      /\ \A k \in Fragment : last[k] # Absent
      => \A k \in Fragment :
           /\ last[k] # mon.pd[k] =>
                \E n \in DOMAIN Mailed : Mailed[n] = Entry(k) /\ Lists(k) = {n}
           /\ last[k] = mon.pd[k] /\ last[k] # Null => Lists(k) = {} ]_vars

\* ReportError: unless Redis failed, an error signature is mailed to the
\* administrators at most once until it expires, also across restarts.
NoticeOnce == trouble.failed = 0 => \A s \in Signature : notices[s] <= 1

\* The recover of run_one: whatever the services answer, a job that was started
\* ends and the loop goes on to its pause, unless the process is killed.
JobEnds == At("crawl") ~> (At("wait") \/ At("killed"))

\* JOBS_GUIDE.md: the first round sends one mail that lists all fragments.
FirstMailListsAll ==
  [][ /\ At("loop") /\ mon'.pc = "wait"
      /\ Faultless
      /\ \A k \in Fragment : last[k] = Absent
      => ToSet(Mailed) = {Entry(k) : k \in Fragment} ]_vars

=============================================================================
