---------------------------- MODULE CacheService ----------------------------
(***************************************************************************)
(* redis_cache-service: the handlers of services/handles.go over one key   *)
(* space of Redis.  Every handler runs in a goroutine of its own; each     *)
(* Redis command is one action, so that handlers interleave between their  *)
(* GET and their SET, and a handler outlives the caller that gave up.      *)
(*                                                                         *)
(* Values stand for JSON texts, keys for app:key.  Null is the text null,  *)
(* which reads back as nil.  A command that fails may have been executed.  *)
(***************************************************************************)
EXTENDS Integers, Sequences

CONSTANTS
  Key, Value,
  Null,      \* the JSON text null, a member of Value
  Absent,    \* no such key in Redis
  Slot,      \* concurrent requests
  MaxTrouble \* bound on failing commands and calls, crashes, foreign requests

ASSUME CacheAssumption ==
  /\ Null \in Value
  /\ Absent \notin Value
  /\ MaxTrouble \in Nat

VARIABLES
  store,    \* the keys in Redis
  req,      \* the handler of each request
  waiting,  \* requests whose caller still waits for the reply
  trouble   \* failed commands and calls, crashes of the caller, requests of others

cache == <<store, req, waiting, trouble>>

Ops == {"compare_and_save", "get", "set", "delete", "get_and_set"}

Idle == [pc |-> "idle", op |-> "get", key |-> CHOOSE k \in Key : TRUE,
         data |-> Absent, old |-> Absent, replies |-> <<>>]

InitCache ==
  /\ store \in [Key -> Value \cup {Absent}]
  /\ req = [s \in Slot |-> Idle]
  /\ waiting = {}
  /\ trouble = [failed |-> 0, crashed |-> 0, asked |-> 0]

Trouble(kind) ==
  /\ trouble.failed + trouble.crashed + trouble.asked < MaxTrouble
  /\ trouble' = [trouble EXCEPT ![kind] = @ + 1]
Fault == Trouble("failed")

\* A reply: an error, or data and whether they changed.
Err == [ok |-> FALSE, changed |-> FALSE, data |-> Absent]
Ok(changed, data) == [ok |-> TRUE, changed |-> changed, data |-> data]

\* The caller gets the replies, if it still waits.
Respond(s, replies) ==
  req' = [req EXCEPT ![s] = IF s \in waiting
                            THEN [req[s] EXCEPT !.pc = "done", !.replies = replies]
                            ELSE Idle]

\* A request arrives: decode the parameters, build the key.
Ask(s, op, k, data) ==
  /\ req[s].pc = "idle"
  /\ waiting' = waiting \cup {s}
  /\ req' = [req EXCEPT ![s] = [Idle EXCEPT !.op = op, !.key = k, !.data = data,
               !.pc = CASE op = "set" -> "write" [] op = "delete" -> "delete" [] OTHER -> "read"]]

\* The payload cannot be decoded.
AskBadly(s) ==
  /\ req[s].pc = "idle"
  /\ waiting' = waiting \cup {s}
  /\ req' = [req EXCEPT ![s] = [Idle EXCEPT !.pc = "done", !.replies = <<Err>>]]

\* CompareData: nil counts as changed.
CompareData(old, new) == old = Null \/ old # new

\* GET.  A missing key is an error to all three handlers that read, and get
\* goes on after its error reply and replies a second time.
ReadFailed(s) ==
  Respond(s, IF req[s].op = "get" THEN <<Err, Ok(FALSE, Null)>> ELSE <<Err>>)

Read(s) ==
  LET q == req[s]
      old == store[q.key]
  IN  /\ q.pc = "read"
      /\ \/ Fault /\ ReadFailed(s)
         \/ UNCHANGED trouble /\
            IF old = Absent THEN ReadFailed(s)
            ELSE IF q.op = "get" THEN Respond(s, <<Ok(FALSE, old)>>)
            ELSE IF q.op = "compare_and_save" /\ ~CompareData(old, q.data)
                 THEN Respond(s, <<Ok(FALSE, Absent)>>)
            ELSE req' = [req EXCEPT ![s].pc = "write", ![s].old = old]
      /\ UNCHANGED <<store, waiting>>

\* SET and DEL.
Execute(s, k, v, reply) ==
  /\ \/ /\ UNCHANGED trouble
        /\ store' = [store EXCEPT ![k] = v]
        /\ Respond(s, <<reply>>)
     \/ /\ Fault
        /\ store' \in {store, [store EXCEPT ![k] = v]}
        /\ Respond(s, <<Err>>)
  /\ UNCHANGED waiting

Write(s) ==
  LET q == req[s]
  IN  /\ q.pc = "write"
      /\ Execute(s, q.key, q.data,
                 CASE q.op = "compare_and_save" -> Ok(TRUE, Absent)
                   [] q.op = "get_and_set" -> Ok(CompareData(q.old, q.data), q.old)
                   [] OTHER -> Ok(FALSE, Absent))

Delete(s) ==
  /\ req[s].pc = "delete"
  /\ Execute(s, req[s].key, Absent, Ok(FALSE, Absent))

Handle(s) == Read(s) \/ Write(s) \/ Delete(s)

\* The caller takes the first reply (a second one is StreamRPC's concern) ...
Take(s) ==
  /\ req[s].pc = "done"
  /\ req' = [req EXCEPT ![s] = Idle]
  /\ waiting' = waiting \ {s}

\* ... or gives up; the handler goes on.
GiveUp(s) ==
  /\ s \in waiting
  /\ Fault
  /\ waiting' = waiting \ {s}
  /\ req' = IF req[s].pc = "done" THEN [req EXCEPT ![s] = Idle] ELSE req

=============================================================================
