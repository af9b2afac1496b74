------------------------------- MODULE RPCCall -------------------------------
(***************************************************************************)
(* What the RPC library promises of one call of Send: it has one outcome,  *)
(* the handler of the request runs at most once and only for a call that   *)
(* was made, and an answer comes from a handler that ran.                  *)
(***************************************************************************)
CONSTANT Req

VARIABLES
  outcome,   \* "uncalled" "open" "reply" "timeout" "error" "crashed"
  returned,  \* the calls that have returned their outcome
  executed   \* how often the handler of a call has been started

rpcvars == <<outcome, returned, executed>>

Init ==
  /\ outcome = [r \in Req |-> "uncalled"]
  /\ returned = {}
  /\ executed = [r \in Req |-> 0]

Open(r) ==
  /\ outcome[r] = "uncalled"
  /\ outcome' = [outcome EXCEPT ![r] = "open"]
  /\ UNCHANGED <<returned, executed>>

\* The handler may start after the caller gave up, but never before the call.
Execute(r) ==
  /\ outcome[r] # "uncalled"
  /\ executed[r] = 0
  /\ executed' = [executed EXCEPT ![r] = 1]
  /\ UNCHANGED <<outcome, returned>>

Answer(r) ==
  /\ outcome[r] = "open"
  /\ executed[r] = 1
  /\ outcome' = [outcome EXCEPT ![r] = "reply"]
  /\ UNCHANGED <<returned, executed>>

GiveUp(r) ==
  /\ outcome[r] = "open"
  /\ \E w \in {"timeout", "error"} : outcome' = [outcome EXCEPT ![r] = w]
  /\ UNCHANGED <<returned, executed>>

Return(r) ==
  /\ outcome[r] \notin {"uncalled", "open"}
  /\ r \notin returned
  /\ returned' = returned \cup {r}
  /\ UNCHANGED <<outcome, executed>>

\* A caller that crashes loses all its calls at once, also one that has its
\* outcome but has not returned it yet.
Lose ==
  /\ \E R \in SUBSET {r \in Req : outcome[r] # "uncalled" /\ r \notin returned} :
       /\ outcome' = [r \in Req |-> IF r \in R THEN "crashed" ELSE outcome[r]]
       /\ returned' = returned \cup R
  /\ UNCHANGED executed

Next == Lose \/ \E r \in Req : Open(r) \/ Execute(r) \/ Answer(r) \/ GiveUp(r) \/ Return(r)

Spec == Init /\ [][Next]_rpcvars
=============================================================================
