------------------------------ MODULE Gateway ------------------------------
(***************************************************************************)
(* One external job of a workflow on its way through the HTTP gateway:     *)
(* GatewayCaller.Call posts it to /rpc (app.go), handleRPC checks it and   *)
(* calls stream.Send (rpc.go), and the status decides what the workflow    *)
(* gets.  What Send may return is the outcome that RPCCall promises: a     *)
(* reply, an error reply, a timeout, or a failing Redis.                   *)
(***************************************************************************)
EXTENDS Integers

CONSTANTS
  TimeoutMs,         \* gateway_timeout_ms of the manager; 0: the gateway's default
  DefaultTimeoutMs,  \* default_timeout_ms of the gateway
  MaxTimeoutMs       \* max_timeout_ms of the gateway

(* The outcomes of Send, and "aborted": the HTTP request itself fails (the *)
(* gateway is down, the client's own timeout, or the run was cancelled).   *)
SendOutcome == {"reply", "errorReply", "timeout", "redisError", "tooLarge", "aborted"}

EffectiveTimeout == IF TimeoutMs = 0 THEN DefaultTimeoutMs ELSE TimeoutMs

(* What handleRPC refuses before it calls Send: a request without stream,  *)
(* service or payload, or a timeout below zero or above the limit.         *)
BadRequest(request) ==
  \/ request.stream = "" \/ request.service = "" \/ ~request.hasPayload
  \/ EffectiveTimeout < 0 \/ EffectiveTimeout > MaxTimeoutMs

(* handleRPC: the status of the answer; 0 is no answer at all.             *)
Status(request, outcome) ==
  IF outcome = "aborted" THEN 0
  ELSE IF outcome = "tooLarge" \/ BadRequest(request) THEN 400
  ELSE CASE outcome = "timeout" -> 504
         [] outcome \in {"errorReply", "redisError"} -> 502
         [] outcome = "reply" -> 200

(* GatewayCaller.Call: the job has a result only when it was answered and  *)
(* the status is below 300.                                                *)
Answered(request, outcome) == Status(request, outcome) \in 1 .. 299
=============================================================================
