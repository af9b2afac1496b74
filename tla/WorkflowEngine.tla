--------------------------- MODULE WorkflowEngine ---------------------------
(***************************************************************************)
(* One run of a task's workflow: the retry loop of runTask (app.go) around *)
(* Engine.Execute (workflow.go), an interpreter of nested jobs.  The Go    *)
(* call stack is the variable `stack', one frame per executeJobs in        *)
(* progress; a step is one job, one test of a loop, or the end of a block. *)
(* External jobs go through the HTTP gateway (module Gateway).             *)
(***************************************************************************)
EXTENDS WorkflowHeap, Gateway

CONSTANTS
  Programs,      \* the workflows: [jobs, functions, stored]
  AnyJob,        \* their jobs, the nested ones too
  Nesting,       \* how deep they are nested in one another
  Objects,       \* the heap of the server: task.Local and cfg.Custom
  LocalDoc,      \* the address of the task's "local" document
  CustomDoc,     \* the address of the configuration's "custom" document
  Env,           \* [some names -> strings]: the process environment
  Strict,        \* Options.Strict
  MaxLoop,       \* Options.MaxLoop, 10000 by default
  MaxCallDepth,  \* Options.MaxCallDepth, 100 by default
  MaxAttempts,   \* task.Retry.MaxAttempts
  Replies        \* the objects an external service may return

(* What a decoded document may hold: tokens and scalars, objects of these,  *)
(* and in the jobs that nest others, blocks of jobs.                       *)
Path == Seq(STRING)
Scalar(x) ==
  /\ x.e \in {"lit", "local", "custom", "env", "none"}
  /\ x.e = "lit" => x.v.k # "obj"
  /\ x.e \in {"local", "custom"} => x.p \in Path
Payload(x) ==
  \/ Scalar(x)
  \/ x.e = "map" /\ IsFiniteSet(DOMAIN x.m) /\ \A k \in DOMAIN x.m : Scalar(x.m[k])
Condition(x) == Scalar(x) \/ (x.e = "oper" /\ Scalar(x.a) /\ Scalar(x.b))
Payloads(s) == DOMAIN s = 1 .. Len(s) /\ Len(s) \in Nat /\ \A i \in DOMAIN s : Payload(s[i])

IsFunction(fn) ==
  /\ fn.names \in Seq(STRING) /\ DOMAIN fn.defaults = DOMAIN fn.names
  /\ fn.body \in Seq(AnyJob) /\ fn.returnto \in Path
IsJob(j) ==
  /\ j.to \in Path
  /\ CASE j.op = "set" -> Payload(j.value)
       [] j.op = "call"  -> Payload(j.value) /\ j.stream \in STRING
       [] j.op = "get"   -> j.path \in Path /\ Payload(j.default)
       [] j.op = "oper"  -> Condition(j.value)
       [] j.op = "if"    -> Condition(j.value) /\ {j.then, j.else} \subseteq Seq(AnyJob)
       [] j.op = "while" -> Condition(j.value) /\ j.body \in Seq(AnyJob)
       [] j.op = "func"  -> IsFunction(j) /\ j.name \in Path /\ Payloads(j.defaults)
       [] j.op = "exec"  -> /\ Payloads(j.args)
                            /\ j.argKind = "map" => DOMAIN j.argNames = DOMAIN j.args

ASSUME WorkflowAssumption ==
  /\ MaxLoop \in Nat \ {0} /\ MaxCallDepth \in Nat \ {0} /\ MaxAttempts \in Nat \ {0}
  /\ \A j \in AnyJob : IsJob(j)
  /\ \A p \in Programs :
       /\ p.jobs \in Seq(AnyJob)
       /\ \A f \in DOMAIN p.functions : IsFunction(p.functions[f])

(* The task's "local" document, the configuration and the stored functions *)
(* are decoded from JSON one by one: an object of the task is referred to  *)
(* from the task's document only.                                          *)
LocalObjects == Reach(Objects, {LocalDoc})
ASSUME ObjectsAssumption ==
  /\ LocalDoc \in DOMAIN Objects /\ CustomDoc \in DOMAIN Objects \ LocalObjects
  /\ IsHeap(Objects) /\ Apart(Objects, LocalObjects)
  /\ \A p \in Programs : \A f \in DOMAIN p.functions : \A d \in Range(p.functions[f].defaults) :
       d.k = "obj" => d.id \in DOMAIN Objects \ LocalObjects
  /\ \A r \in Replies : IsFiniteSet(DOMAIN r) /\ \A k \in DOMAIN r : r[k].k # "obj"

VARIABLES
  program,    \* taskCopy.Workflow
  heap,       \* every object that the run or the server can reach
  functions,  \* wf.Functions
  stack,      \* the innermost block first
  status,     \* "ready" (between attempts) | "running" | "failed" | "done"
  attempt,    \* attempts begun
  cancelled   \* ctx is done: the task was deleted or the server stops

vars == <<program, heap, functions, stack, status, attempt, cancelled>>

----------------------------------------------------------------------------
(* Validation *)

(* A plausible bug: functions defined inside a workflow are not validated. *)
BugBlocks(j) ==
  CASE j.op = "if"    -> <<j.then, j.else>>
    [] j.op = "while" -> <<j.body>>
    [] OTHER            -> << >>

(* The blocks nested in a job, where validateJob looks for them: it does   *)
(* not trim the service name, which executeJob does.                       *)
Blocks(j) ==
  CASE j.op = "if"              -> <<j.then, j.else>>
    [] j.op \in {"while", "func"} -> <<j.body>>
    [] OTHER                      -> << >>
SubJobs(j) == UNION {Range(Blocks(j)[i]) : i \in DOMAIN Blocks(j)}

WellFormed(j) ==
  /\ j.shape # "empty"
  /\ j.op \in {"if", "while", "func", "oper"} => j.shape # "malformed"

(* The jobs that Validate looks at, d levels down.                         *)
Levels(jobs) ==
  LET C[d \in 0 .. Nesting] ==
        IF d = 0 THEN Range(jobs)
        ELSE UNION {SubJobs(j) : j \in {i \in C[d - 1] : ~i.padded}}
  IN C
Bodies(p) == {p.jobs} \cup {p.functions[f].body : f \in DOMAIN p.functions}
Checked(p) == UNION {Levels(jobs)[d] : jobs \in Bodies(p), d \in 0 .. Nesting}

ASSUME NestingAssumption ==
  /\ Nesting \in Nat
  /\ \A p \in Programs : \A jobs \in Bodies(p) : \A j \in Levels(jobs)[Nesting] : SubJobs(j) = {}

Valid(p) ==
  /\ \A j \in Range(p.jobs) : j.shape # "both"
  /\ \A j \in Checked(p) : j.shape # "empty" /\ (j.padded \/ WellFormed(j))

----------------------------------------------------------------------------
(* Payloads *)

None == [e |-> "none"]       \* a "default" that the payload does not have

(* lookupToken for one scalar of a payload.  A lone token keeps its value, *)
(* so an object is passed by reference.                                    *)
Atom(h, loc, x) ==
  LET v == CASE x.e = "lit"    -> x.v
             [] x.e = "local"  -> Lookup(h, loc, x.p)
             [] x.e = "custom" -> Lookup(h, CustomDoc, x.p)
             [] x.e = "env"    -> IF x.name \in DOMAIN Env THEN Str(Env[x.name]) ELSE Missing
             [] x.e = "none"   -> Missing
  IN IF v = Missing /\ x # None /\ ~Strict THEN Str("") ELSE v

(* resolve: an object in a payload becomes a new object.                   *)
Resolve(h, loc, x) ==
  IF x.e # "map" THEN [ok |-> x = None \/ Atom(h, loc, x) # Missing, v |-> Atom(h, loc, x), h |-> h]
  ELSE LET new == <<Fresh(h), << >> >>
           m == [k \in DOMAIN x.m |-> Atom(h, loc, x.m[k])]
       IN [ok |-> \A k \in DOMAIN m : m[k] # Missing, v |-> Obj(new), h |-> Put(h, new, m)]

ResolveAll(h, loc, xs) ==
  LET acc[n \in 0 .. Len(xs)] ==
        IF n = 0 THEN [ok |-> TRUE, vs |-> << >>, h |-> h]
        ELSE LET a == acc[n - 1]
                 r == Resolve(a.h, loc, xs[n])
             IN [ok |-> a.ok /\ r.ok, vs |-> Append(a.vs, r.v), h |-> r.h]
  IN acc[Len(xs)]

(* bindParameters resolves the resolved arguments once more, which copies  *)
(* their objects (resolve builds a new map for every map).                 *)
CopyAll(h, vs) ==
  LET acc[n \in 0 .. Len(vs)] ==
        IF n = 0 THEN [vs |-> << >>, h |-> h, cyclic |-> FALSE]
        ELSE LET a == acc[n - 1]
                 v == vs[n]
             IN IF v.k # "obj" THEN [a EXCEPT !.vs = Append(@, v)]
                ELSE [vs |-> Append(a.vs, Obj(<<Fresh(a.h), << >> >>)), h |-> Clone(a.h, v.id),
                      cyclic |-> a.cyclic \/ Cyclic(a.h, v.id)]
  IN acc[Len(vs)]

(* The rest of bindParameters: arguments by position or by name, as the    *)
(* function declares them; a null default of a positional parameter is no  *)
(* default.  Without "parameters" in the call nothing is bound.            *)
Bind(fn, call, vs) ==
  LET named(name) == {i \in DOMAIN call.argNames : call.argNames[i] = name}
      value(i) == CASE fn.kind = "list" /\ i <= Len(vs) -> vs[i]
                    [] fn.kind = "list" /\ i > Len(vs)  ->
                         IF fn.defaults[i] = Null THEN Missing ELSE fn.defaults[i]
                    [] fn.kind = "map" /\ named(fn.names[i]) # {} ->
                         vs[CHOOSE j \in named(fn.names[i]) : TRUE]
                    [] OTHER -> fn.defaults[i]
      index(key) == CHOOSE i \in DOMAIN fn.names : <<fn.names[i]>> = key
      given(key) == CHOOSE j \in DOMAIN call.argNames : <<call.argNames[j]>> = key
  IN CASE call.argKind = "none" \/ (fn.kind = "none" /\ call.argKind = "list") -> [ok |-> TRUE, m |-> Empty]
       [] fn.kind = "none" /\ call.argKind = "map" ->
            [ok |-> TRUE, m |-> [key \in {<<x>> : x \in Range(call.argNames)} |-> vs[given(key)]]]
       [] OTHER ->
            [ok |-> call.argKind = fn.kind /\ \A i \in DOMAIN fn.names : value(i) # Missing,
             m  |-> [key \in {<<x>> : x \in Range(fn.names)} |-> value(index(key))]]

(* The objects that are the defaults of functions.                         *)
Addresses(fs) == {d.id : d \in {d \in UNION {Range(fs[f].defaults) : f \in DOMAIN fs} : d.k = "obj"}}

(* serviceOperator of an object o, which names the operator and its        *)
(* parameters by their first names (left, right and parameters2 are others).*)
Member(h, o, name) == IF <<name>> \in DOMAIN o THEN View(h, o[<<name>>]) ELSE Missing
Applied(h, o) ==
  LET f == Member(h, o, "operator")
  IN Operator(IF f.k = "str" THEN f.s ELSE "", Member(h, o, "parameter1"),
              Member(h, o, "parameter2"))

(* serviceOperator: of an object that is written out, or that a variable   *)
(* holds.                                                                  *)
Operate(h, loc, x) ==
  IF x.e = "oper"
  THEN LET a == Atom(h, loc, x.a)
           b == Atom(h, loc, x.b)
       IN IF Missing \in {a, b} THEN Error ELSE Operator(x.f, View(h, a), View(h, b))
  ELSE LET v == Atom(h, loc, x) IN IF v.k = "obj" THEN Applied(h, h[v.id]) ELSE Error

(* evaluate: a condition is a value, or an object with an operator.        *)
Evaluate(h, loc, x) ==
  LET v == Atom(h, loc, x)
  IN IF x.e = "oper" \/ (v.k = "obj" /\ <<"operator">> \in DOMAIN h[v.id])
     THEN Operate(h, loc, x) ELSE [ok |-> v # Missing, v |-> v]

(* isTruthy of a condition.                                                *)
Test(h, loc, x) ==
  LET r == Evaluate(h, loc, x) IN [ok |-> r.ok, holds |-> r.ok /\ Truthy(View(h, r.v))]

----------------------------------------------------------------------------
(* Frames *)

top == Head(stack)
job == Head(top.rest)
Refused(j) == j.shape = "empty" \/ (j.shape = "malformed" /\ j.op # "set")
AtJob(op) ==
  status = "running" /\ top.rest # << >> /\ ~cancelled /\ job.op = op /\ ~Refused(job)
AtEnd(kind) == status = "running" /\ top.rest = << >> /\ top.kind = kind

Frame(kind, jobs, loc, depth) ==
  [kind |-> kind, rest |-> jobs, loc |-> loc, depth |-> depth, n |-> 0,
   returnto |-> << >>, before |-> Empty, shared |-> {}]

After(frame) == [frame EXCEPT !.rest = Tail(@)]

Stop(outcome) ==
  /\ status' = outcome
  /\ stack' = << >>
  /\ UNCHANGED <<program, heap, functions, attempt, cancelled>>
Fail == Stop("failed")

(* The end of the job at the head of frames[1]: setPath stores its result  *)
(* under resultto, and the block goes on with the next job.                *)
Return(h, v, to, frames) ==
  \E set \in {IF to = << >> THEN [ok |-> TRUE, h |-> h] ELSE SetPath(h, frames[1].loc, to, v)} :
    IF ~set.ok THEN Fail
    ELSE /\ heap' = set.h
         /\ stack' = <<After(frames[1])>> \o Tail(frames)
         /\ UNCHANGED <<program, functions, status, attempt, cancelled>>

Push(h, frame) ==
  /\ heap' = h
  /\ stack' = <<frame>> \o stack
  /\ UNCHANGED <<program, functions, status, attempt, cancelled>>

----------------------------------------------------------------------------
Init ==
  /\ program \in Programs
  /\ heap = Objects
  /\ functions = program.functions
  /\ stack = << >>
  /\ status = "ready"
  /\ attempt = 0
  /\ cancelled = FALSE

(* What the server can still reach when a run begins or ends.              *)
Live == Restrict(heap, Reach(heap, {LocalDoc, CustomDoc} \cup Addresses(functions)))

Begin(live, h, count) ==
  /\ status = "ready"
  /\ attempt' = count
  /\ IF cancelled \/ ~Valid(program)
     THEN /\ status' = "failed"
          /\ UNCHANGED <<program, heap, functions, stack, cancelled>>
     ELSE /\ status' = "running"
          /\ heap' = h
          /\ stack' = <<Frame("top", program.jobs, <<Fresh(live), << >> >>, 0)>>
          /\ functions' = IF program.stored THEN functions ELSE Empty
          /\ UNCHANGED <<program, cancelled>>

(* Two plausible bugs: the run works on a copy of the outer map only, and  *)
(* an attempt is not counted.                                              *)
BugShareLocal == \E live \in {Live} : Begin(live, BugClone(live, LocalDoc), attempt + 1)
BugAttempt == \E live \in {Live} : Begin(live, Clone(live, LocalDoc), attempt)

(* The head of runTask's retry loop, and Execute up to its first job.  The *)
(* functions are those of the task itself when its document has any, so    *)
(* what an earlier attempt or run defined is still there; or else a new    *)
(* map.  The variables are a deep copy of the task's "local" document.     *)
BeginAttempt == \E live \in {Live} : Begin(live, Clone(live, LocalDoc), attempt + 1)

(* The backoff is over and the loop tries again.                           *)
Retry ==
  /\ status = "failed" /\ attempt < MaxAttempts /\ ~cancelled
  /\ status' = "ready"
  /\ UNCHANGED <<program, heap, functions, stack, attempt, cancelled>>

(* DELETE of the task, or the end of the server.                           *)
Cancel ==
  /\ ~cancelled
  /\ cancelled' = TRUE
  /\ UNCHANGED <<program, heap, functions, stack, status, attempt>>

(* ctx.Err is read before each job and before each test of a loop.         *)
SeeCancel ==
  /\ status = "running" /\ cancelled
  /\ top.rest # << >> \/ top.kind = "loop"
  /\ Fail

(* A payload that is not an object, which only "set" accepts, or a job     *)
(* without a service: the gateway refuses the call.                        *)
BadJob ==
  /\ status = "running" /\ top.rest # << >> /\ ~cancelled
  /\ Refused(job)
  /\ Fail

Set ==
  /\ AtJob("set")
  /\ \E r \in {Resolve(heap, top.loc, job.value)} :
       IF r.ok THEN Return(r.h, r.v, job.to, stack) ELSE Fail

(* serviceGet: the payload, with its default, is resolved before the path. *)
Get ==
  /\ AtJob("get")
  /\ LET r == Resolve(heap, top.loc, job.default)
         v == Lookup(heap, top.loc, job.path)
     IN IF ~r.ok \/ (v = Missing /\ job.default = None) THEN Fail
        ELSE Return(r.h, IF v = Missing THEN r.v ELSE v, job.to, stack)

Operators ==
  /\ AtJob("oper")
  /\ \E r \in {Operate(heap, top.loc, job.value)} :
       IF r.ok THEN Return(heap, r.v, job.to, stack) ELSE Fail

(* A plausible bug: a branch counts as a call.                             *)
BugIf ==
  /\ AtJob("if")
  /\ \E test \in {Test(heap, top.loc, job.value)} :
       IF ~test.ok THEN Fail ELSE Push(heap, Frame("block", job.then, top.loc, top.depth + 1))

(* executeControl for "if": the branch shares the variables and the depth. *)
If ==
  /\ AtJob("if")
  /\ \E test \in {Test(heap, top.loc, job.value)} :
       IF ~test.ok THEN Fail
       ELSE Push(heap, [Frame("block", IF test.holds THEN job.then ELSE job.else, top.loc, top.depth)
                          EXCEPT !.n = IF test.holds THEN 1 ELSE 0])

EndIf ==
  /\ AtEnd("block")
  /\ Return(heap, Bool(top.n = 1), Head(stack[2].rest).to, Tail(stack))

While ==
  /\ AtJob("while")
  /\ Push(heap, Frame("loop", << >>, top.loc, top.depth))

(* executeControl for "while": the test before each iteration; n counts    *)
(* the iterations begun.                                                   *)
TestLoop ==
  /\ AtEnd("loop") /\ ~cancelled
  /\ \E w \in {Head(stack[2].rest)} : \E test \in {Test(heap, top.loc, w.value)} :
       CASE ~test.ok \/ (test.holds /\ top.n >= MaxLoop) -> Fail
         [] test.ok /\ ~test.holds -> Return(heap, Num(top.n), w.to, Tail(stack))
         [] test.ok /\ test.holds /\ top.n < MaxLoop ->
              /\ stack' = <<[top EXCEPT !.rest = w.body, !.n = @ + 1]>> \o Tail(stack)
              /\ UNCHANGED <<program, heap, functions, status, attempt, cancelled>>

(* defineFunction writes into the map that all frames share, also when     *)
(* storing its name then fails; the defaults are resolved here, once.      *)
DefineFunction ==
  /\ AtJob("func")
  /\ \E name \in {IF job.name # << >> THEN job.name ELSE job.to} :
     \E r \in {ResolveAll(heap, top.loc, job.defaults)} :
     \E set \in {IF job.to = << >> THEN [ok |-> TRUE, h |-> r.h]
                 ELSE SetPath(r.h, top.loc, job.to, Str("name"))} :
       IF ~r.ok \/ name = << >> THEN Fail
       ELSE /\ functions' = Put(functions, name,
                 [kind |-> job.kind, names |-> job.names, defaults |-> r.vs,
                  body |-> job.body, returnto |-> job.returnto])
            /\ heap' = set.h
            /\ status' = IF set.ok THEN "running" ELSE "failed"
            /\ stack' = IF set.ok THEN <<After(top)>> \o Tail(stack) ELSE << >>
            /\ UNCHANGED <<program, attempt, cancelled>>

(* executeFunction: the child is a copy of the caller's variables, the     *)
(* arguments are resolved against the caller and bound in the child, and   *)
(* the depth is checked last.  Resolving arguments a second time copies    *)
(* the objects among them, and does not end when one contains itself: the  *)
(* stack of the process overflows.                                         *)
ExecFunction ==
  /\ AtJob("exec")
  /\ \E args \in {ResolveAll(heap, top.loc, job.args)} :
     \E base \in {Clone(args.h, top.loc)} :
     \E copies \in {CopyAll(base, args.vs)} :
       LET child == <<Fresh(args.h), << >> >>
           fn == functions[job.func]
           bound == Bind(fn, job, copies.vs)
       IN CASE ~args.ok \/ job.func \notin DOMAIN functions -> Fail
            [] args.ok /\ job.func \in DOMAIN functions /\ copies.cyclic -> Stop("crashed")
            [] OTHER ->
                 IF ~bound.ok \/ top.depth + 1 > MaxCallDepth THEN Fail
                 ELSE Push(Put(copies.h, child, Overlay(bound.m, copies.h[child])),
                        [Frame("func", fn.body, child, top.depth + 1) EXCEPT
                           !.returnto = fn.returnto, !.before = args.h,
                           !.shared = Reach(heap, {CustomDoc} \cup Addresses(functions))])

(* The result of a function is one of its variables, or all of them.       *)
EndFunction ==
  /\ AtEnd("func")
  /\ LET v == IF top.returnto = << >> THEN Obj(top.loc) ELSE Lookup(heap, top.loc, top.returnto)
     IN IF v = Missing THEN Fail ELSE Return(heap, v, Head(stack[2].rest).to, Tail(stack))

(* Any other service: an object is sent through the gateway, and the reply *)
(* is a new object.  Validate refused an empty service, not an empty stream.*)
Call ==
  /\ AtJob("call")
  /\ \E r \in {Resolve(heap, top.loc, job.value)} :
       IF ~r.ok \/ r.v.k # "obj" THEN Fail
       ELSE \E outcome \in SendOutcome, reply \in Replies :
              IF Answered([stream |-> job.stream, service |-> "service", hasPayload |-> TRUE], outcome)
              THEN Return(Put(r.h, <<Fresh(r.h), << >> >>, reply),
                          Obj(<<Fresh(r.h), << >> >>), job.to, stack)
              ELSE Fail

(* persistDocument (module DocumentStore) takes the variables; when it      *)
(* fails the attempt has failed.                                           *)
EndWorkflow ==
  /\ AtEnd("top")
  /\ \E outcome \in {"done", "failed"} : Stop(outcome)

Over ==
  \/ status \in {"done", "crashed"}
  \/ status = "failed" /\ (attempt = MaxAttempts \/ cancelled)
Terminated == Over /\ UNCHANGED vars

Step ==
  \/ BeginAttempt \/ Retry \/ SeeCancel \/ BadJob
  \/ Set \/ Get \/ Operators \/ If \/ EndIf \/ While \/ TestLoop
  \/ DefineFunction \/ ExecFunction \/ EndFunction \/ Call \/ EndWorkflow
Next == Step \/ Cancel \/ Terminated

Spec == Init /\ [][Next]_vars /\ WF_vars(Step)

----------------------------------------------------------------------------
(* Properties *)

(* The stack is the nesting of executeJobs calls: each block above the     *)
(* outermost was opened by the job that waits at the head of the block     *)
(* below, shares its variables unless it is a function, and the depth      *)
(* counts the functions and stays within the limit, as loops do.           *)
Opens(frame, by) ==
  CASE frame.kind = "block" -> by.op = "if"
    [] frame.kind = "loop"  -> by.op = "while"
    [] frame.kind = "func"  -> by.op = "exec"
    [] OTHER                -> FALSE
StackOK ==
  /\ (status = "running") = (stack # << >>)
  /\ attempt <= MaxAttempts
  /\ \A i \in DOMAIN stack :
       /\ stack[i].depth = Cardinality({j \in i .. Len(stack) : stack[j].kind = "func"})
       /\ stack[i].depth <= MaxCallDepth
       /\ stack[i].loc \in DOMAIN heap
       /\ stack[i].n <= MaxLoop
       /\ IF i = Len(stack) THEN stack[i].kind = "top"
          ELSE /\ stack[i + 1].rest # << >>
               /\ Opens(stack[i], Head(stack[i + 1].rest))
               /\ stack[i].loc = stack[i + 1].loc \/ stack[i].kind = "func"

(* Validate looks at every job a run can come to, however it is nested and *)
(* also inside functions: no block ever holds a job without a service or a *)
(* control job without an object, unless a control job's name is padded    *)
(* with spaces, which Validate takes for an external service.              *)
Unpadded(p) == \A j \in Checked(p) : ~j.padded
OnlyValidRuns ==
  Unpadded(program) => \A i \in DOMAIN stack : \A j \in Range(stack[i].rest) : WellFormed(j)

(* A function in progress has changed no object that its caller's          *)
(* variables held when it was called, whatever it was passed: arguments    *)
(* and variables are copies.  Objects of the configuration and defaults of *)
(* functions are the exception, for they are passed by reference.          *)
Untouched(i, except) ==
  \A a \in Reach(stack[i].before, {stack[i + 1].loc}) \ except : heap[a] = stack[i].before[a]
CallerUntouched ==
  \A i \in DOMAIN stack : stack[i].kind = "func" => Untouched(i, stack[i].shared)

(* WORKFLOW_GUIDE.md:116 promises it without exception.                    *)
FunctionIsolated ==
  \A i \in DOMAIN stack : stack[i].kind = "func" => Untouched(i, {})

(* The task's own "local" document is the same before every attempt and    *)
(* whenever the server saves it: an attempt works on a deep copy, whatever *)
(* aliases it makes.  Of the rest of the task this says nothing: a func job *)
(* puts its function, with the defaults it computed, into the map of the   *)
(* task if it has one (workflow.go:414); `functions' keeps it for the next *)
(* attempt, and the server saves it with the task (app.go:957).            *)
LocalUntouched == \A a \in LocalObjects : heap[a] = Objects[a]

(* Whatever the program, the services and the cancellation, the run ends:  *)
(* loops and recursion are bounded, and every job does something.          *)
RunEnds == <>Over
=============================================================================
