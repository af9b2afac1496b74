-------------------------- MODULE MCWorkflowEngine --------------------------
(***************************************************************************)
(* All workflows of a function definition and two jobs of a small         *)
(* alphabet: aliases, nested paths, branches, loops that end and loops     *)
(* that do not, calls with right and wrong parameters, recursion, replies  *)
(* with dotted keys, and documents that Validate must refuse.              *)
(***************************************************************************)
EXTENDS WorkflowEngine

Lit(v) == [e |-> "lit", v |-> v]
Local(p) == [e |-> "local", p |-> p]
Conf(p) == [e |-> "custom", p |-> p]
Var(n) == [e |-> "env", name |-> n]
Lit1 == Lit(Num(1))
Rec == [e |-> "map", m |-> (<<"x">> :> Lit(Num(0)))]
Apply(f, a, b) == [e |-> "oper", f |-> f, a |-> a, b |-> b]

Job(op, to) == [op |-> op, to |-> to, shape |-> "good", padded |-> FALSE]
SetTo(x, to) == Job("set", to) @@ [value |-> x]
GetTo(p, d, to) == Job("get", to) @@ [path |-> p, default |-> d]
IfDo(c, then, else) == Job("if", <<"b">>) @@ [value |-> c, then |-> then, else |-> else]
WhileDo(c, body, to) == Job("while", to) @@ [value |-> c, body |-> body]
Func(kind, names, defaults, body, ret) ==
  Job("func", << >>) @@ [name |-> <<"f">>, kind |-> kind, names |-> names,
                         defaults |-> defaults, body |-> body, returnto |-> ret]
Exec(kind, names, args, to) ==
  Job("exec", to) @@ [func |-> <<"f">>, argKind |-> kind, argNames |-> names, args |-> args]
CallTo(x, to) == Job("call", to) @@ [value |-> x, stream |-> "proxy"]

Inc == Job("oper", <<"a", "x">>) @@ [value |-> Apply("+", Local(<<"a", "x">>), Lit1)]
SetX(v) == SetTo(Lit1, <<v, "x">>)
Bad(j) == [j EXCEPT !.shape = "empty"]

Defs == {
  Func("list", <<"p">>, <<None>>, <<SetX("p"), SetX("a")>>, <<"p", "x">>),
  Func("map", <<"p">>, <<Local(<<"a">>)>>, <<SetX("p")>>, << >>),
  Func("none", << >>, << >>, <<SetTo(Conf(<<"c">>), <<"b">>), SetX("b")>>, <<"b">>),
  Func("none", << >>, << >>, <<SetX("a"), Exec("none", << >>, << >>, << >>)>>, << >>) }

Jobs == {
  SetTo(Rec, <<"a">>), SetTo(Local(<<"a">>), <<"b">>), SetTo(Conf(<<"c">>), <<"a">>),
  SetTo(Local(<<"a">>), <<"a", "x">>), SetX("a"), SetTo(Var("HOME"), <<"a">>),
  GetTo(<<"r", "data", "x">>, Lit(Null), <<"b">>), CallTo(Rec, <<"r">>),
  IfDo(Apply("<", Local(<<"a", "x">>), Lit1), <<Inc>>, <<SetTo(Rec, <<"a">>)>>),
  WhileDo(Apply("<", Local(<<"a", "x">>), Lit(Num(2))), <<Inc>>, <<"b">>),
  WhileDo(Lit(Bool(TRUE)), <<Exec("none", << >>, << >>, << >>)>>, << >>),
  Exec("list", << >>, <<Local(<<"a">>)>>, <<"b">>), Exec("map", <<"p">>, <<Local(<<"a">>)>>, <<"b">>),
  Exec("map", << >>, << >>, <<"b">>), Exec("none", << >>, << >>, <<"a">>) }

Invalid == {
  <<Bad(SetX("a"))>>, <<[SetX("a") EXCEPT !.shape = "both"]>>,
  <<IfDo(Lit1, <<Bad(SetX("a"))>>, << >>)>>,
  <<[IfDo(Lit1, <<Bad(SetX("a"))>>, << >>) EXCEPT !.padded = TRUE]>>,
  <<WhileDo(Lit1, <<Func("none", << >>, << >>, <<Bad(SetX("a"))>>, << >>),
                  Exec("none", << >>, << >>, << >>)>>, << >>)>>,
  <<Func("none", << >>, << >>, <<[IfDo(Lit1, << >>, << >>) EXCEPT !.shape = "malformed"]>>, << >>),
    Exec("none", << >>, << >>, << >>)>> }

(* A variable that holds an object with an operator, used as a condition;  *)
(* calls that the engine or the gateway refuses.                           *)
Held == [e |-> "map", m |-> (<<"operator">> :> Lit(Str("<"))) @@ (<<"parameter1">> :> Local(<<"a", "x">>))
                             @@ (<<"parameter2">> :> Lit1)]
Unusual == {
  <<SetTo(Held, <<"b">>), IfDo(Local(<<"b">>), <<Inc>>, <<SetTo(Rec, <<"r">>)>>)>>,
  <<SetTo(Held, <<"b">>), Job("oper", <<"b">>) @@ [value |-> Local(<<"b">>)],
    Job("oper", <<"b">>) @@ [value |-> Local(<<"a">>)]>>,
  <<CallTo(Lit1, <<"r">>)>>, <<[CallTo(Rec, <<"r">>) EXCEPT !.stream = ""]>> }

Workflow(jobs, fs, stored) == [jobs |-> jobs, functions |-> fs, stored |-> stored]
Stored(body) == <<"f">> :> [kind |-> "list", names |-> <<"p">>, defaults |-> <<Lit1.v>>,
                            body |-> body, returnto |-> << >>]
MCPrograms ==
  {Workflow(<<d, j1, j2>>, Empty, FALSE) : d \in Defs, j1 \in Jobs, j2 \in Jobs}
  \cup {Workflow(jobs, Empty, FALSE) : jobs \in Invalid \cup Unusual}
  \cup {Workflow(<<Exec("list", << >>, <<Local(<<"a">>)>>, <<"b">>), d>>, Stored(<<j>>), TRUE) :
          d \in Defs, j \in {SetX("p"), Bad(SetX("p"))}}

(* Their jobs, the nested ones too.                                        *)
Outer == Defs \cup Jobs \cup UNION {Range(jobs) : jobs \in Invalid \cup Unusual} \cup {SetX("p"), Bad(SetX("p"))}
Nested(j) == UNION {Range(j[f]) : f \in DOMAIN j \cap {"then", "else", "body"}}
Below(js) == js \cup UNION {Nested(j) : j \in js}
MCAnyJob == Below(Below(Below(Outer \cup {Exec("list", << >>, <<Local(<<"a">>)>>, <<"b">>)})))

Root(n) == <<n, << >> >>
MCLocalDoc == Root(0)
MCCustomDoc == Root(1)
MCObjects ==
  MCLocalDoc :> (<<"a">> :> Obj(<<0, <<<<"a">>>>>>))
  @@ <<0, <<<<"a">>>>>> :> (<<"x">> :> Num(0))
  @@ MCCustomDoc :> (<<"c">> :> Obj(<<1, <<<<"c">>>>>>))
  @@ <<1, <<<<"c">>>>>> :> (<<"x">> :> Num(0))
MCEnv == [n \in {"HOME"} |-> "abc"]
MCReplies == {<<"data", "x">> :> Str("10"), (<<"data", "x">> :> Str("10")) @@ (<<"data">> :> Null)}
MCNumericText == ("10" :> 10)
MCTextOrder == <<"", "10", "abc">>
=============================================================================
