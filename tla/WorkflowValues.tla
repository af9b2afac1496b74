--------------------------- MODULE WorkflowValues ---------------------------
(***************************************************************************)
(* The JSON values a workflow computes with, and the service "operators"   *)
(* (workflow.go: serviceOperator and its helpers).  A value is a record    *)
(* tagged with its Go type.  In WorkflowEngine an object is an address in   *)
(* a heap, because Go maps are references; an operator sees its contents,   *)
(* the set of all pairs of a path and the scalar (or inner object) there.   *)
(* Numbers are integers: a quotient is exact only where the division is.    *)
(***************************************************************************)
EXTENDS Integers, Sequences, FiniteSets

CONSTANTS
  NumericText,   \* [some strings -> Int]: the strings strconv.ParseFloat reads
  TextOrder      \* all strings of the instance, in the order Go compares them

Null    == [k |-> "null"]
Bool(b) == [k |-> "bool", b |-> b]
Num(n)  == [k |-> "num", n |-> n]
Str(s)  == [k |-> "str", s |-> s]
Obj(id) == [k |-> "obj", id |-> id]
Map(t)  == [k |-> "map", tree |-> t]
Missing == [k |-> "missing"]     \* the second result of a Go map lookup is false

OK(v)  == [ok |-> TRUE, v |-> v]
Error  == [ok |-> FALSE, v |-> Missing]

(* number: a numeric string counts as the number it spells.                *)
IsNumber(v) == v.k = "num" \/ (v.k = "str" /\ v.s \in DOMAIN NumericText)
Number(v)   == IF v.k = "num" THEN v.n ELSE NumericText[v.s]

(* normalizeNumber, applied to both sides before reflect.DeepEqual.        *)
Normal(v) == IF IsNumber(v) THEN Num(Number(v)) ELSE v

(* lengthOf: runes of a string, keys of an object, 0 for anything else.    *)
LengthOf(v) ==
  CASE v.k = "str" -> Len(v.s)
    [] v.k = "map" -> Cardinality({x \in v.tree : Len(x[1]) = 1})
    [] OTHER       -> 0

(* truthy, isTruthy and isTruthyValue agree.                               *)
Truthy(v) ==
  \/ v.k = "bool" /\ v.b
  \/ v.k = "str"  /\ v.s \notin {"", "false", "0"}
  \/ v.k = "num"  /\ v.n # 0
  \/ v.k = "map"  /\ LengthOf(v) > 0

Abs(n) == IF n < 0 THEN -n ELSE n
Sign(n) == IF n < 0 THEN -1 ELSE 1

(* arithmetic: math.Mod keeps the sign of the dividend.                    *)
Arithmetic(op, a, b) ==
  IF ~IsNumber(a) \/ ~IsNumber(b) \/ (op \in {"/", "%"} /\ Number(b) = 0)
  THEN Error
  ELSE LET x == Number(a)
           y == Number(b)
       IN OK(Num(CASE op = "+" -> x + y
                   [] op = "-" -> x - y
                   [] op = "*" -> x * y
                   [] op = "/" -> Sign(x) * Sign(y) * (Abs(x) \div Abs(y))
                   [] op = "%" -> Sign(x) * (Abs(x) % Abs(y))))

TextIndex(s) == CHOOSE i \in DOMAIN TextOrder : TextOrder[i] = s

Related(op, x, y) ==
  CASE op = "<" -> x < y [] op = "<=" -> x <= y [] op = ">" -> x > y [] op = ">=" -> x >= y

(* compare: two numbers, or else two strings.                              *)
Compare(op, a, b) ==
  IF IsNumber(a) /\ IsNumber(b) THEN OK(Bool(Related(op, Number(a), Number(b))))
  ELSE IF a.k = "str" /\ b.k = "str"
       THEN OK(Bool(Related(op, TextIndex(a.s), TextIndex(b.s))))
       ELSE Error

(* serviceOperator: a missing parameter is an error before anything else,  *)
(* and only "len" and "not" do without the second.                         *)
Operator(op, a, b) ==
  IF a = Missing \/ (b = Missing /\ op \notin {"len", "not"}) THEN Error
  ELSE CASE op = "len"    -> OK(Num(LengthOf(a)))
         [] op = "not"    -> OK(Bool(~Truthy(a)))
         [] op \in {"+", "-", "*", "/", "%"} -> Arithmetic(op, a, b)
         [] op \in {"<", "<=", ">", ">="}    -> Compare(op, a, b)
         [] op = "=="     -> OK(Bool(Normal(a) = Normal(b)))
         [] op = "!="     -> OK(Bool(Normal(a) # Normal(b)))
         [] op = "and"    -> OK(Bool(Truthy(a) /\ Truthy(b)))
         [] op = "or"     -> OK(Bool(Truthy(a) \/ Truthy(b)))
         [] OTHER         -> Error
=============================================================================
