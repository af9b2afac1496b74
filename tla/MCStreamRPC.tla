----------------------------- MODULE MCStreamRPC -----------------------------
(* Small instances of StreamRPC.  "a" calls "b"; "b" also calls "a".        *)
EXTENDS StreamRPC

TwoInst   == {"a", "b"}
TwoStream == {"sa", "sb"}
TwoHome   == [i \in TwoInst |-> IF i = "a" THEN "sa" ELSE "sb"]

\* Calls 1 and 2 go from a to b, call 3 from b to a.
CallerOf(R) == [r \in R |-> IF r = 3 THEN "b" ELSE "a"]
TargetOf(R) == [r \in R |-> IF r = 3 THEN "sa" ELSE "sb"]
MCCaller == CallerOf(Req)
MCTarget == TargetOf(Req)

Whole   == [r \in Req |-> 0]
TwoPart == [r \in Req |-> IF r = 1 THEN 2 ELSE 0]
UpToOne  == [r \in Req |-> IF r \in Pings THEN {1} ELSE {0, 1}]
ThreeInst == {"a", "b", "c"}
ThreeHome == [i \in ThreeInst |-> IF i = "a" THEN "sa" ELSE "sb"]
OneSlot  == [i \in Inst |-> 1]

=============================================================================
