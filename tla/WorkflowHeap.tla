---------------------------- MODULE WorkflowHeap ----------------------------
(***************************************************************************)
(* The objects of a running workflow.  A Go map is a reference, so two     *)
(* variables may hold one object: a heap maps addresses to maps.  A key of *)
(* a map is a sequence of names, because a service may return dotted keys  *)
(* ("data.list" is <<"data", "list">>) that a path spells like nesting.    *)
(* Addresses are <<n, path>>: the n-th allocation, and the place of an     *)
(* object in the document that allocation copied.  Arrays are left out.    *)
(***************************************************************************)
EXTENDS WorkflowValues, SequencesExt

(* Go's m[k] = v, and one map's entries written over another's.            *)
Put(f, x, y) == [z \in DOMAIN f \cup {x} |-> IF z = x THEN y ELSE f[z]]
Overlay(f, g) == [z \in DOMAIN f \cup DOMAIN g |-> IF z \in DOMAIN f THEN f[z] ELSE g[z]]
Empty == [x \in {} |-> Null]
Fresh(h) == 1 + Max({a[1] : a \in DOMAIN h})

(* Every reference leads to an object, and maps are finite.                *)
IsHeap(h) ==
  /\ IsFiniteSet(DOMAIN h)
  /\ \A a \in DOMAIN h :
       /\ a[1] \in Nat /\ IsFiniteSet(DOMAIN h[a])
       /\ \A k \in DOMAIN h[a] : h[a][k].k = "obj" => h[a][k].id \in DOMAIN h

(* Only the objects in P refer to objects in P.                            *)
Apart(h, P) ==
  \A a \in DOMAIN h \ P : \A k \in DOMAIN h[a] : h[a][k].k = "obj" => h[a][k].id \notin P

(* One round of getPath's loop: the next name alone if the map has it, or  *)
(* else the longest dotted key that the rest of the path begins with.      *)
LookupStep(h, p, at) ==
  IF at.i > Len(p) THEN at
  ELSE LET key(n) == SubSeq(p, at.i, at.i + n - 1)
           ns == IF at.v.k # "obj" THEN {}
                 ELSE {n \in 1 .. Len(p) - at.i + 1 : key(n) \in DOMAIN h[at.v.id]}
           n == IF 1 \in ns THEN 1 ELSE CHOOSE m \in ns : \A o \in ns : o <= m
       IN IF ns = {} THEN [v |-> Missing, i |-> Len(p) + 1]
          ELSE [v |-> h[at.v.id][key(n)], i |-> at.i + n]

(* getPath                                                                 *)
Lookup(h, id, p) ==
  LET at[n \in 0 .. Len(p)] ==
        IF n = 0 THEN [v |-> Obj(id), i |-> 1] ELSE LookupStep(h, p, at[n - 1])
  IN at[Len(p)].v

(* One round of setPath's loop: missing and null objects are created, and  *)
(* anything else that is not an object is an error.                        *)
Descend(at, name) ==
  LET m == at.h[at.id]
      next == IF <<name>> \in DOMAIN m THEN m[<<name>>] ELSE Null
      new == <<Fresh(at.h), <<>> >>
  IN CASE next.k = "obj"  -> [at EXCEPT !.id = next.id]
       [] next.k = "null" -> [at EXCEPT !.id = new,
                                !.h = Put(Put(at.h, at.id, Put(m, <<name>>, Obj(new))), new, Empty)]
       [] OTHER           -> [at EXCEPT !.ok = FALSE]

(* setPath; the heap it leaves behind is of no use when it fails.          *)
SetPath(h, id, p, v) ==
  LET at[n \in 0 .. Len(p) - 1] ==
        IF n = 0 THEN [ok |-> TRUE, h |-> h, id |-> id]
        ELSE LET a == at[n - 1] IN IF a.ok THEN Descend(a, p[n]) ELSE a
      end == at[Len(p) - 1]
  IN [ok |-> end.ok,
      h  |-> IF end.ok THEN Put(end.h, end.id, Put(end.h[end.id], <<Last(p)>>, v)) ELSE h]

(* The inner objects of object id, as pairs <<key, address>>.              *)
Inner(h, id) == {<<k, h[id][k].id>> : k \in {k \in DOMAIN h[id] : h[id][k].k = "obj"}}

(* The objects that id leads to, each with the path to it: no path is      *)
(* longer than the number of objects unless it goes round a cycle.         *)
Unfold(h, id) ==
  LET U[d \in 0 .. Cardinality(DOMAIN h)] ==
        IF d = 0 THEN {<< << >>, id>>}
        ELSE UNION {{x} \cup {<<Append(x[1], y[1]), y[2]>> : y \in Inner(h, x[2])} : x \in U[d - 1]}
  IN U[Cardinality(DOMAIN h)]

Reach(h, ids) == UNION {{x[2] : x \in Unfold(h, id)} : id \in ids}
Cyclic(h, id) == \E x \in Unfold(h, id) : Len(x[1]) = Cardinality(DOMAIN h)

(* The value an operator sees: the contents instead of the address.        *)
View(h, v) ==
  IF v.k # "obj" THEN v
  ELSE Map(UNION {{<<Append(x[1], k), IF h[x[2]][k].k = "obj" THEN Missing ELSE h[x[2]][k]>>
                   : k \in DOMAIN h[x[2]]} : x \in Unfold(h, v.id)})

(* A plausible bug: only the outer map is copied.                          *)
BugClone(h, id) == Put(h, <<Fresh(h), << >> >>, h[id])

(* cloneMap goes through JSON: a tree of new objects in which nothing is   *)
(* shared, or no variables at all when the object contains itself.         *)
Clone(h, id) ==
  LET n == Fresh(h)
      old(p) == (CHOOSE x \in Unfold(h, id) : x[1] = p)[2]
      copy(p) == [k \in DOMAIN h[old(p)] |-> LET v == h[old(p)][k]
                                             IN IF v.k = "obj" THEN Obj(<<n, Append(p, k)>>) ELSE v]
  IN IF Cyclic(h, id) THEN Put(h, <<n, << >> >>, Empty)
     ELSE Overlay([a \in {<<n, x[1]>> : x \in Unfold(h, id)} |-> copy(a[2])], h)
=============================================================================
