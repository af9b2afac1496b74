------------------------ MODULE WorkflowEngine_proofs ------------------------
(***************************************************************************)
(* Theorems about WorkflowEngine for every program and every limit.  Part  *)
(* one is about numbers, sequences and recursion; part two says what each  *)
(* operation on the heap returns and leaves alone; part three is the       *)
(* inductive invariant of the engine.                                      *)
(***************************************************************************)
EXTENDS WorkflowEngine, FiniteSetTheorems, WellFoundedInduction, TLAPS

(* Every set of numbers has a smallest: induction as a statement about     *)
(* sets, which the provers can apply.                                      *)
LEMMA Smallest ==
  ASSUME NEW S, S \subseteq Nat, S # {}
  PROVE  \E m \in S : \A n \in S : m <= n
<1>1. \A m, n \in Nat : <<m, n>> \in OpToRel(<, Nat) <=> m < n
  BY DEF OpToRel
<1>2. PICK m \in S : \A n \in S : <<n, m>> \notin OpToRel(<, Nat)
  BY NatLessThanWellFounded, WFMin
<1>3. \A n \in S : ~(n < m)
  BY <1>1, <1>2
<1>4. m \in S
  BY <1>2
<1> QED BY <1>3, <1>4

LEMMA Induction ==
  ASSUME NEW S, 0 \in S, \A n \in Nat : n \in S => n + 1 \in S
  PROVE  Nat \subseteq S
<1> SUFFICES ASSUME Nat \ S # {} PROVE FALSE
  OBVIOUS
<1>1. PICK m \in Nat \ S : \A n \in Nat \ S : m <= n
  BY Smallest
<1>2. m # 0 /\ m - 1 \in Nat
  BY <1>1
<1>3. m - 1 \in S
  BY <1>1, <1>2
<1>4. (m - 1) + 1 \in S
  BY <1>2, <1>3
<1> QED BY <1>1, <1>4

LEMMA Largest ==
  ASSUME NEW N \in Nat, NEW S, S \subseteq 0 .. N, S # {}
  PROVE  \E m \in S : \A n \in S : n <= m
<1> DEFINE D == {N - n : n \in S}
<1>5. \A n \in S : n \in Nat /\ n <= N
  OBVIOUS
<1>6. \A n \in S : N - n \in Nat
  BY <1>5
<1>1. D \subseteq Nat /\ D # {}
  BY <1>6
<1>2. PICK d \in D : \A e \in D : d <= e
  BY <1>1, Smallest
<1>3. PICK m \in S : d = N - m
  BY <1>2
<1>4. \A n \in S : d <= N - n
  BY <1>2
<1> QED BY <1>3, <1>4, <1>5

(* A finite set of numbers has an upper bound.                             *)
LEMMA Bounded ==
  ASSUME NEW T, T \subseteq Nat, IsFiniteSet(T)
  PROVE  \E b \in Nat : \A t \in T : t <= b
<1> DEFINE S == {n \in Nat : \A U \in SUBSET Nat : IsFiniteSet(U) /\ Cardinality(U) = n =>
                                 \E b \in Nat : \A t \in U : t <= b}
<1>1. 0 \in S
  <2> SUFFICES ASSUME NEW U \in SUBSET Nat, IsFiniteSet(U), Cardinality(U) = 0
               PROVE  \E b \in Nat : \A t \in U : t <= b
    OBVIOUS
  <2>1. U = {}
    BY FS_EmptySet
  <2> QED BY <2>1
<1>2. ASSUME NEW n \in Nat, n \in S PROVE n + 1 \in S
  <2> SUFFICES ASSUME NEW U \in SUBSET Nat, IsFiniteSet(U), Cardinality(U) = n + 1
               PROVE  \E b \in Nat : \A t \in U : t <= b
    OBVIOUS
  <2>1. U # {}
    BY FS_EmptySet
  <2>2. PICK x \in U : TRUE
    BY <2>1
  <2>3. /\ IsFiniteSet(U \ {x}) /\ Cardinality(U \ {x}) = Cardinality(U) - 1
    BY <2>2, FS_RemoveElement
  <2>4. U \ {x} \in SUBSET Nat /\ Cardinality(U \ {x}) = n
    BY <2>3
  <2>5. PICK b \in Nat : \A t \in U \ {x} : t <= b
    BY <1>2, <2>3, <2>4
  <2>6. CASE x <= b
    BY <2>5, <2>6
  <2>7. CASE ~(x <= b)
    <3>1. x \in Nat /\ \A t \in U : t <= x
      BY <2>5, <2>7
    <3> QED BY <3>1
  <2> QED BY <2>6, <2>7
<1>3. Nat \subseteq S
  <2> HIDE DEF S
  <2> QED BY <1>1, <1>2, Induction
<1>4. Cardinality(T) \in Nat
  BY FS_CardinalityType
<1>5. Cardinality(T) \in S
  BY <1>3, <1>4
<1> QED BY <1>5

LEMMA FiniteImage ==
  ASSUME NEW S, IsFiniteSet(S), NEW f, DOMAIN f = S
  PROVE  IsFiniteSet({f[x] : x \in S})
<1> DEFINE T == {f[x] : x \in S}
           g == [x \in S |-> f[x]]
<1>1. g \in Surjection(S, T)
  BY DEF Surjection
<1> QED BY <1>1, FS_Surjection

LEMMA FreshIsNew ==
  ASSUME NEW h, IsHeap(h), DOMAIN h # {}
  PROVE  /\ Fresh(h) \in Nat
         /\ \A p : <<Fresh(h), p>> \notin DOMAIN h
<1> DEFINE T == {a[1] : a \in DOMAIN h}
<1>1. T \subseteq Nat /\ T # {}
  BY DEF IsHeap
<1>2. IsFiniteSet(T)
  <2> DEFINE f == [a \in DOMAIN h |-> a[1]]
  <2>1. IsFiniteSet({f[a] : a \in DOMAIN h})
    <3>1. DOMAIN f = DOMAIN h
      OBVIOUS
    <3> HIDE DEF f
    <3> QED BY <3>1, FiniteImage DEF IsHeap
  <2>2. {f[a] : a \in DOMAIN h} = T
    OBVIOUS
  <2> QED BY <2>1, <2>2
<1>3. PICK b \in Nat : \A t \in T : t <= b
  BY <1>1, <1>2, Bounded
<1>4. PICK m \in T : \A n \in T : n <= m
  <2>1. T \subseteq 0 .. b
    BY <1>1, <1>3
  <2> HIDE DEF T
  <2> QED BY <1>1, <2>1, Largest
<1>5. Max(T) \in T /\ \A n \in T : Max(T) >= n
  <2>1. \A n \in T : m >= n
    BY <1>1, <1>4
  <2> HIDE DEF T
  <2> QED BY <2>1 DEF Max
<1>6. \A a \in DOMAIN h : a[1] # Fresh(h)
  <2>1. \A a \in DOMAIN h : a[1] \in T
    OBVIOUS
  <2>2. Fresh(h) = 1 + Max(T)
    BY DEF Fresh
  <2>3. Max(T) \in Nat
    BY <1>1, <1>5
  <2>4. \A t \in T : Max(T) >= t /\ t \in Nat
    BY <1>1, <1>5
  <2> HIDE DEF T
  <2> QED BY <2>1, <2>2, <2>3, <2>4
<1>7. Fresh(h) \in Nat
  <2>1. Fresh(h) = 1 + Max(T)
    BY DEF Fresh
  <2>2. Max(T) \in Nat
    BY <1>1, <1>5
  <2> HIDE DEF T
  <2> QED BY <2>1, <2>2
<1>8. \A p : <<Fresh(h), p>>[1] = Fresh(h)
  OBVIOUS
<1> QED BY <1>6, <1>7, <1>8

(***************************************************************************)
(* The heap.  P is a set of objects that the run must not reach.           *)
(***************************************************************************)
Sound(h, P) == IsHeap(h) /\ Apart(h, P) /\ P \subseteq DOMAIN h /\ DOMAIN h # {}

(* A value the run may hold: no object, or one that exists outside P.      *)
Ref(h, P, v) == v.k = "obj" => v.id \in DOMAIN h \ P

(* What a step may do to the heap: add objects and change those outside P. *)
Extends(h, g, P) == Sound(g, P) /\ DOMAIN h \subseteq DOMAIN g /\ \A a \in P : g[a] = h[a]

LEMMA PutFacts ==
  ASSUME NEW f, NEW x, NEW y
  PROVE  /\ DOMAIN Put(f, x, y) = DOMAIN f \cup {x}
         /\ Put(f, x, y)[x] = y
         /\ \A z \in DOMAIN f \ {x} : Put(f, x, y)[z] = f[z]
BY DEF Put

LEMMA ExtendsTransitive ==
  ASSUME NEW f, NEW g, NEW h, NEW P, P \subseteq DOMAIN f, Extends(f, g, P), Extends(g, h, P)
  PROVE  Extends(f, h, P)
BY DEF Extends

LEMMA RefExtends ==
  ASSUME NEW f, NEW g, NEW P, NEW v, Extends(f, g, P), Ref(f, P, v)
  PROVE  Ref(g, P, v)
BY DEF Extends, Ref

LEMMA PutExtends ==
  ASSUME NEW h, NEW P, Sound(h, P), NEW x, x \notin P, x[1] \in Nat,
         NEW m, IsFiniteSet(DOMAIN m),
         \A k \in DOMAIN m : m[k].k = "obj" => m[k].id \in (DOMAIN h \cup {x}) \ P
  PROVE  Extends(h, Put(h, x, m), P)
<1> DEFINE g == Put(h, x, m)
<1>1. /\ DOMAIN g = DOMAIN h \cup {x}
      /\ g[x] = m
      /\ \A z \in DOMAIN h \ {x} : g[z] = h[z]
  BY DEF Put
<1> HIDE DEF g
<1>2. IsFiniteSet(DOMAIN g)
  BY <1>1, FS_AddElement DEF Sound, IsHeap
<1>3. ASSUME NEW a \in DOMAIN g
      PROVE  a[1] \in Nat /\ IsFiniteSet(DOMAIN g[a])
  BY <1>1, <1>3 DEF Sound, IsHeap
<1>4. ASSUME NEW a \in DOMAIN g, NEW k \in DOMAIN g[a], g[a][k].k = "obj"
      PROVE  g[a][k].id \in DOMAIN g
  BY <1>1, <1>4 DEF Sound, IsHeap
<1>5. ASSUME NEW a \in DOMAIN g \ P, NEW k \in DOMAIN g[a], g[a][k].k = "obj"
      PROVE  g[a][k].id \notin P
  BY <1>1, <1>5 DEF Sound, Apart
<1>6. P \subseteq DOMAIN g /\ DOMAIN g # {}
  BY <1>1 DEF Sound
<1>7. \A a \in P : g[a] = h[a]
  BY <1>1 DEF Sound
<1>8. Sound(g, P)
  BY <1>2, <1>3, <1>4, <1>5, <1>6 DEF Sound, IsHeap, Apart
<1>9. Extends(h, g, P)
  BY <1>1, <1>7, <1>8 DEF Extends
<1> QED BY <1>9 DEF g

(* What getPath finds is as far from P as the map it starts from.          *)
LEMMA LookupStepRef ==
  ASSUME NEW h, NEW P, Sound(h, P), NEW p \in Path, NEW at, at.i \in Nat, Ref(h, P, at.v)
  PROVE  LET next == LookupStep(h, p, at) IN next.i \in Nat /\ Ref(h, P, next.v)
<1> DEFINE key(n) == SubSeq(p, at.i, at.i + n - 1)
           ns == IF at.v.k # "obj" THEN {}
                 ELSE {n \in 1 .. Len(p) - at.i + 1 : key(n) \in DOMAIN h[at.v.id]}
           n == IF 1 \in ns THEN 1 ELSE CHOOSE m \in ns : \A o \in ns : o <= m
           next == IF ns = {} THEN [v |-> Missing, i |-> Len(p) + 1]
                   ELSE [v |-> h[at.v.id][key(n)], i |-> at.i + n]
<1>1. LookupStep(h, p, at) = IF at.i > Len(p) THEN at ELSE next
  BY DEF LookupStep
<1>2. CASE at.i > Len(p)
  BY <1>1, <1>2
<1>3. CASE ~(at.i > Len(p)) /\ ns = {}
  <2>1. next = [v |-> Missing, i |-> Len(p) + 1]
    BY <1>3
  <2>2. LookupStep(h, p, at) = [v |-> Missing, i |-> Len(p) + 1]
    BY <1>1, <1>3, <2>1
  <2>3. Len(p) \in Nat
    BY DEF Path
  <2> QED BY <2>2, <2>3 DEF Ref, Missing
<1>4. CASE ~(at.i > Len(p)) /\ ns # {}
  <2>1. Len(p) - at.i + 1 \in Nat /\ ns \subseteq 0 .. (Len(p) - at.i + 1)
    <3>1. Len(p) \in Nat
      BY DEF Path
    <3>2. Len(p) - at.i + 1 \in Nat
      BY <1>4, <3>1
    <3> QED BY <3>2
  <2>2. PICK m \in ns : \A o \in ns : o <= m
    <3> HIDE DEF ns
    <3> QED BY <1>4, <2>1, Largest
  <2>3. n \in ns
    <3> HIDE DEF ns
    <3> QED BY <2>2
  <2>4. n \in Nat
    <3> HIDE DEF ns, n
    <3> QED BY <2>1, <2>3
  <2>5. at.v.k = "obj" /\ key(n) \in DOMAIN h[at.v.id]
    <3>1. at.v.k = "obj"
      BY <1>4
    <3> HIDE DEF n, key
    <3> QED BY <2>3, <3>1
  <2> HIDE DEF n, key, ns
  <2>6. LookupStep(h, p, at) = [v |-> h[at.v.id][key(n)], i |-> at.i + n]
    BY <1>1, <1>4
  <2>7. Ref(h, P, h[at.v.id][key(n)])
    BY <2>5 DEF Ref, Sound, IsHeap, Apart
  <2> QED BY <2>4, <2>6, <2>7
<1> QED BY <1>2, <1>3, <1>4

LEMMA LookupRef ==
  ASSUME NEW h, NEW P, Sound(h, P), NEW p \in Path, NEW id \in DOMAIN h \ P
  PROVE  Ref(h, P, Lookup(h, id, p))
<1> DEFINE first == [v |-> Obj(id), i |-> 1]
           at[n \in 0 .. Len(p)] == IF n = 0 THEN first ELSE LookupStep(h, p, at[n - 1])
<1>1. Len(p) \in Nat
  BY DEF Path
<1>2. \E f : f = [n \in 0 .. Len(p) |-> IF n = 0 THEN first ELSE LookupStep(h, p, f[n - 1])]
  <2> DEFINE S == {m \in Nat : \E f : f = [n \in 0 .. m |-> IF n = 0 THEN first
                                                    ELSE LookupStep(h, p, f[n - 1])]}
  <2> HIDE DEF first
  <2>1. 0 \in S
    <3> DEFINE f == [n \in 0 .. 0 |-> first]
    <3>1. f = [n \in 0 .. 0 |-> IF n = 0 THEN first ELSE LookupStep(h, p, f[n - 1])]
      OBVIOUS
    <3> QED BY <3>1
  <2>2. ASSUME NEW m \in Nat, m \in S PROVE m + 1 \in S
    <3>1. PICK f : f = [n \in 0 .. m |-> IF n = 0 THEN first ELSE LookupStep(h, p, f[n - 1])]
      BY <2>2
    <3> DEFINE g == [n \in 0 .. m + 1 |-> IF n = m + 1 THEN LookupStep(h, p, f[m]) ELSE f[n]]
    <3>2. ASSUME NEW n \in 0 .. m + 1
          PROVE  g[n] = IF n = 0 THEN first ELSE LookupStep(h, p, g[n - 1])
      <4>1. CASE n = m + 1
        BY <4>1
      <4>2. CASE n \in 0 .. m
        <5>1. g[n] = f[n]
          BY <4>2
        <5>2. n # 0 => n - 1 \in 0 .. m /\ g[n - 1] = f[n - 1]
          BY <4>2
        <5>3. f[n] = IF n = 0 THEN first ELSE LookupStep(h, p, f[n - 1])
          BY <3>1, <4>2
        <5> HIDE DEF g
        <5> QED BY <5>1, <5>2, <5>3
      <4> QED BY <4>1, <4>2
    <3>3. g = [n \in 0 .. m + 1 |-> IF n = 0 THEN first ELSE LookupStep(h, p, g[n - 1])]
      BY <3>2
    <3> HIDE DEF g
    <3> QED BY <3>3
  <2>3. Nat \subseteq S
    <3> HIDE DEF S
    <3> QED BY <2>1, <2>2, Induction
  <2> QED BY <1>1, <2>3
<1>3. at = [n \in 0 .. Len(p) |-> IF n = 0 THEN first ELSE LookupStep(h, p, at[n - 1])]
  <2> HIDE DEF first
  <2> QED BY <1>2
<1>4. Lookup(h, id, p) = at[Len(p)].v
  BY DEF Lookup
<1> HIDE DEF at
<1> DEFINE S == {n \in Nat : n <= Len(p) => at[n].i \in Nat /\ Ref(h, P, at[n].v)}
<1>5. 0 \in S
  <2>1. at[0] = first
    BY <1>1, <1>3
  <2> QED BY <2>1 DEF Ref, Obj
<1>6. ASSUME NEW n \in Nat, n \in S PROVE n + 1 \in S
  <2> SUFFICES ASSUME n + 1 <= Len(p)
               PROVE  at[n + 1].i \in Nat /\ Ref(h, P, at[n + 1].v)
    OBVIOUS
  <2>1. at[n].i \in Nat /\ Ref(h, P, at[n].v)
    BY <1>1, <1>6
  <2>2. at[n + 1] = LookupStep(h, p, at[n])
    BY <1>1, <1>3
  <2> QED BY <2>1, <2>2, LookupStepRef
<1>7. Nat \subseteq S
  <2> HIDE DEF S
  <2> QED BY <1>5, <1>6, Induction
<1>8. Ref(h, P, at[Len(p)].v)
  BY <1>1, <1>7
<1> QED BY <1>4, <1>8

(* One step of setPath adds at most an empty map to a map outside P.        *)
LEMMA DescendExtends ==
  ASSUME NEW at, NEW P, NEW name, Sound(at.h, P), at.ok, at.id \in DOMAIN at.h \ P,
         at = [ok |-> at.ok, h |-> at.h, id |-> at.id]
  PROVE  LET next == Descend(at, name)
         IN /\ next = [ok |-> next.ok, h |-> next.h, id |-> next.id]
            /\ next.ok \in BOOLEAN
            /\ Extends(at.h, next.h, P)
            /\ next.id \in DOMAIN next.h \ P
<1> DEFINE m == at.h[at.id]
           v == IF <<name>> \in DOMAIN m THEN m[<<name>>] ELSE Null
           new == <<Fresh(at.h), << >> >>
           m1 == Put(m, <<name>>, Obj(new))
           h1 == Put(at.h, at.id, m1)
           h2 == Put(Put(at.h, at.id, m1), new, Empty)
<1>1. Descend(at, name) =
        CASE v.k = "obj"  -> [at EXCEPT !.id = v.id]
          [] v.k = "null" -> [at EXCEPT !.id = new, !.h = h2]
          [] OTHER        -> [at EXCEPT !.ok = FALSE]
  BY DEF Descend
<1>2. Extends(at.h, at.h, P)
  BY DEF Extends
<1>3. CASE v.k = "obj"
  <2>1. Descend(at, name) = [ok |-> at.ok, h |-> at.h, id |-> v.id]
    BY <1>1, <1>3
  <2>2. v.id \in DOMAIN at.h \ P
    <3>1. <<name>> \in DOMAIN m
      BY <1>3 DEF Null
    <3> QED BY <1>3, <3>1 DEF Sound, IsHeap, Apart
  <2> QED BY <1>2, <2>1, <2>2
<1>4. CASE v.k = "null"
  <2>1. Descend(at, name) = [ok |-> at.ok, h |-> h2, id |-> new]
    BY <1>1, <1>4
  <2>2. new \notin DOMAIN at.h /\ new[1] \in Nat
    <3>1. \A p : <<Fresh(at.h), p>> \notin DOMAIN at.h
      BY FreshIsNew DEF Sound
    <3>2. Fresh(at.h) \in Nat
      BY FreshIsNew DEF Sound
    <3> QED BY <3>1, <3>2
  <2> HIDE DEF new
  <2>3. new \notin P
    BY <2>2 DEF Sound
  <2>4. DOMAIN h2 = DOMAIN at.h \cup {new}
    BY DEF Put
  <2>5. h2[new] = Empty /\ h2[at.id] = m1
    BY <2>2 DEF Put
  <2>6. \A a \in DOMAIN at.h \ {at.id} : h2[a] = at.h[a]
    BY <2>2 DEF Put
  <2>7. DOMAIN m1 = DOMAIN m \cup {<<name>>} /\ m1[<<name>>] = Obj(new)
        /\ \A k \in DOMAIN m \ {<<name>>} : m1[k] = m[k]
    BY DEF Put
  <2> HIDE DEF h2, m1
  <2>8. IsFiniteSet(DOMAIN h2)
    BY <2>4, FS_AddElement DEF Sound, IsHeap
  <2>9. ASSUME NEW a \in DOMAIN h2 PROVE a[1] \in Nat /\ IsFiniteSet(DOMAIN h2[a])
    <3>1. CASE a = new
      BY <2>2, <2>5, <3>1, FS_EmptySet DEF Empty
    <3>2. CASE a = at.id
      <4>1. IsFiniteSet(DOMAIN m) /\ at.id[1] \in Nat
        BY DEF Sound, IsHeap
      <4>2. IsFiniteSet(DOMAIN m1)
        BY <2>7, <4>1, FS_AddElement
      <4> QED BY <2>5, <3>2, <4>1, <4>2
    <3>3. CASE a \in DOMAIN at.h \ {at.id}
      BY <2>6, <3>3 DEF Sound, IsHeap
    <3> QED BY <2>4, <3>1, <3>2, <3>3
  <2>10. ASSUME NEW a \in DOMAIN h2, NEW k \in DOMAIN h2[a], h2[a][k].k = "obj"
         PROVE  h2[a][k].id \in DOMAIN h2 /\ (a \notin P => h2[a][k].id \notin P)
    <3>1. CASE a = new
      BY <2>5, <2>10, <3>1 DEF Empty
    <3>2. CASE a = at.id /\ k = <<name>>
      BY <2>3, <2>4, <2>5, <2>7, <3>2 DEF Obj
    <3>3. CASE a = at.id /\ k # <<name>>
      <4>1. k \in DOMAIN m /\ h2[a][k] = m[k]
        BY <2>5, <2>7, <2>10, <3>3
      <4>2. m[k].k = "obj" => m[k].id \in DOMAIN at.h \ P
        BY <4>1 DEF Sound, IsHeap, Apart
      <4> QED BY <2>4, <2>10, <4>1, <4>2
    <3>4. CASE a \in DOMAIN at.h \ {at.id}
      <4>1. h2[a] = at.h[a]
        BY <2>6, <3>4
      <4> QED BY <2>4, <2>10, <3>4, <4>1 DEF Sound, IsHeap, Apart
    <3> QED BY <2>4, <3>1, <3>2, <3>3, <3>4
  <2>11. Sound(h2, P)
    BY <2>4, <2>8, <2>9, <2>10 DEF Sound, IsHeap, Apart
  <2>12. Extends(at.h, h2, P)
    BY <2>4, <2>6, <2>11 DEF Extends, Sound
  <2> QED BY <2>1, <2>3, <2>4, <2>12
<1>5. CASE v.k \notin {"obj", "null"}
  <2>1. Descend(at, name) = [ok |-> FALSE, h |-> at.h, id |-> at.id]
    BY <1>1, <1>5
  <2> QED BY <1>2, <2>1
<1> QED BY <1>3, <1>4, <1>5

LEMMA SetPathExtends ==
  ASSUME NEW h, NEW P, Sound(h, P), NEW id \in DOMAIN h \ P, NEW p \in Path, p # << >>,
         NEW v, Ref(h, P, v)
  PROVE  LET r == SetPath(h, id, p, v) IN r.ok \in BOOLEAN /\ Extends(h, r.h, P)
<1> DEFINE first == [ok |-> TRUE, h |-> h, id |-> id]
           next(a, n) == IF a.ok THEN Descend(a, p[n]) ELSE a
           at[n \in 0 .. Len(p) - 1] ==
             IF n = 0 THEN [ok |-> TRUE, h |-> h, id |-> id]
             ELSE LET a == at[n - 1] IN IF a.ok THEN Descend(a, p[n]) ELSE a
           end == at[Len(p) - 1]
<1>1. Len(p) \in Nat /\ Len(p) - 1 \in Nat
  BY DEF Path
<1>2. \E f : f = [n \in 0 .. Len(p) - 1 |-> IF n = 0 THEN first ELSE next(f[n - 1], n)]
  <2> DEFINE S == {m \in Nat : \E f : f = [n \in 0 .. m |-> IF n = 0 THEN first
                                                    ELSE next(f[n - 1], n)]}
  <2> HIDE DEF first, next
  <2>1. 0 \in S
    <3> DEFINE f == [n \in 0 .. 0 |-> first]
    <3>1. f = [n \in 0 .. 0 |-> IF n = 0 THEN first ELSE next(f[n - 1], n)]
      OBVIOUS
    <3> QED BY <3>1
  <2>2. ASSUME NEW m \in Nat, m \in S PROVE m + 1 \in S
    <3>1. PICK f : f = [n \in 0 .. m |-> IF n = 0 THEN first ELSE next(f[n - 1], n)]
      BY <2>2
    <3> DEFINE g == [n \in 0 .. m + 1 |-> IF n = m + 1 THEN next(f[m], m + 1) ELSE f[n]]
    <3>2. ASSUME NEW n \in 0 .. m + 1
          PROVE  g[n] = IF n = 0 THEN first ELSE next(g[n - 1], n)
      <4>1. CASE n = m + 1
        BY <4>1
      <4>2. CASE n \in 0 .. m
        <5>1. g[n] = f[n]
          BY <4>2
        <5>2. n # 0 => n - 1 \in 0 .. m /\ g[n - 1] = f[n - 1]
          BY <4>2
        <5>3. f[n] = IF n = 0 THEN first ELSE next(f[n - 1], n)
          BY <3>1, <4>2
        <5> HIDE DEF g
        <5> QED BY <5>1, <5>2, <5>3
      <4> QED BY <4>1, <4>2
    <3>3. g = [n \in 0 .. m + 1 |-> IF n = 0 THEN first ELSE next(g[n - 1], n)]
      BY <3>2
    <3> HIDE DEF g
    <3> QED BY <3>3
  <2>3. Nat \subseteq S
    <3> HIDE DEF S
    <3> QED BY <2>1, <2>2, Induction
  <2> QED BY <1>1, <2>3
<1>3. at = [n \in 0 .. Len(p) - 1 |-> IF n = 0 THEN first ELSE next(at[n - 1], n)]
  BY <1>2
<1>4. SetPath(h, id, p, v) =
        [ok |-> end.ok,
         h  |-> IF end.ok THEN Put(end.h, end.id, Put(end.h[end.id], <<Last(p)>>, v)) ELSE h]
  BY DEF SetPath
<1> HIDE DEF at
<1> DEFINE Good(a) == /\ a = [ok |-> a.ok, h |-> a.h, id |-> a.id]
                      /\ a.ok \in BOOLEAN
                      /\ Extends(h, a.h, P)
                      /\ a.id \in DOMAIN a.h \ P
           S == {n \in Nat : n <= Len(p) - 1 => Good(at[n])}
<1>5. 0 \in S
  <2>1. at[0] = first
    BY <1>1, <1>3
  <2>2. Extends(h, h, P)
    BY DEF Extends
  <2>3. Good(first)
    BY <2>2
  <2> HIDE DEF Good
  <2> QED BY <2>1, <2>3
<1>6. ASSUME NEW n \in Nat, n \in S PROVE n + 1 \in S
  <2> SUFFICES ASSUME n + 1 <= Len(p) - 1
               PROVE  Good(at[n + 1])
    OBVIOUS
  <2>1. Good(at[n])
    <3> HIDE DEF Good
    <3> QED BY <1>1, <1>6
  <2>2. at[n + 1] = next(at[n], n + 1)
    <3>1. n + 1 \in 0 .. Len(p) - 1 /\ n + 1 # 0 /\ (n + 1) - 1 = n
      BY <1>1
    <3>2. at[n + 1] = IF n + 1 = 0 THEN first ELSE next(at[(n + 1) - 1], n + 1)
      <4> HIDE DEF next, first
      <4> QED BY <1>3, <3>1
    <3> HIDE DEF next, first
    <3> QED BY <3>1, <3>2
  <2>3. PICK a : a = at[n]
    OBVIOUS
  <2>4. Good(a)
    <3> HIDE DEF Good
    <3> QED BY <2>1, <2>3
  <2>5. CASE a.ok
    <3>1. Sound(a.h, P)
      BY <2>4 DEF Extends
    <3> DEFINE b == Descend(a, p[n + 1])
    <3>2. /\ b = [ok |-> b.ok, h |-> b.h, id |-> b.id]
          /\ b.ok \in BOOLEAN
          /\ Extends(a.h, b.h, P)
          /\ b.id \in DOMAIN b.h \ P
      BY <2>4, <2>5, <3>1, DescendExtends
    <3> HIDE DEF b
    <3>3. P \subseteq DOMAIN h
      BY DEF Sound
    <3>4. Extends(h, b.h, P)
      BY <2>4, <3>2, <3>3, ExtendsTransitive
    <3>5. Good(b)
      BY <3>2, <3>4
    <3>6. at[n + 1] = b
      BY <2>2, <2>3, <2>5 DEF b
    <3> HIDE DEF Good
    <3> QED BY <3>5, <3>6
  <2>6. CASE ~a.ok
    <3>1. at[n + 1] = a
      BY <2>2, <2>3, <2>6
    <3> HIDE DEF Good
    <3> QED BY <2>4, <3>1
  <2> QED BY <2>5, <2>6
<1>7. Nat \subseteq S
  <2> HIDE DEF S
  <2> QED BY <1>5, <1>6, Induction
<1>8. Good(end)
  <2> HIDE DEF Good
  <2> QED BY <1>1, <1>7
<1> HIDE DEF end
<1>9. CASE end.ok
  <2> DEFINE m == Put(end.h[end.id], <<Last(p)>>, v)
  <2>1. SetPath(h, id, p, v) = [ok |-> end.ok, h |-> Put(end.h, end.id, m)]
    BY <1>4, <1>9
  <2>2. Sound(end.h, P)
    BY <1>8 DEF Extends
  <2>3. /\ DOMAIN m = DOMAIN end.h[end.id] \cup {<<Last(p)>>}
        /\ m[<<Last(p)>>] = v
        /\ \A k \in DOMAIN end.h[end.id] \ {<<Last(p)>>} : m[k] = end.h[end.id][k]
    BY DEF Put
  <2> HIDE DEF m
  <2>4. Ref(end.h, P, v)
    BY <1>8, RefExtends
  <2>5. end.id \notin P /\ end.id[1] \in Nat /\ IsFiniteSet(DOMAIN m)
    <3>1. end.id \notin P /\ end.id[1] \in Nat /\ IsFiniteSet(DOMAIN end.h[end.id])
      BY <1>8, <2>2 DEF Sound, IsHeap
    <3> QED BY <2>3, <3>1, FS_AddElement
  <2>6. \A k \in DOMAIN m : m[k].k = "obj" => m[k].id \in (DOMAIN end.h \cup {end.id}) \ P
    BY <1>8, <2>2, <2>3, <2>4 DEF Sound, IsHeap, Apart, Ref
  <2>7. Extends(end.h, Put(end.h, end.id, m), P)
    BY <2>2, <2>5, <2>6, PutExtends
  <2>8. P \subseteq DOMAIN h /\ Extends(h, end.h, P)
    BY <1>8 DEF Sound
  <2>9. Extends(h, Put(end.h, end.id, m), P)
    BY <2>7, <2>8, ExtendsTransitive
  <2> QED BY <1>8, <2>1, <2>9
<1>10. CASE ~end.ok
  <2>1. SetPath(h, id, p, v) = [ok |-> end.ok, h |-> h]
    BY <1>4, <1>10
  <2>2. Extends(h, h, P)
    BY DEF Extends
  <2> QED BY <1>8, <2>1, <2>2
<1> QED BY <1>9, <1>10

(* The function that Unfold computes, round by round.                      *)
Steps(h, x) == {x} \cup {<<Append(x[1], y[1]), y[2]>> : y \in Inner(h, x[2])}
Rounds(h, id, U) ==
  U = [d \in 0 .. Cardinality(DOMAIN h) |->
         IF d = 0 THEN {<< << >>, id>>} ELSE UNION {Steps(h, x) : x \in U[d - 1]}]

LEMMA UnfoldRounds ==
  ASSUME NEW h, IsHeap(h), NEW id
  PROVE  \E U : Rounds(h, id, U) /\ Unfold(h, id) = U[Cardinality(DOMAIN h)]
<1> DEFINE N == Cardinality(DOMAIN h)
           first == {<< << >>, id>>}
           next(V) == UNION {Steps(h, x) : x \in V}
           U[d \in 0 .. Cardinality(DOMAIN h)] ==
             IF d = 0 THEN {<< << >>, id>>}
             ELSE UNION {{x} \cup {<<Append(x[1], y[1]), y[2]>> : y \in Inner(h, x[2])} : x \in U[d - 1]}
<1>1. N \in Nat
  BY FS_CardinalityType DEF IsHeap
<1>2. \E f : f = [n \in 0 .. N |-> IF n = 0 THEN first ELSE next(f[n - 1])]
  <2> DEFINE S == {m \in Nat : \E f : f = [n \in 0 .. m |-> IF n = 0 THEN first ELSE next(f[n - 1])]}
  <2> HIDE DEF first, next, N
  <2>1. 0 \in S
    <3> DEFINE f == [n \in 0 .. 0 |-> first]
    <3>1. f = [n \in 0 .. 0 |-> IF n = 0 THEN first ELSE next(f[n - 1])]
      OBVIOUS
    <3> QED BY <3>1
  <2>2. ASSUME NEW m \in Nat, m \in S PROVE m + 1 \in S
    <3>1. PICK f : f = [n \in 0 .. m |-> IF n = 0 THEN first ELSE next(f[n - 1])]
      BY <2>2
    <3> DEFINE g == [n \in 0 .. m + 1 |-> IF n = m + 1 THEN next(f[m]) ELSE f[n]]
    <3>2. ASSUME NEW n \in 0 .. m + 1
          PROVE  g[n] = IF n = 0 THEN first ELSE next(g[n - 1])
      <4>1. CASE n = m + 1
        BY <4>1
      <4>2. CASE n \in 0 .. m
        <5>1. g[n] = f[n]
          BY <4>2
        <5>2. n # 0 => n - 1 \in 0 .. m /\ g[n - 1] = f[n - 1]
          BY <4>2
        <5>3. f[n] = IF n = 0 THEN first ELSE next(f[n - 1])
          BY <3>1, <4>2
        <5> HIDE DEF g
        <5> QED BY <5>1, <5>2, <5>3
      <4> QED BY <4>1, <4>2
    <3>3. g = [n \in 0 .. m + 1 |-> IF n = 0 THEN first ELSE next(g[n - 1])]
      BY <3>2
    <3> HIDE DEF g
    <3> QED BY <3>3
  <2>3. Nat \subseteq S
    <3> HIDE DEF S
    <3> QED BY <2>1, <2>2, Induction
  <2> QED BY <1>1, <2>3
<1>3. U = [n \in 0 .. N |-> IF n = 0 THEN first ELSE next(U[n - 1])]
  BY <1>2 DEF Steps
<1>4. Unfold(h, id) = U[N]
  BY DEF Unfold
<1>5. Rounds(h, id, U)
  <2> HIDE DEF U
  <2> QED BY <1>3 DEF Rounds
<1> HIDE DEF U
<1> QED BY <1>4, <1>5

LEMMA RoundFacts ==
  ASSUME NEW h, IsHeap(h), NEW id \in DOMAIN h, NEW U, Rounds(h, id, U)
  PROVE  LET N == Cardinality(DOMAIN h)
         IN /\ N \in Nat
            /\ U[0] = {<< << >>, id>>}
            /\ \A d \in Nat : d < N => U[d + 1] = UNION {Steps(h, x) : x \in U[d]}
            /\ \A d \in 0 .. N : \A x \in U[d] :
                 /\ x = <<x[1], x[2]>> /\ x[2] \in DOMAIN h
                 /\ x[1] \in Seq(UNION {DOMAIN h[a] : a \in DOMAIN h})
                 /\ Len(x[1]) <= d /\ x \in U[Len(x[1])]
            /\ \A d \in 0 .. N : U[d] \subseteq U[N]
            /\ \A d \in 0 .. N : IsFiniteSet(U[d])
<1> DEFINE N == Cardinality(DOMAIN h)
           K == UNION {DOMAIN h[a] : a \in DOMAIN h}
<1>1. N \in Nat
  BY FS_CardinalityType DEF IsHeap
<1> HIDE DEF N
<1>0. U = [d \in 0 .. N |-> IF d = 0 THEN {<< << >>, id>>} ELSE UNION {Steps(h, x) : x \in U[d - 1]}]
  BY DEF Rounds, N
<1>2. U[0] = {<< << >>, id>>}
  BY <1>0, <1>1
<1>3. ASSUME NEW d \in Nat, d < N PROVE U[d + 1] = UNION {Steps(h, x) : x \in U[d]}
  <2>1. d + 1 \in 0 .. N /\ d + 1 # 0 /\ (d + 1) - 1 = d
    BY <1>1, <1>3
  <2>2. U[d + 1] = IF d + 1 = 0 THEN {<< << >>, id>>} ELSE UNION {Steps(h, x) : x \in U[(d + 1) - 1]}
    BY <1>0, <2>1
  <2> QED BY <2>1, <2>2
<1>4. \A d \in Nat : d < N => U[d] \subseteq U[d + 1]
  BY <1>3 DEF Steps
<1> DEFINE Place(x, d) == /\ x = <<x[1], x[2]>> /\ x[2] \in DOMAIN h
                          /\ x[1] \in Seq(K) /\ Len(x[1]) <= d /\ x \in U[Len(x[1])]
           S == {d \in Nat : d <= N => \A x \in U[d] : Place(x, d)}
<1>5. 0 \in S
  <2> SUFFICES ASSUME NEW x \in U[0] PROVE Place(x, 0)
    OBVIOUS
  <2>1. x = << << >>, id>>
    BY <1>2
  <2> QED BY <1>2, <2>1
<1>6. ASSUME NEW d \in Nat, d \in S PROVE d + 1 \in S
  <2> SUFFICES ASSUME d + 1 <= N, NEW z \in U[d + 1] PROVE Place(z, d + 1)
    <3> HIDE DEF Place
    <3> QED OBVIOUS
  <2>1. d < N /\ d <= N
    BY <1>1
  <2>2. PICK x \in U[d] : z \in Steps(h, x)
    BY <1>3, <2>1
  <2>3. Place(x, d)
    <3> HIDE DEF Place
    <3> QED BY <1>6, <2>1, <2>2
  <2>4. CASE z = x
    BY <2>3, <2>4
  <2>5. CASE z # x
    <3>1. PICK y \in Inner(h, x[2]) : z = <<Append(x[1], y[1]), y[2]>>
      BY <2>2, <2>5 DEF Steps
    <3>2. PICK k \in DOMAIN h[x[2]] : h[x[2]][k].k = "obj" /\ y = <<k, h[x[2]][k].id>>
      BY <3>1 DEF Inner
    <3>3. k \in K /\ z = <<Append(x[1], k), h[x[2]][k].id>>
      BY <2>3, <3>1, <3>2
    <3>4. z[2] \in DOMAIN h
      BY <2>3, <3>2, <3>3 DEF IsHeap
    <3> HIDE DEF K
    <3>5. x[1] \in Seq(K) /\ Len(x[1]) \in Nat /\ Len(x[1]) <= d
      BY <2>3
    <3>6. z[1] \in Seq(K) /\ Len(z[1]) = Len(x[1]) + 1
      BY <3>3, <3>5
    <3>7. z \in U[Len(x[1]) + 1]
      <4>1. Len(x[1]) < N
        BY <2>1, <3>5, <1>1
      <4>2. U[Len(x[1]) + 1] = UNION {Steps(h, w) : w \in U[Len(x[1])]}
        BY <1>3, <3>5, <4>1
      <4>3. x \in U[Len(x[1])]
        BY <2>3
      <4> QED BY <2>2, <4>2, <4>3
    <3>8. Len(z[1]) <= d + 1
      BY <3>5, <3>6
    <3> QED BY <3>3, <3>4, <3>6, <3>7, <3>8
  <2> QED BY <2>4, <2>5
<1>7. Nat \subseteq S
  <2> HIDE DEF S
  <2> QED BY <1>5, <1>6, Induction
<1> DEFINE F == {d \in Nat : d <= N => IsFiniteSet(U[d])}
<1>8. 0 \in F
  BY <1>2, FS_Singleton
<1>9. ASSUME NEW d \in Nat, d \in F PROVE d + 1 \in F
  <2> SUFFICES ASSUME d + 1 <= N PROVE IsFiniteSet(U[d + 1])
    OBVIOUS
  <2>1. d < N /\ d <= N
    BY <1>1
  <2>2. IsFiniteSet(U[d])
    BY <1>9, <2>1
  <2>3. ASSUME NEW x \in U[d] PROVE IsFiniteSet(Steps(h, x))
    <3>1. x[2] \in DOMAIN h
      BY <1>7, <2>1, <2>3
    <3> DEFINE f == [k \in DOMAIN h[x[2]] |-> <<Append(x[1], k), h[x[2]][k].id>>]
    <3>2. IsFiniteSet({f[k] : k \in DOMAIN h[x[2]]})
      <4>1. IsFiniteSet(DOMAIN h[x[2]])
        BY <3>1 DEF IsHeap
      <4>2. DOMAIN f = DOMAIN h[x[2]]
        OBVIOUS
      <4> HIDE DEF f
      <4> QED BY <4>1, <4>2, FiniteImage
    <3>3. Steps(h, x) \subseteq {f[k] : k \in DOMAIN h[x[2]]} \cup {x}
      <4> SUFFICES ASSUME NEW z \in Steps(h, x), z # x PROVE z \in {f[k] : k \in DOMAIN h[x[2]]}
        OBVIOUS
      <4>1. PICK y \in Inner(h, x[2]) : z = <<Append(x[1], y[1]), y[2]>>
        BY DEF Steps
      <4>2. PICK k \in DOMAIN h[x[2]] : y = <<k, h[x[2]][k].id>>
        BY <4>1 DEF Inner
      <4>3. z = f[k]
        BY <4>1, <4>2
      <4> HIDE DEF f
      <4> QED BY <4>2, <4>3
    <3>4. IsFiniteSet({f[k] : k \in DOMAIN h[x[2]]} \cup {x})
      <4> HIDE DEF f
      <4> QED BY <3>2, FS_AddElement
    <3> HIDE DEF f
    <3> QED BY <3>3, <3>4, FS_Subset
  <2> DEFINE st == [x \in U[d] |-> Steps(h, x)]
  <2>4. IsFiniteSet({st[x] : x \in U[d]})
    <3>1. DOMAIN st = U[d]
      OBVIOUS
    <3> HIDE DEF st
    <3> QED BY <2>2, <3>1, FiniteImage
  <2>5. {st[x] : x \in U[d]} = {Steps(h, x) : x \in U[d]}
    OBVIOUS
  <2>6. IsFiniteSet({Steps(h, x) : x \in U[d]})
    <3> HIDE DEF st
    <3> QED BY <2>4, <2>5
  <2>7. \A T \in {Steps(h, x) : x \in U[d]} : IsFiniteSet(T)
    BY <2>3
  <2>8. IsFiniteSet(UNION {Steps(h, x) : x \in U[d]})
    BY <2>6, <2>7, FS_UNION
  <2> QED BY <1>3, <2>1, <2>8
<1>10. Nat \subseteq F
  <2> HIDE DEF F
  <2> QED BY <1>8, <1>9, Induction
<1> DEFINE G == {e \in Nat : e <= N => U[N - e] \subseteq U[N]}
<1>11. 0 \in G
  BY <1>1
<1>12. ASSUME NEW e \in Nat, e \in G PROVE e + 1 \in G
  <2> SUFFICES ASSUME e + 1 <= N PROVE U[N - (e + 1)] \subseteq U[N]
    OBVIOUS
  <2>1. N - (e + 1) \in Nat /\ N - (e + 1) < N /\ (N - (e + 1)) + 1 = N - e /\ e <= N
    BY <1>1
  <2>2. U[N - (e + 1)] \subseteq U[(N - (e + 1)) + 1]
    BY <1>4, <2>1
  <2>3. U[N - e] \subseteq U[N]
    BY <1>12, <2>1
  <2> QED BY <2>1, <2>2, <2>3
<1>13. Nat \subseteq G
  <2> HIDE DEF G
  <2> QED BY <1>11, <1>12, Induction
<1>14. ASSUME NEW d \in 0 .. N PROVE U[d] \subseteq U[N]
  <2>1. N - d \in Nat /\ N - d <= N /\ N - (N - d) = d
    BY <1>1
  <2>2. N - d \in G
    BY <1>13, <2>1
  <2> QED BY <2>1, <2>2
<1>15. \A d \in 0 .. N : \A x \in U[d] : Place(x, d)
  <2> HIDE DEF Place
  <2> QED BY <1>1, <1>7
<1>16. \A d \in 0 .. N : IsFiniteSet(U[d])
  BY <1>1, <1>10
<1> QED BY <1>1, <1>2, <1>3, <1>14, <1>15, <1>16 DEF N

(* No path is longer than the number of objects before it repeats one:     *)
(* what Unfold finds includes whatever it refers to.                       *)
LEMMA UnfoldClosed ==
  ASSUME NEW h, IsHeap(h), NEW id \in DOMAIN h
  PROVE  LET R == {x[2] : x \in Unfold(h, id)}
         IN /\ id \in R /\ R \subseteq DOMAIN h
            /\ \A a \in R : \A k \in DOMAIN h[a] : h[a][k].k = "obj" => h[a][k].id \in R
<1> DEFINE N == Cardinality(DOMAIN h)
<1>1. PICK U : Rounds(h, id, U) /\ Unfold(h, id) = U[N]
  BY UnfoldRounds
<1>2. /\ N \in Nat
      /\ U[0] = {<< << >>, id>>}
      /\ \A d \in Nat : d < N => U[d + 1] = UNION {Steps(h, x) : x \in U[d]}
      /\ \A d \in 0 .. N : \A x \in U[d] : x[2] \in DOMAIN h
      /\ \A d \in 0 .. N : U[d] \subseteq U[N]
  BY <1>1, RoundFacts
<1>0. N = Cardinality(DOMAIN h) /\ IsFiniteSet(DOMAIN h)
  BY DEF IsHeap
<1> HIDE DEF N
<1> DEFINE R(d) == {x[2] : x \in U[d]}
           refs(A) == {b \in DOMAIN h : \E a \in A : \E k \in DOMAIN h[a] :
                                          h[a][k].k = "obj" /\ b = h[a][k].id}
<1>3. \A d \in 0 .. N : R(d) \subseteq DOMAIN h
  BY <1>2
<1>4. ASSUME NEW d \in Nat, d < N PROVE R(d + 1) = R(d) \cup refs(R(d))
  <2>1. U[d + 1] = UNION {Steps(h, x) : x \in U[d]} /\ d \in 0 .. N /\ d + 1 \in 0 .. N
    BY <1>2, <1>4
  <2>2. ASSUME NEW b \in R(d + 1) PROVE b \in R(d) \cup refs(R(d))
    <3>1. PICK z \in U[d + 1] : b = z[2]
      OBVIOUS
    <3>2. PICK x \in U[d] : z \in Steps(h, x)
      BY <2>1
    <3>3. CASE z = x
      BY <3>1, <3>3
    <3>4. CASE z # x
      <4>1. PICK y \in Inner(h, x[2]) : z = <<Append(x[1], y[1]), y[2]>>
        BY <3>2, <3>4 DEF Steps
      <4>2. PICK k \in DOMAIN h[x[2]] : h[x[2]][k].k = "obj" /\ y = <<k, h[x[2]][k].id>>
        BY <4>1 DEF Inner
      <4>3. b = h[x[2]][k].id /\ x[2] \in R(d) /\ b \in DOMAIN h
        BY <1>3, <2>1, <3>1, <4>1, <4>2
      <4> QED BY <4>2, <4>3
    <3> QED BY <3>3, <3>4
  <2>3. R(d) \subseteq R(d + 1)
    BY <2>1 DEF Steps
  <2>4. ASSUME NEW b \in refs(R(d)) PROVE b \in R(d + 1)
    <3>0. PICK a \in R(d) : \E k \in DOMAIN h[a] : h[a][k].k = "obj" /\ b = h[a][k].id
      OBVIOUS
    <3>1. PICK k \in DOMAIN h[a] : h[a][k].k = "obj" /\ b = h[a][k].id
      BY <3>0
    <3>2. PICK x \in U[d] : a = x[2]
      BY <3>1
    <3>3. <<k, h[a][k].id>> \in Inner(h, x[2])
      BY <3>1, <3>2 DEF Inner
    <3> DEFINE z == <<Append(x[1], k), h[a][k].id>>
    <3>4. z \in Steps(h, x)
      BY <3>3 DEF Steps
    <3>5. z \in U[d + 1]
      <4> HIDE DEF z
      <4> QED BY <2>1, <3>4
    <3>6. z[2] = b
      BY <3>1
    <3> HIDE DEF z
    <3> QED BY <3>5, <3>6
  <2> QED BY <2>2, <2>3, <2>4
<1>5. \A d \in 0 .. N : IsFiniteSet(R(d)) /\ Cardinality(R(d)) \in Nat /\ Cardinality(R(d)) <= N
  <2> SUFFICES ASSUME NEW d \in 0 .. N
               PROVE  IsFiniteSet(R(d)) /\ Cardinality(R(d)) \in Nat /\ Cardinality(R(d)) <= N
    OBVIOUS
  <2>1. R(d) \subseteq DOMAIN h
    BY <1>3
  <2> HIDE DEF R
  <2> QED BY <1>0, <2>1, FS_Subset, FS_CardinalityType
<1>6. R(0) = {id}
  <2>1. << << >>, id>>[2] = id
    OBVIOUS
  <2> QED BY <1>2, <2>1
<1> HIDE DEF R, refs
<1> DEFINE S == {d \in Nat : d <= N => \/ \E e \in Nat : e < d /\ R(e + 1) = R(e)
                                       \/ Cardinality(R(d)) >= d + 1}
<1>7. 0 \in S
  BY <1>6, FS_Singleton
<1>8. ASSUME NEW d \in Nat, d \in S PROVE d + 1 \in S
  <2> SUFFICES ASSUME d + 1 <= N, ~(\E e \in Nat : e < d + 1 /\ R(e + 1) = R(e))
               PROVE  Cardinality(R(d + 1)) >= (d + 1) + 1
    OBVIOUS
  <2>1. d < N /\ d <= N /\ d \in 0 .. N /\ d + 1 \in 0 .. N
    BY <1>2
  <2>2. R(d + 1) # R(d)
    OBVIOUS
  <2>3. ~(\E e \in Nat : e < d /\ R(e + 1) = R(e))
    OBVIOUS
  <2>4. Cardinality(R(d)) >= d + 1
    BY <1>8, <2>1, <2>3
  <2>5. R(d) \subseteq R(d + 1)
    BY <1>4, <2>1
  <2>6. Cardinality(R(d)) <= Cardinality(R(d + 1)) /\ Cardinality(R(d)) # Cardinality(R(d + 1))
    BY <1>5, <2>1, <2>2, <2>5, FS_Subset
  <2>7. Cardinality(R(d)) \in Nat /\ Cardinality(R(d + 1)) \in Nat
    BY <1>5, <2>1
  <2> QED BY <2>4, <2>6, <2>7
<1>9. Nat \subseteq S
  <2> HIDE DEF S
  <2> QED BY <1>7, <1>8, Induction
<1>10. PICK e \in Nat : e < N /\ R(e + 1) = R(e)
  <2>1. N \in S /\ N \in 0 .. N
    BY <1>2, <1>9
  <2>2. Cardinality(R(N)) <= N /\ Cardinality(R(N)) \in Nat
    BY <1>5, <2>1
  <2>3. ~(Cardinality(R(N)) >= N + 1)
    BY <1>2, <2>2
  <2> QED BY <1>2, <2>1, <2>3
<1> DEFINE G == {d \in Nat : e + d <= N => R(e + d) = R(e)}
<1>11. 0 \in G
  OBVIOUS
<1>12. ASSUME NEW d \in Nat, d \in G PROVE d + 1 \in G
  <2> SUFFICES ASSUME e + (d + 1) <= N PROVE R(e + (d + 1)) = R(e)
    OBVIOUS
  <2>1. e + d \in Nat /\ e + d < N /\ e + d <= N /\ (e + d) + 1 = e + (d + 1)
    BY <1>2
  <2>2. R(e + d) = R(e)
    BY <1>12, <2>1
  <2>3. R((e + d) + 1) = R(e + d) \cup refs(R(e + d))
    BY <1>4, <2>1
  <2>4. R(e + 1) = R(e) \cup refs(R(e))
    BY <1>4, <1>10
  <2> QED BY <1>10, <2>1, <2>2, <2>3, <2>4
<1>13. Nat \subseteq G
  <2> HIDE DEF G
  <2> QED BY <1>11, <1>12, Induction
<1>14. R(N) = R(e)
  <2>1. N - e \in Nat /\ e + (N - e) = N
    BY <1>2, <1>10
  <2>2. N - e \in G
    BY <1>13, <2>1
  <2> QED BY <1>2, <2>1, <2>2
<1>15. refs(R(N)) \subseteq R(N)
  BY <1>4, <1>10, <1>14
<1>16. id \in R(N)
  <2>1. U[0] \subseteq U[N]
    BY <1>2
  <2> QED BY <1>6, <2>1 DEF R
<1>17. R(N) \subseteq DOMAIN h
  BY <1>2, <1>3
<1>18. \A a \in R(N) : \A k \in DOMAIN h[a] : h[a][k].k = "obj" => h[a][k].id \in R(N)
  BY <1>15, <1>17 DEF refs, IsHeap
<1>19. R(N) = {x[2] : x \in Unfold(h, id)}
  BY <1>1 DEF R
<1> QED BY <1>16, <1>17, <1>18, <1>19

LEMMA ReachClosed ==
  ASSUME NEW h, IsHeap(h), NEW ids, ids \subseteq DOMAIN h
  PROVE  /\ ids \subseteq Reach(h, ids) /\ Reach(h, ids) \subseteq DOMAIN h
         /\ \A a \in Reach(h, ids) : \A k \in DOMAIN h[a] :
              h[a][k].k = "obj" => h[a][k].id \in Reach(h, ids)
<1> DEFINE R(id) == {x[2] : x \in Unfold(h, id)}
<1>1. \A id \in ids : /\ id \in R(id) /\ R(id) \subseteq DOMAIN h
                      /\ \A a \in R(id) : \A k \in DOMAIN h[a] :
                           h[a][k].k = "obj" => h[a][k].id \in R(id)
  BY UnfoldClosed
<1>2. Reach(h, ids) = UNION {R(id) : id \in ids}
  BY DEF Reach
<1> HIDE DEF R
<1> QED BY <1>1, <1>2

(* Reach is the smallest closed set.                                       *)
LEMMA ReachLeast ==
  ASSUME NEW h, IsHeap(h), NEW ids, ids \subseteq DOMAIN h, NEW C, ids \subseteq C,
         \A a \in C \cap DOMAIN h : \A k \in DOMAIN h[a] : h[a][k].k = "obj" => h[a][k].id \in C
  PROVE  Reach(h, ids) \subseteq C
<1> SUFFICES ASSUME NEW id \in ids PROVE {x[2] : x \in Unfold(h, id)} \subseteq C
  BY DEF Reach
<1> DEFINE N == Cardinality(DOMAIN h)
<1>1. PICK U : Rounds(h, id, U) /\ Unfold(h, id) = U[N]
  BY UnfoldRounds
<1>2. /\ N \in Nat
      /\ U[0] = {<< << >>, id>>}
      /\ \A d \in Nat : d < N => U[d + 1] = UNION {Steps(h, x) : x \in U[d]}
      /\ \A d \in 0 .. N : \A x \in U[d] : x[2] \in DOMAIN h
  BY <1>1, RoundFacts
<1> HIDE DEF N
<1> DEFINE S == {d \in Nat : d <= N => \A x \in U[d] : x[2] \in C}
<1>3. 0 \in S
  <2>1. << << >>, id>>[2] = id
    OBVIOUS
  <2> QED BY <1>2, <2>1
<1>4. ASSUME NEW d \in Nat, d \in S PROVE d + 1 \in S
  <2> SUFFICES ASSUME d + 1 <= N, NEW z \in U[d + 1] PROVE z[2] \in C
    OBVIOUS
  <2>1. d < N /\ d <= N /\ d \in 0 .. N
    BY <1>2
  <2>2. PICK x \in U[d] : z \in Steps(h, x)
    BY <1>2, <2>1
  <2>3. x[2] \in C \cap DOMAIN h
    BY <1>2, <1>4, <2>1
  <2>4. CASE z = x
    BY <2>3, <2>4
  <2>5. CASE z # x
    <3>1. PICK y \in Inner(h, x[2]) : z = <<Append(x[1], y[1]), y[2]>>
      BY <2>2, <2>5 DEF Steps
    <3>2. PICK k \in DOMAIN h[x[2]] : h[x[2]][k].k = "obj" /\ y = <<k, h[x[2]][k].id>>
      BY <3>1 DEF Inner
    <3>3. z[2] = h[x[2]][k].id
      BY <3>1, <3>2
    <3> QED BY <2>3, <3>2, <3>3
  <2> QED BY <2>4, <2>5
<1>5. Nat \subseteq S
  <2> HIDE DEF S
  <2> QED BY <1>3, <1>4, Induction
<1>6. \A x \in U[N] : x[2] \in C
  BY <1>2, <1>5
<1> QED BY <1>1, <1>6

(* cloneMap adds new objects that refer to each other only, whatever the    *)
(* copied object refers to.                                                *)
LEMMA CloneExtends ==
  ASSUME NEW h, NEW P, Sound(h, P), NEW id \in DOMAIN h
  PROVE  /\ Extends(h, Clone(h, id), P)
         /\ <<Fresh(h), << >> >> \in DOMAIN Clone(h, id) \ P
         /\ \A a \in DOMAIN h : Clone(h, id)[a] = h[a]
<1> DEFINE n == Fresh(h)
           root == <<n, << >> >>
           N == Cardinality(DOMAIN h)
           old(p) == (CHOOSE x \in Unfold(h, id) : x[1] = p)[2]
           copy(p) == [k \in DOMAIN h[old(p)] |->
                         IF h[old(p)][k].k = "obj" THEN Obj(<<n, Append(p, k)>>) ELSE h[old(p)][k]]
           A == {<<n, x[1]>> : x \in Unfold(h, id)}
           new == [a \in A |-> copy(a[2])]
<1>1. IsHeap(h) /\ P \subseteq DOMAIN h
  BY DEF Sound
<1>2. n \in Nat /\ \A p : <<n, p>> \notin DOMAIN h
  BY FreshIsNew DEF Sound
<1> HIDE DEF n
<1>3. root \notin DOMAIN h /\ root \notin P /\ root[1] \in Nat
  BY <1>1, <1>2
<1>4. PICK U : Rounds(h, id, U) /\ Unfold(h, id) = U[N]
  BY <1>1, UnfoldRounds
<1>5. /\ N \in Nat
      /\ U[0] = {<< << >>, id>>}
      /\ \A d \in Nat : d < N => U[d + 1] = UNION {Steps(h, x) : x \in U[d]}
      /\ \A d \in 0 .. N : U[d] \subseteq U[N]
  BY <1>1, <1>4, RoundFacts
<1>6. \A x \in U[N] : /\ x[2] \in DOMAIN h
                      /\ x[1] \in Seq(UNION {DOMAIN h[a] : a \in DOMAIN h})
                      /\ Len(x[1]) <= N /\ x \in U[Len(x[1])]
  <2>1. N \in 0 .. N
    BY <1>5
  <2> QED BY <1>1, <1>4, <2>1, RoundFacts
<1>7. IsFiniteSet(U[N])
  <2>1. N \in 0 .. N
    BY <1>5
  <2> QED BY <1>1, <1>4, <2>1, RoundFacts
<1>8. CASE Cyclic(h, id)
  <2>1. Clone(h, id) = Put(h, root, Empty)
    BY <1>8 DEF Clone, n
  <2>2. IsFiniteSet(DOMAIN Empty) /\ DOMAIN Empty = {}
    BY FS_EmptySet DEF Empty
  <2>3. Extends(h, Put(h, root, Empty), P)
    <3> HIDE DEF root
    <3> QED BY <1>3, <2>2, PutExtends
  <2>4. root \in DOMAIN Put(h, root, Empty) /\ \A a \in DOMAIN h : Put(h, root, Empty)[a] = h[a]
    <3> HIDE DEF root
    <3> QED BY <1>3 DEF Put
  <2> QED BY <1>3, <2>1, <2>3, <2>4 DEF n
<1>9. CASE ~Cyclic(h, id)
  <2> DEFINE g == Overlay(new, h)
  <2>1. Clone(h, id) = g
    BY <1>9 DEF Clone, n
  <2>2. /\ DOMAIN g = A \cup DOMAIN h
        /\ \A a \in A : g[a] = copy(a[2])
        /\ \A a \in DOMAIN h \ A : g[a] = h[a]
    <3> HIDE DEF copy, A
    <3> QED BY DEF Overlay
  <2>3. A \cap DOMAIN h = {}
    BY <1>2
  <2> HIDE DEF g
  <2>4. IsFiniteSet(DOMAIN g)
    <3> DEFINE f == [x \in U[N] |-> <<n, x[1]>>]
    <3>1. IsFiniteSet({f[x] : x \in U[N]})
      <4>1. DOMAIN f = U[N]
        OBVIOUS
      <4> HIDE DEF f
      <4> QED BY <1>7, <4>1, FiniteImage
    <3>2. {f[x] : x \in U[N]} = A
      BY <1>4
    <3>3. IsFiniteSet(A) /\ IsFiniteSet(DOMAIN h)
      <4> HIDE DEF f, A
      <4> QED BY <1>1, <3>1, <3>2 DEF IsHeap
    <3> HIDE DEF A
    <3>4. IsFiniteSet(A \cup DOMAIN h)
      BY <3>3, FS_Union
    <3>5. DOMAIN g = A \cup DOMAIN h
      BY <2>2
    <3> HIDE DEF copy
    <3> QED BY <3>4, <3>5
  <2>5. ASSUME NEW a \in A
        PROVE  /\ a[1] \in Nat /\ IsFiniteSet(DOMAIN g[a])
               /\ \A k \in DOMAIN g[a] : g[a][k].k = "obj" => g[a][k].id \in A
    <3>1. PICK x0 \in U[N] : a = <<n, x0[1]>>
      BY <1>4
    <3> DEFINE x == CHOOSE y \in Unfold(h, id) : y[1] = a[2]
               o == x[2]
    <3>2. x \in U[N] /\ x[1] = a[2]
      BY <1>4, <3>1
    <3>3. o = old(a[2])
      OBVIOUS
    <3> HIDE DEF x
    <3>4. o \in DOMAIN h
      BY <1>6, <3>2
    <3>5. /\ DOMAIN g[a] = DOMAIN h[o]
          /\ \A k \in DOMAIN h[o] :
               g[a][k] = IF h[o][k].k = "obj" THEN Obj(<<n, Append(a[2], k)>>) ELSE h[o][k]
      <4>1. g[a] = copy(a[2])
        BY <2>2
      <4> QED BY <3>3, <4>1
    <3>6. a[1] \in Nat /\ IsFiniteSet(DOMAIN g[a])
      BY <1>1, <1>2, <3>1, <3>4, <3>5 DEF IsHeap
    <3>7. ASSUME NEW k \in DOMAIN h[o], h[o][k].k = "obj"
          PROVE  <<n, Append(a[2], k)>> \in A
      <4>1. Len(x[1]) \in Nat /\ Len(x[1]) < N
        <5> DEFINE K == UNION {DOMAIN h[b] : b \in DOMAIN h}
        <5>3. x[1] \in Seq(K) /\ Len(x[1]) <= N
          BY <1>6, <3>2
        <5>4. Len(x[1]) \in Nat
          <6> HIDE DEF K
          <6> QED BY <5>3
        <5>1. Len(x[1]) \in Nat /\ Len(x[1]) <= N
          BY <5>3, <5>4
        <5>2. Len(x[1]) # N
          BY <1>4, <1>9, <3>2 DEF Cyclic
        <5> QED BY <1>5, <5>1, <5>2
      <4>2. <<k, h[o][k].id>> \in Inner(h, o)
        BY <3>7 DEF Inner
      <4> DEFINE z == <<Append(x[1], k), h[o][k].id>>
      <4>3. z \in Steps(h, x)
        BY <4>2 DEF Steps
      <4>4. x \in U[Len(x[1])]
        BY <1>6, <3>2
      <4>5. z \in U[Len(x[1]) + 1]
        <5> HIDE DEF z
        <5> QED BY <1>5, <4>1, <4>3, <4>4
      <4>6. Len(x[1]) + 1 \in 0 .. N
        BY <1>5, <4>1
      <4>7. z \in U[N]
        <5> HIDE DEF z
        <5> QED BY <1>5, <4>5, <4>6
      <4>8. z[1] = Append(a[2], k)
        BY <3>2
      <4> HIDE DEF z
      <4> QED BY <1>4, <4>7, <4>8
    <3>8. ASSUME NEW k \in DOMAIN g[a], g[a][k].k = "obj" PROVE g[a][k].id \in A
      <4>1. h[o][k].k = "obj" /\ g[a][k] = Obj(<<n, Append(a[2], k)>>)
        BY <3>5, <3>8
      <4>2. g[a][k].id = <<n, Append(a[2], k)>>
        BY <4>1 DEF Obj
      <4>3. k \in DOMAIN h[o]
        BY <3>5, <3>8
      <4> HIDE DEF A
      <4> QED BY <3>7, <4>1, <4>2, <4>3
    <3> QED BY <3>6, <3>8
  <2>6. root \in A
    <3>1. << << >>, id>> \in U[N]
      <4>1. 0 \in 0 .. N
        BY <1>5
      <4> QED BY <1>5, <4>1
    <3>2. << << >>, id>>[1] = << >>
      OBVIOUS
    <3> QED BY <1>4, <3>1, <3>2
  <2> HIDE DEF A, copy
  <2>7. \A a \in DOMAIN h : g[a] = h[a] /\ a \notin A
    BY <2>2, <2>3
  <2>8. IsHeap(g)
    <3>1. ASSUME NEW a \in DOMAIN g
          PROVE  a[1] \in Nat /\ IsFiniteSet(DOMAIN g[a])
      BY <1>1, <2>2, <2>5, <2>7 DEF IsHeap
    <3>2. ASSUME NEW a \in DOMAIN g, NEW k \in DOMAIN g[a], g[a][k].k = "obj"
          PROVE  g[a][k].id \in DOMAIN g
      <4>1. CASE a \in A
        BY <2>2, <2>5, <3>2, <4>1
      <4>2. CASE a \in DOMAIN h
        BY <1>1, <2>2, <2>7, <3>2, <4>2 DEF IsHeap
      <4> QED BY <2>2, <4>1, <4>2
    <3> QED BY <2>4, <3>1, <3>2 DEF IsHeap
  <2>9. Apart(g, P)
    <3> SUFFICES ASSUME NEW a \in DOMAIN g \ P, NEW k \in DOMAIN g[a], g[a][k].k = "obj"
                 PROVE  g[a][k].id \notin P
      BY DEF Apart
    <3>1. CASE a \in A
      BY <1>1, <2>5, <2>7, <3>1
    <3>2. CASE a \in DOMAIN h
      BY <2>7, <3>2 DEF Sound, Apart
    <3> QED BY <2>2, <3>1, <3>2
  <2>10. Extends(h, g, P)
    BY <1>1, <2>2, <2>6, <2>7, <2>8, <2>9 DEF Extends, Sound
  <2>11. root \in DOMAIN g \ P
    BY <1>1, <2>2, <2>6, <2>7
  <2> QED BY <2>1, <2>7, <2>10, <2>11 DEF n
<1> QED BY <1>8, <1>9
(* An operator never returns an object.                                    *)
LEMMA OperatorScalar ==
  ASSUME NEW op, NEW a, NEW b
  PROVE  Operator(op, a, b).v.k # "obj"
<1> DEFINE r == Operator(op, a, b)
           Plain(x) == x = Error \/ (\E n : x = OK(Num(n))) \/ (\E t : x = OK(Bool(t)))
<1>1. Plain(Arithmetic(op, a, b))
  BY DEF Arithmetic
<1>2. Plain(Compare(op, a, b))
  BY DEF Compare
<1>3. Plain(r)
  <2> HIDE DEF Plain
  <2>1. \A n : Plain(OK(Num(n)))
    BY DEF Plain
  <2>2. \A t : Plain(OK(Bool(t)))
    BY DEF Plain
  <2>3. Plain(Error)
    BY DEF Plain
  <2> QED BY <1>1, <1>2, <2>1, <2>2, <2>3, Zenon DEF Operator
<1> HIDE DEF r
<1>4. \A x : Plain(x) => x.v.k # "obj"
  BY DEF Error, OK, Num, Bool, Missing
<1> HIDE DEF Plain
<1>5. r.v.k # "obj"
  BY <1>3, <1>4
<1> QED BY <1>5 DEF r

(* A scalar of a payload is as far from P as the variables are.            *)
LEMMA AtomRef ==
  ASSUME NEW h, NEW P, Sound(h, P), NEW loc \in DOMAIN h \ P, CustomDoc \in DOMAIN h \ P,
         NEW x, Scalar(x)
  PROVE  Ref(h, P, Atom(h, loc, x))
<1> DEFINE v == CASE x.e = "lit"    -> x.v
             [] x.e = "local"  -> Lookup(h, loc, x.p)
             [] x.e = "custom" -> Lookup(h, CustomDoc, x.p)
             [] x.e = "env"    -> IF x.name \in DOMAIN Env THEN Str(Env[x.name]) ELSE Missing
             [] x.e = "none"   -> Missing
<1>1. Ref(h, P, v)
  <2>1. CASE x.e = "lit"
    BY <2>1 DEF Scalar, Ref
  <2>2. CASE x.e = "local"
    <3>1. Ref(h, P, Lookup(h, loc, x.p))
      BY <2>2, LookupRef DEF Scalar
    <3> QED BY <2>2, <3>1
  <2>3. CASE x.e = "custom"
    <3>1. Ref(h, P, Lookup(h, CustomDoc, x.p))
      BY <2>3, LookupRef DEF Scalar
    <3> QED BY <2>3, <3>1
  <2>4. CASE x.e = "env"
    BY <2>4 DEF Ref, Str, Missing
  <2>5. CASE x.e = "none"
    BY <2>5 DEF Ref, Missing
  <2> HIDE DEF v
  <2> QED BY <2>1, <2>2, <2>3, <2>4, <2>5 DEF Scalar
<1>2. Atom(h, loc, x) = IF v = Missing /\ x # None /\ ~Strict THEN Str("") ELSE v
  BY DEF Atom
<1> HIDE DEF v
<1>3. Ref(h, P, Str(""))
  BY DEF Ref, Str
<1> QED BY <1>1, <1>2, <1>3

LEMMA OperateRef ==
  ASSUME NEW h, NEW P, NEW loc, NEW x
  PROVE  Ref(h, P, Operate(h, loc, x).v)
<1>1. Ref(h, P, Error.v)
  BY DEF Ref, Error, Missing
<1>2. \A f, a, b : Ref(h, P, Operator(f, a, b).v)
  BY OperatorScalar DEF Ref
<1>3. Operate(h, loc, x) = Error \/ \E f, a, b : Operate(h, loc, x) = Operator(f, a, b)
  BY DEF Operate, Applied
<1> QED BY <1>1, <1>2, <1>3

LEMMA EvaluateRef ==
  ASSUME NEW h, NEW P, Sound(h, P), NEW loc \in DOMAIN h \ P, CustomDoc \in DOMAIN h \ P,
         NEW x, Condition(x)
  PROVE  Ref(h, P, Evaluate(h, loc, x).v)
<1>1. CASE Evaluate(h, loc, x) = Operate(h, loc, x)
  BY <1>1, OperateRef
<1>2. CASE Evaluate(h, loc, x) # Operate(h, loc, x)
  <2>1. x.e # "oper" /\ Evaluate(h, loc, x).v = Atom(h, loc, x)
    BY <1>2 DEF Evaluate
  <2>2. Scalar(x)
    BY <2>1 DEF Condition
  <2> QED BY <2>1, <2>2, AtomRef
<1> QED BY <1>1, <1>2

(* resolve adds at most one object; all that existed stays as it was.      *)
LEMMA ResolveExtends ==
  ASSUME NEW h, NEW P, Sound(h, P), NEW loc \in DOMAIN h \ P, CustomDoc \in DOMAIN h \ P,
         NEW x, Payload(x)
  PROVE  LET r == Resolve(h, loc, x)
         IN /\ r.ok \in BOOLEAN /\ Extends(h, r.h, P) /\ Ref(r.h, P, r.v)
            /\ \A a \in DOMAIN h : r.h[a] = h[a]
<1>1. CASE x.e # "map"
  <2>1. Scalar(x)
    BY <1>1 DEF Payload
  <2>2. Resolve(h, loc, x) = [ok |-> x = None \/ Atom(h, loc, x) # Missing, v |-> Atom(h, loc, x), h |-> h]
    BY <1>1 DEF Resolve
  <2>3. Ref(h, P, Atom(h, loc, x))
    BY <2>1, AtomRef
  <2>4. Extends(h, h, P)
    BY DEF Extends
  <2> QED BY <2>2, <2>3, <2>4
<1>2. CASE x.e = "map"
  <2> DEFINE new == <<Fresh(h), << >> >>
             m == [k \in DOMAIN x.m |-> Atom(h, loc, x.m[k])]
             g == Put(h, new, m)
             good == \A k \in DOMAIN m : m[k] # Missing
  <2>1. Resolve(h, loc, x) = [ok |-> good, v |-> Obj(new), h |-> g]
    BY <1>2 DEF Resolve
  <2>2. IsFiniteSet(DOMAIN x.m) /\ \A k \in DOMAIN x.m : Scalar(x.m[k])
    BY <1>2 DEF Payload, Scalar
  <2>3. Fresh(h) \in Nat /\ new \notin DOMAIN h
    BY FreshIsNew DEF Sound
  <2>4. new[1] \in Nat /\ new \notin P
    BY <2>3 DEF Sound
  <2>5. \A k \in DOMAIN m : Ref(h, P, m[k])
    BY <2>2, AtomRef
  <2>6. IsFiniteSet(DOMAIN m)
    BY <2>2
  <2> HIDE DEF m, new
  <2>7. Extends(h, g, P)
    BY <2>4, <2>5, <2>6, PutExtends DEF Ref
  <2>8. new \in DOMAIN g /\ \A a \in DOMAIN h : g[a] = h[a]
    BY <2>3 DEF Put
  <2>9. Ref(g, P, Obj(new))
    BY <2>4, <2>8 DEF Ref, Obj
  <2>10. good \in BOOLEAN
    OBVIOUS
  <2> HIDE DEF g, good
  <2> QED BY <2>1, <2>7, <2>8, <2>9, <2>10
<1> QED BY <1>1, <1>2

(* A sequence of values that a run may hold.                               *)
Refs(h, P, vs) == \E V : vs \in Seq(V) /\ \A v \in V : Ref(h, P, v)

LEMMA RefsAppend ==
  ASSUME NEW h, NEW P, NEW vs, Refs(h, P, vs), NEW v, Ref(h, P, v)
  PROVE  Refs(h, P, Append(vs, v)) /\ Len(Append(vs, v)) = Len(vs) + 1 /\ Len(vs) \in Nat
<1>1. PICK V : vs \in Seq(V) /\ \A w \in V : Ref(h, P, w)
  BY DEF Refs
<1> DEFINE W == V \cup {v}
<1>2. vs \in Seq(W) /\ v \in W
  <2>1. Len(vs) \in Nat /\ DOMAIN vs = 1 .. Len(vs) /\ \A i \in 1 .. Len(vs) : vs[i] \in V
    BY <1>1
  <2> QED BY <1>1, <2>1
<1>3. \A w \in W : Ref(h, P, w)
  BY <1>1
<1> HIDE DEF W
<1>4. Append(vs, v) \in Seq(W) /\ Len(Append(vs, v)) = Len(vs) + 1 /\ Len(vs) \in Nat
  BY <1>2
<1> QED BY <1>3, <1>4 DEF Refs

LEMMA RefsEmpty ==
  ASSUME NEW h, NEW P
  PROVE  Refs(h, P, << >>) /\ Len(<< >>) = 0
<1>1. << >> \in Seq({}) /\ Len(<< >>) = 0
  OBVIOUS
<1>2. PICK V : V = {}
  OBVIOUS
<1>4. << >> \in Seq(V) /\ \A v \in V : Ref(h, P, v)
  BY <1>1, <1>2
<1>3. \E W : << >> \in Seq(W) /\ \A v \in W : Ref(h, P, v)
  BY <1>4
<1> QED BY <1>1, <1>3 DEF Refs

LEMMA RefsExtends ==
  ASSUME NEW f, NEW g, NEW P, NEW vs, Extends(f, g, P), Refs(f, P, vs)
  PROVE  Refs(g, P, vs)
BY RefExtends DEF Refs

LEMMA RefsIndex ==
  ASSUME NEW h, NEW P, NEW vs, Refs(h, P, vs)
  PROVE  /\ Len(vs) \in Nat /\ DOMAIN vs = 1 .. Len(vs)
         /\ \A i \in 1 .. Len(vs) : Ref(h, P, vs[i])
<1>1. PICK V : vs \in Seq(V) /\ \A w \in V : Ref(h, P, w)
  BY DEF Refs
<1>2. Len(vs) \in Nat /\ DOMAIN vs = 1 .. Len(vs) /\ \A i \in 1 .. Len(vs) : vs[i] \in V
  BY <1>1
<1> QED BY <1>1, <1>2

(* The payloads of a list, one after the other.                            *)
LEMMA ResolveAllExtends ==
  ASSUME NEW h, NEW P, Sound(h, P), NEW loc \in DOMAIN h \ P, CustomDoc \in DOMAIN h \ P,
         NEW xs, Payloads(xs)
  PROVE  LET r == ResolveAll(h, loc, xs)
         IN /\ Extends(h, r.h, P) /\ Refs(r.h, P, r.vs) /\ Len(r.vs) = Len(xs)
            /\ \A a \in DOMAIN h : r.h[a] = h[a]
<1> DEFINE first == [ok |-> TRUE, vs |-> << >>, h |-> h]
           next(a, n) == [ok |-> a.ok /\ Resolve(a.h, loc, xs[n]).ok,
                          vs |-> Append(a.vs, Resolve(a.h, loc, xs[n]).v),
                          h  |-> Resolve(a.h, loc, xs[n]).h]
           acc[n \in 0 .. Len(xs)] ==
             IF n = 0 THEN [ok |-> TRUE, vs |-> << >>, h |-> h]
             ELSE LET a == acc[n - 1]
                      r == Resolve(a.h, loc, xs[n])
                  IN [ok |-> a.ok /\ r.ok, vs |-> Append(a.vs, r.v), h |-> r.h]
<1>1. Len(xs) \in Nat
  BY DEF Payloads
<1>2. \E f : f = [n \in 0 .. Len(xs) |-> IF n = 0 THEN first ELSE next(f[n - 1], n)]
  <2> DEFINE S == {m \in Nat : \E f : f = [n \in 0 .. m |-> IF n = 0 THEN first
                                                    ELSE next(f[n - 1], n)]}
  <2> HIDE DEF first, next
  <2>1. 0 \in S
    <3> DEFINE f == [n \in 0 .. 0 |-> first]
    <3>1. f = [n \in 0 .. 0 |-> IF n = 0 THEN first ELSE next(f[n - 1], n)]
      OBVIOUS
    <3> QED BY <3>1
  <2>2. ASSUME NEW m \in Nat, m \in S PROVE m + 1 \in S
    <3>1. PICK f : f = [n \in 0 .. m |-> IF n = 0 THEN first ELSE next(f[n - 1], n)]
      BY <2>2
    <3> DEFINE g == [n \in 0 .. m + 1 |-> IF n = m + 1 THEN next(f[m], m + 1) ELSE f[n]]
    <3>2. ASSUME NEW n \in 0 .. m + 1
          PROVE  g[n] = IF n = 0 THEN first ELSE next(g[n - 1], n)
      <4>1. CASE n = m + 1
        BY <4>1
      <4>2. CASE n \in 0 .. m
        <5>1. g[n] = f[n]
          BY <4>2
        <5>2. n # 0 => n - 1 \in 0 .. m /\ g[n - 1] = f[n - 1]
          BY <4>2
        <5>3. f[n] = IF n = 0 THEN first ELSE next(f[n - 1], n)
          BY <3>1, <4>2
        <5> HIDE DEF g
        <5> QED BY <5>1, <5>2, <5>3
      <4> QED BY <4>1, <4>2
    <3>3. g = [n \in 0 .. m + 1 |-> IF n = 0 THEN first ELSE next(g[n - 1], n)]
      BY <3>2
    <3> HIDE DEF g
    <3> QED BY <3>3
  <2>3. Nat \subseteq S
    <3> HIDE DEF S
    <3> QED BY <2>1, <2>2, Induction
  <2> QED BY <1>1, <2>3
<1>3. acc = [n \in 0 .. Len(xs) |-> IF n = 0 THEN first ELSE next(acc[n - 1], n)]
  BY <1>2
<1>4. ResolveAll(h, loc, xs) = acc[Len(xs)]
  BY DEF ResolveAll
<1> HIDE DEF acc
<1> DEFINE Good(a, n) == /\ Extends(h, a.h, P) /\ Refs(a.h, P, a.vs) /\ Len(a.vs) = n
                         /\ \A b \in DOMAIN h : a.h[b] = h[b]
           S == {n \in Nat : n <= Len(xs) => Good(acc[n], n)}
<1>5. 0 \in S
  <2>1. acc[0] = first
    BY <1>1, <1>3
  <2>2. Extends(h, h, P)
    BY DEF Extends
  <2>3. Good(first, 0)
    BY <2>2, RefsEmpty
  <2> HIDE DEF Good
  <2> QED BY <2>1, <2>3
<1>6. ASSUME NEW n \in Nat, n \in S PROVE n + 1 \in S
  <2> SUFFICES ASSUME n + 1 <= Len(xs)
               PROVE  Good(acc[n + 1], n + 1)
    OBVIOUS
  <2>1. Good(acc[n], n)
    <3> HIDE DEF Good
    <3> QED BY <1>1, <1>6
  <2>2. acc[n + 1] = next(acc[n], n + 1)
    <3>1. n + 1 \in 0 .. Len(xs) /\ n + 1 # 0 /\ (n + 1) - 1 = n
      BY <1>1
    <3>2. acc[n + 1] = IF n + 1 = 0 THEN first ELSE next(acc[(n + 1) - 1], n + 1)
      <4> HIDE DEF next, first
      <4> QED BY <1>3, <3>1
    <3> HIDE DEF next, first
    <3> QED BY <3>1, <3>2
  <2>3. PICK a : a = acc[n]
    OBVIOUS
  <2>4. PICK r : r = Resolve(a.h, loc, xs[n + 1])
    OBVIOUS
  <2>5. Good(a, n)
    <3> HIDE DEF Good
    <3> QED BY <2>1, <2>3
  <2>6. acc[n + 1].vs = Append(a.vs, r.v) /\ acc[n + 1].h = r.h
    BY <2>2, <2>3, <2>4
  <2>7. Payload(xs[n + 1])
    BY <1>1 DEF Payloads
  <2>8. Sound(a.h, P) /\ loc \in DOMAIN a.h \ P /\ CustomDoc \in DOMAIN a.h \ P
    BY <2>5 DEF Extends
  <2>9. Extends(a.h, r.h, P) /\ Ref(r.h, P, r.v) /\ \A b \in DOMAIN a.h : r.h[b] = a.h[b]
    BY <2>4, <2>7, <2>8, ResolveExtends
  <2>10. Extends(h, r.h, P)
    BY <2>5, <2>9, ExtendsTransitive DEF Sound
  <2>11. Refs(r.h, P, a.vs)
    BY <2>5, <2>9, RefsExtends
  <2>12. Refs(r.h, P, Append(a.vs, r.v)) /\ Len(Append(a.vs, r.v)) = n + 1
    BY <2>5, <2>9, <2>11, RefsAppend
  <2>13. \A b \in DOMAIN h : r.h[b] = h[b]
    BY <2>5, <2>9 DEF Extends
  <2> QED BY <2>6, <2>10, <2>12, <2>13
<1>7. Nat \subseteq S
  <2> HIDE DEF S
  <2> QED BY <1>5, <1>6, Induction
<1>8. Good(acc[Len(xs)], Len(xs))
  <2> HIDE DEF Good
  <2> QED BY <1>1, <1>7
<1> QED BY <1>4, <1>8

(* The copies that bindParameters makes are outside P even where the        *)
(* arguments are not.                                                      *)
LEMMA CopyAllExtends ==
  ASSUME NEW h, NEW P, Sound(h, P), NEW vs, Refs(h, {}, vs)
  PROVE  LET r == CopyAll(h, vs)
         IN Extends(h, r.h, P) /\ Refs(r.h, P, r.vs) /\ Len(r.vs) = Len(vs)
<1> DEFINE first == [vs |-> << >>, h |-> h, cyclic |-> FALSE]
           next(a, n) ==
             IF vs[n].k # "obj" THEN [a EXCEPT !.vs = Append(@, vs[n])]
             ELSE [vs |-> Append(a.vs, Obj(<<Fresh(a.h), << >> >>)), h |-> Clone(a.h, vs[n].id),
                   cyclic |-> a.cyclic \/ Cyclic(a.h, vs[n].id)]
           acc[n \in 0 .. Len(vs)] ==
             IF n = 0 THEN [vs |-> << >>, h |-> h, cyclic |-> FALSE]
             ELSE LET a == acc[n - 1]
                      v == vs[n]
                  IN IF v.k # "obj" THEN [a EXCEPT !.vs = Append(@, v)]
                     ELSE [vs |-> Append(a.vs, Obj(<<Fresh(a.h), << >> >>)), h |-> Clone(a.h, v.id),
                           cyclic |-> a.cyclic \/ Cyclic(a.h, v.id)]
<1>1. Len(vs) \in Nat
  BY RefsIndex
<1>2. \E f : f = [n \in 0 .. Len(vs) |-> IF n = 0 THEN first ELSE next(f[n - 1], n)]
  <2> DEFINE S == {m \in Nat : \E f : f = [n \in 0 .. m |-> IF n = 0 THEN first
                                                    ELSE next(f[n - 1], n)]}
  <2> HIDE DEF first, next
  <2>1. 0 \in S
    <3> DEFINE f == [n \in 0 .. 0 |-> first]
    <3>1. f = [n \in 0 .. 0 |-> IF n = 0 THEN first ELSE next(f[n - 1], n)]
      OBVIOUS
    <3> QED BY <3>1
  <2>2. ASSUME NEW m \in Nat, m \in S PROVE m + 1 \in S
    <3>1. PICK f : f = [n \in 0 .. m |-> IF n = 0 THEN first ELSE next(f[n - 1], n)]
      BY <2>2
    <3> DEFINE g == [n \in 0 .. m + 1 |-> IF n = m + 1 THEN next(f[m], m + 1) ELSE f[n]]
    <3>2. ASSUME NEW n \in 0 .. m + 1
          PROVE  g[n] = IF n = 0 THEN first ELSE next(g[n - 1], n)
      <4>1. CASE n = m + 1
        BY <4>1
      <4>2. CASE n \in 0 .. m
        <5>1. g[n] = f[n]
          BY <4>2
        <5>2. n # 0 => n - 1 \in 0 .. m /\ g[n - 1] = f[n - 1]
          BY <4>2
        <5>3. f[n] = IF n = 0 THEN first ELSE next(f[n - 1], n)
          BY <3>1, <4>2
        <5> HIDE DEF g
        <5> QED BY <5>1, <5>2, <5>3
      <4> QED BY <4>1, <4>2
    <3>3. g = [n \in 0 .. m + 1 |-> IF n = 0 THEN first ELSE next(g[n - 1], n)]
      BY <3>2
    <3> HIDE DEF g
    <3> QED BY <3>3
  <2>3. Nat \subseteq S
    <3> HIDE DEF S
    <3> QED BY <2>1, <2>2, Induction
  <2> QED BY <1>1, <2>3
<1>3. acc = [n \in 0 .. Len(vs) |-> IF n = 0 THEN first ELSE next(acc[n - 1], n)]
  BY <1>2
<1>4. CopyAll(h, vs) = acc[Len(vs)]
  BY DEF CopyAll
<1> HIDE DEF acc
<1> DEFINE Good(a, n) == /\ a = [vs |-> a.vs, h |-> a.h, cyclic |-> a.cyclic]
                         /\ Extends(h, a.h, P) /\ Refs(a.h, P, a.vs) /\ Len(a.vs) = n
           S == {n \in Nat : n <= Len(vs) => Good(acc[n], n)}
<1>5. 0 \in S
  <2>1. acc[0] = first
    BY <1>1, <1>3
  <2>2. Extends(h, h, P)
    BY DEF Extends
  <2>3. Good(first, 0)
    BY <2>2, RefsEmpty
  <2> HIDE DEF Good
  <2> QED BY <2>1, <2>3
<1>6. ASSUME NEW n \in Nat, n \in S PROVE n + 1 \in S
  <2> SUFFICES ASSUME n + 1 <= Len(vs)
               PROVE  Good(acc[n + 1], n + 1)
    OBVIOUS
  <2>1. Good(acc[n], n)
    <3> HIDE DEF Good
    <3> QED BY <1>1, <1>6
  <2>2. acc[n + 1] = next(acc[n], n + 1)
    <3>1. n + 1 \in 0 .. Len(vs) /\ n + 1 # 0 /\ (n + 1) - 1 = n
      BY <1>1
    <3>2. acc[n + 1] = IF n + 1 = 0 THEN first ELSE next(acc[(n + 1) - 1], n + 1)
      <4> HIDE DEF next, first
      <4> QED BY <1>3, <3>1
    <3> HIDE DEF next, first
    <3> QED BY <3>1, <3>2
  <2>3. PICK a : a = acc[n]
    OBVIOUS
  <2>4. PICK v : v = vs[n + 1]
    OBVIOUS
  <2>5. Good(a, n)
    <3> HIDE DEF Good
    <3> QED BY <2>1, <2>3
  <2>6. Ref(h, {}, v)
    BY <1>1, <2>4, RefsIndex
  <2>7. CASE v.k # "obj"
    <3>1. acc[n + 1] = [a EXCEPT !.vs = Append(@, v)]
      BY <2>2, <2>3, <2>4, <2>7
    <3>2. acc[n + 1] = [vs |-> Append(a.vs, v), h |-> a.h, cyclic |-> a.cyclic]
      BY <2>5, <3>1
    <3>3. Refs(a.h, P, Append(a.vs, v)) /\ Len(Append(a.vs, v)) = n + 1
      BY <2>5, <2>7, RefsAppend DEF Ref
    <3> QED BY <2>5, <3>2, <3>3
  <2>8. CASE v.k = "obj"
    <3> DEFINE g == Clone(a.h, v.id)
               w == Obj(<<Fresh(a.h), << >> >>)
    <3>1. acc[n + 1] = [vs |-> Append(a.vs, w), h |-> g, cyclic |-> a.cyclic \/ Cyclic(a.h, v.id)]
      BY <2>2, <2>3, <2>4, <2>8
    <3>2. v.id \in DOMAIN a.h /\ Sound(a.h, P)
      BY <2>5, <2>6, <2>8 DEF Ref, Extends
    <3>3. Extends(a.h, g, P) /\ <<Fresh(a.h), << >> >> \in DOMAIN g \ P
      BY <3>2, CloneExtends
    <3>4. Ref(g, P, w)
      BY <3>3 DEF Ref, Obj
    <3> HIDE DEF g, w
    <3>5. Extends(h, g, P)
      BY <2>5, <3>3, ExtendsTransitive DEF Sound
    <3>6. Refs(g, P, a.vs)
      BY <2>5, <3>3, RefsExtends
    <3>7. Refs(g, P, Append(a.vs, w)) /\ Len(Append(a.vs, w)) = n + 1
      BY <2>5, <3>4, <3>6, RefsAppend
    <3> QED BY <3>1, <3>5, <3>7
  <2> QED BY <2>7, <2>8
<1>7. Nat \subseteq S
  <2> HIDE DEF S
  <2> QED BY <1>5, <1>6, Induction
<1>8. Good(acc[Len(vs)], Len(vs))
  <2> HIDE DEF Good
  <2> QED BY <1>1, <1>7
<1> QED BY <1>4, <1>8

(* What bindParameters binds are arguments of the call and defaults of the *)
(* function, under as many names as there are.                             *)
LEMMA BindRefs ==
  ASSUME NEW h, NEW P, NEW fn, IsFunction(fn),
         \A i \in DOMAIN fn.defaults : Ref(h, P, fn.defaults[i]),
         NEW call, NEW vs, Refs(h, P, vs), call.argKind = "map" => DOMAIN call.argNames = DOMAIN vs,
         Bind(fn, call, vs).ok
  PROVE  LET m == Bind(fn, call, vs).m
         IN IsFiniteSet(DOMAIN m) /\ \A k \in DOMAIN m : Ref(h, P, m[k])
<1> DEFINE named(name) == {i \in DOMAIN call.argNames : call.argNames[i] = name}
           value(i) == CASE fn.kind = "list" /\ i <= Len(vs) -> vs[i]
                         [] fn.kind = "list" /\ i > Len(vs)  ->
                              IF fn.defaults[i] = Null THEN Missing ELSE fn.defaults[i]
                         [] fn.kind = "map" /\ named(fn.names[i]) # {} ->
                              vs[CHOOSE j \in named(fn.names[i]) : TRUE]
                         [] OTHER -> fn.defaults[i]
           index(key) == CHOOSE i \in DOMAIN fn.names : <<fn.names[i]>> = key
           given(key) == CHOOSE j \in DOMAIN call.argNames : <<call.argNames[j]>> = key
           plain == call.argKind = "none" \/ (fn.kind = "none" /\ call.argKind = "list")
           free == fn.kind = "none" /\ call.argKind = "map"
           free_m == [key \in {<<x>> : x \in Range(call.argNames)} |-> vs[given(key)]]
           bound_ok == call.argKind = fn.kind /\ \A i \in DOMAIN fn.names : value(i) # Missing
           bound_m == [key \in {<<x>> : x \in Range(fn.names)} |-> value(index(key))]
<1>1. Bind(fn, call, vs) = CASE plain -> [ok |-> TRUE, m |-> Empty]
                             [] free  -> [ok |-> TRUE, m |-> free_m]
                             [] OTHER -> [ok |-> bound_ok, m |-> bound_m]
  BY DEF Bind
<1>2. /\ Len(vs) \in Nat /\ DOMAIN vs = 1 .. Len(vs)
      /\ \A i \in 1 .. Len(vs) : Ref(h, P, vs[i])
  BY RefsIndex
<1>3. /\ Len(fn.names) \in Nat /\ DOMAIN fn.names = 1 .. Len(fn.names)
      /\ DOMAIN fn.defaults = DOMAIN fn.names
  BY DEF IsFunction
<1>4. ASSUME NEW n \in Nat, NEW f, DOMAIN f = 1 .. n
      PROVE  IsFiniteSet({<<x>> : x \in Range(f)})
  <2> DEFINE g == [i \in 1 .. n |-> <<f[i]>>]
  <2>1. {g[i] : i \in 1 .. n} = {<<x>> : x \in Range(f)}
    BY <1>4 DEF Range
  <2>2. IsFiniteSet(1 .. n) /\ DOMAIN g = 1 .. n
    BY FS_Interval
  <2> HIDE DEF g
  <2>3. IsFiniteSet({g[i] : i \in 1 .. n})
    BY <2>2, FiniteImage
  <2> QED BY <2>1, <2>3
<1>5. CASE plain
  <2>1. Bind(fn, call, vs).m = Empty
    <3> HIDE DEF free_m, bound_ok, bound_m
    <3> QED BY <1>1, <1>5
  <2>2. DOMAIN Empty = {}
    BY DEF Empty
  <2> QED BY <2>1, <2>2, FS_EmptySet
<1>6. CASE free
  <2>1. Bind(fn, call, vs).m = free_m
    <3>1. ~plain
      BY <1>6
    <3> HIDE DEF plain, free_m, bound_ok, bound_m
    <3> QED BY <1>1, <1>6, <3>1
  <2>2. DOMAIN call.argNames = 1 .. Len(vs)
    BY <1>2, <1>6
  <2>3. ASSUME NEW key \in DOMAIN free_m PROVE Ref(h, P, free_m[key])
    <3>1. \E j \in DOMAIN call.argNames : <<call.argNames[j]>> = key
      BY DEF Range
    <3>2. given(key) \in DOMAIN call.argNames
      BY <3>1
    <3>3. free_m[key] = vs[given(key)]
      OBVIOUS
    <3> HIDE DEF given, free_m
    <3> QED BY <1>2, <2>2, <3>2, <3>3
  <2>4. IsFiniteSet(DOMAIN free_m)
    BY <1>2, <1>4, <2>2
  <2> QED BY <2>1, <2>3, <2>4
<1>7. CASE ~plain /\ ~free
  <2>1. Bind(fn, call, vs).m = bound_m /\ bound_ok
    <3>1. Bind(fn, call, vs) = [ok |-> bound_ok, m |-> bound_m]
      <4> HIDE DEF plain, free, free_m, bound_ok, bound_m
      <4> QED BY <1>1, <1>7
    <3> HIDE DEF bound_ok, bound_m
    <3> QED BY <3>1
  <2>2. ASSUME NEW i \in DOMAIN fn.names PROVE Ref(h, P, value(i))
    <3>1. i \in Nat /\ 1 <= i
      BY <1>3
    <3>2. Ref(h, P, fn.defaults[i])
      BY <1>3
    <3>3. CASE fn.kind = "list" /\ i <= Len(vs)
      <4>1. value(i) = vs[i]
        BY <1>2, <3>1, <3>3
      <4> HIDE DEF value
      <4> QED BY <1>2, <3>1, <3>3, <4>1
    <3>4. CASE fn.kind = "list" /\ ~(i <= Len(vs))
      <4>1. i > Len(vs)
        BY <1>2, <3>1, <3>4
      <4>2. value(i) = IF fn.defaults[i] = Null THEN Missing ELSE fn.defaults[i]
        BY <3>4, <4>1
      <4> HIDE DEF value
      <4> QED BY <3>2, <4>2 DEF Ref, Missing
    <3>5. CASE fn.kind = "map" /\ named(fn.names[i]) # {}
      <4> DEFINE j == CHOOSE j \in named(fn.names[i]) : TRUE
      <4>1. value(i) = vs[j]
        BY <3>5
      <4>2. j \in named(fn.names[i])
        BY <3>5
      <4>3. j \in DOMAIN vs
        BY <2>1, <3>5, <4>2
      <4> HIDE DEF value, j
      <4> QED BY <1>2, <4>1, <4>3
    <3>6. CASE fn.kind # "list" /\ ~(fn.kind = "map" /\ named(fn.names[i]) # {})
      <4>1. value(i) = fn.defaults[i]
        BY <3>6
      <4> HIDE DEF value
      <4> QED BY <3>2, <4>1
    <3> HIDE DEF value, named
    <3> QED BY <3>3, <3>4, <3>5, <3>6
  <2>3. ASSUME NEW key \in DOMAIN bound_m PROVE Ref(h, P, bound_m[key])
    <3>1. \E j \in DOMAIN fn.names : <<fn.names[j]>> = key
      BY DEF Range
    <3>2. index(key) \in DOMAIN fn.names
      BY <3>1
    <3>3. bound_m[key] = value(index(key))
      OBVIOUS
    <3> HIDE DEF index, value, bound_m
    <3> QED BY <2>2, <3>2, <3>3
  <2>4. IsFiniteSet(DOMAIN bound_m)
    BY <1>3, <1>4
  <2> HIDE DEF bound_m
  <2> QED BY <2>1, <2>3, <2>4
<1> HIDE DEF plain, free
<1> QED BY <1>5, <1>6, <1>7

(***************************************************************************)
(* The engine's stack.                                                     *)
(***************************************************************************)
IsStack(s) == \E F : s \in Seq(F)

LEMMA PushedStack ==
  ASSUME NEW s, IsStack(s), NEW f
  PROVE  /\ IsStack(<<f>> \o s) /\ Len(<<f>> \o s) = Len(s) + 1 /\ Len(s) \in Nat
         /\ <<f>> \o s # << >>
         /\ (<<f>> \o s)[1] = f
         /\ \A i \in 1 .. Len(s) : (<<f>> \o s)[i + 1] = s[i]
<1>1. PICK F : s \in Seq(F)
  BY DEF IsStack
<1> DEFINE G == F \cup {f}
<1>2. s \in Seq(G) /\ f \in G
  <2>1. Len(s) \in Nat /\ DOMAIN s = 1 .. Len(s) /\ \A i \in 1 .. Len(s) : s[i] \in F
    BY <1>1
  <2> QED BY <1>1, <2>1
<1> HIDE DEF G
<1>3. <<f>> \in Seq(G) /\ Len(<<f>>) = 1 /\ <<f>>[1] = f
  BY <1>2
<1>4. /\ <<f>> \o s \in Seq(G) /\ Len(<<f>> \o s) = Len(s) + 1 /\ Len(s) \in Nat
      /\ (<<f>> \o s)[1] = f
      /\ \A i \in 1 .. Len(s) : (<<f>> \o s)[i + 1] = s[i]
  BY <1>2, <1>3
<1>5. <<f>> \o s # << >>
  BY <1>4
<1> QED BY <1>4, <1>5 DEF IsStack

LEMMA TailStack ==
  ASSUME NEW s, IsStack(s), s # << >>
  PROVE  /\ IsStack(Tail(s)) /\ Len(s) \in Nat \ {0} /\ Len(Tail(s)) = Len(s) - 1
         /\ Head(s) = s[1] /\ DOMAIN s = 1 .. Len(s)
         /\ \A i \in 1 .. Len(s) - 1 : Tail(s)[i] = s[i + 1]
<1>1. PICK F : s \in Seq(F)
  BY DEF IsStack
<1>2. Tail(s) \in Seq(F)
  BY <1>1
<1>3. /\ Len(s) \in Nat \ {0} /\ Len(Tail(s)) = Len(s) - 1
      /\ Head(s) = s[1] /\ DOMAIN s = 1 .. Len(s)
      /\ \A i \in 1 .. Len(s) - 1 : Tail(s)[i] = s[i + 1]
  BY <1>1
<1> QED BY <1>2, <1>3 DEF IsStack

LEMMA StackDomain ==
  ASSUME NEW s, IsStack(s)
  PROVE  Len(s) \in Nat /\ DOMAIN s = 1 .. Len(s) /\ (s = << >> <=> Len(s) = 0)
BY DEF IsStack

(* The first frame of s replaced, or the first two by one.                 *)
LEMMA ReplacedStack ==
  ASSUME NEW s, IsStack(s), s # << >>, NEW f
  PROVE  LET t == <<f>> \o Tail(s)
         IN /\ IsStack(t) /\ t # << >> /\ Len(t) = Len(s) /\ t[1] = f
            /\ \A i \in 2 .. Len(s) : t[i] = s[i]
<1> DEFINE r == Tail(s)
           t == <<f>> \o r
<1>1. /\ IsStack(r) /\ Len(s) \in Nat \ {0} /\ Len(r) = Len(s) - 1
      /\ \A i \in 1 .. Len(s) - 1 : r[i] = s[i + 1]
  BY TailStack
<1> HIDE DEF r
<1>2. /\ IsStack(t) /\ Len(t) = Len(r) + 1 /\ t # << >> /\ t[1] = f
      /\ \A i \in 1 .. Len(r) : t[i + 1] = r[i]
  BY <1>1, PushedStack
<1> HIDE DEF t
<1>3. ASSUME NEW i \in 2 .. Len(s) PROVE t[i] = s[i]
  <2>1. i - 1 \in 1 .. Len(r) /\ (i - 1) + 1 = i
    BY <1>1
  <2>2. t[(i - 1) + 1] = r[i - 1] /\ r[i - 1] = s[(i - 1) + 1]
    BY <1>1, <1>2, <2>1
  <2> QED BY <2>1, <2>2
<1>4. Len(t) = Len(s)
  BY <1>1, <1>2
<1> QED BY <1>2, <1>3, <1>4 DEF r, t

LEMMA PoppedStack ==
  ASSUME NEW s, IsStack(s), Len(s) >= 2, NEW f
  PROVE  LET t == <<f>> \o Tail(Tail(s))
         IN /\ IsStack(t) /\ t # << >> /\ Len(t) = Len(s) - 1 /\ t[1] = f
            /\ \A i \in 2 .. Len(s) - 1 : t[i] = s[i + 1]
<1> DEFINE r == Tail(s)
           t == <<f>> \o Tail(r)
<1>1. Len(s) \in Nat /\ s # << >>
  BY StackDomain
<1>2. /\ IsStack(r) /\ Len(r) = Len(s) - 1
      /\ \A i \in 1 .. Len(s) - 1 : r[i] = s[i + 1]
  BY <1>1, TailStack
<1> HIDE DEF r
<1>3. r # << >>
  BY <1>1, <1>2, StackDomain
<1>4. /\ IsStack(t) /\ t # << >> /\ Len(t) = Len(r) /\ t[1] = f
      /\ \A i \in 2 .. Len(r) : t[i] = r[i]
  BY <1>2, <1>3, ReplacedStack
<1> HIDE DEF t
<1>5. ASSUME NEW i \in 2 .. Len(s) - 1 PROVE t[i] = s[i + 1]
  BY <1>1, <1>2, <1>4
<1>6. Len(t) = Len(s) - 1
  BY <1>2, <1>4
<1> QED BY <1>4, <1>5, <1>6 DEF r, t

(* A frame, and how each frame of a stack rests on the next.               *)
IsFrame(f) ==
  /\ f = [kind |-> f.kind, rest |-> f.rest, loc |-> f.loc, depth |-> f.depth, n |-> f.n,
          returnto |-> f.returnto, before |-> f.before, shared |-> f.shared]
  /\ f.rest \in Seq(AnyJob) /\ f.depth \in Nat /\ f.n \in Nat /\ f.returnto \in Path
Calls(f) == IF f.kind = "func" THEN 1 ELSE 0
Rests(f, g) ==
  /\ g.rest # << >> /\ Opens(f, Head(g.rest))
  /\ f.loc = g.loc \/ f.kind = "func"
  /\ f.depth = g.depth + Calls(f)
Linked(s) ==
  \A i \in DOMAIN s :
    /\ IsFrame(s[i]) /\ s[i].depth <= MaxCallDepth /\ s[i].n <= MaxLoop
    /\ i = Len(s) => s[i].kind = "top" /\ s[i].depth = 0
    /\ i # Len(s) => Rests(s[i], s[i + 1])

FrameFields == {"kind", "rest", "loc", "depth", "n", "returnto", "before", "shared"}

LEMMA FrameByFields ==
  ASSUME NEW f, f = [x \in FrameFields |-> f[x]]
  PROVE  f = [kind |-> f.kind, rest |-> f.rest, loc |-> f.loc, depth |-> f.depth, n |-> f.n,
              returnto |-> f.returnto, before |-> f.before, shared |-> f.shared]
<1> DEFINE r == [kind |-> f.kind, rest |-> f.rest, loc |-> f.loc, depth |-> f.depth, n |-> f.n,
                 returnto |-> f.returnto, before |-> f.before, shared |-> f.shared]
<1>1. DOMAIN r = FrameFields
  BY DEF FrameFields
<1>2. /\ r.kind = f.kind /\ r.rest = f.rest /\ r.loc = f.loc /\ r.depth = f.depth
      /\ r.n = f.n /\ r.returnto = f.returnto /\ r.before = f.before /\ r.shared = f.shared
  OBVIOUS
<1>3. r = [x \in DOMAIN r |-> r[x]]
  OBVIOUS
<1> HIDE DEF r
<1>4. \A x \in FrameFields : r[x] = f[x]
  BY <1>2 DEF FrameFields
<1>5. r = f
  BY <1>1, <1>3, <1>4
<1> QED BY <1>5 DEF r

LEMMA AfterFrame ==
  ASSUME NEW f, IsFrame(f), f.rest # << >>
  PROVE  /\ IsFrame(After(f)) /\ After(f).rest = Tail(f.rest)
         /\ After(f).kind = f.kind /\ After(f).loc = f.loc /\ After(f).depth = f.depth
         /\ After(f).n = f.n /\ After(f).before = f.before /\ After(f).shared = f.shared
<1>1. After(f) = [kind |-> f.kind, rest |-> Tail(f.rest), loc |-> f.loc, depth |-> f.depth,
                  n |-> f.n, returnto |-> f.returnto, before |-> f.before, shared |-> f.shared]
  BY DEF After, IsFrame
<1>2. Tail(f.rest) \in Seq(AnyJob)
  BY DEF IsFrame
<1> QED BY <1>1, <1>2 DEF IsFrame

(* A job ends: k - 1 frames are gone and the next one goes on.              *)
Moved(s, t, k) ==
  /\ k \in {1, 2} /\ Len(s) >= k /\ s[k].rest # << >>
  /\ IsStack(t) /\ t # << >> /\ Len(t) = Len(s) - (k - 1)
  /\ t[1] = After(s[k])
  /\ \A i \in 2 .. Len(t) : t[i] = s[i + (k - 1)]

LEMMA MovedLinked ==
  ASSUME NEW s, IsStack(s), Linked(s), NEW t, NEW k, Moved(s, t, k)
  PROVE  Linked(t)
<1>1. k \in Nat /\ k >= 1 /\ Len(s) >= k
  BY DEF Moved
<1>2. /\ Len(s) \in Nat /\ DOMAIN s = 1 .. Len(s)
      /\ Len(t) \in Nat /\ DOMAIN t = 1 .. Len(t) /\ Len(t) = Len(s) - (k - 1) /\ Len(t) # 0
  BY StackDomain DEF Moved
<1>3. ASSUME NEW i \in DOMAIN t
      PROVE  /\ IsFrame(t[i]) /\ t[i].depth <= MaxCallDepth /\ t[i].n <= MaxLoop
             /\ i = Len(t) => t[i].kind = "top" /\ t[i].depth = 0
             /\ i # Len(t) => Rests(t[i], t[i + 1])
  <2> DEFINE j == i + (k - 1)
  <2>1. j \in DOMAIN s /\ (i = Len(t) <=> j = Len(s)) /\ (i # Len(t) => i + 1 \in 2 .. Len(t))
    BY <1>1, <1>2
  <2>2. i # Len(t) => t[i + 1] = s[j + 1]
    BY <1>1, <1>2, <2>1 DEF Moved
  <2>3. /\ IsFrame(s[j]) /\ s[j].depth <= MaxCallDepth /\ s[j].n <= MaxLoop
        /\ j = Len(s) => s[j].kind = "top" /\ s[j].depth = 0
        /\ j # Len(s) => Rests(s[j], s[j + 1])
    BY <2>1 DEF Linked
  <2>4. /\ IsFrame(t[i]) /\ t[i].kind = s[j].kind /\ t[i].loc = s[j].loc
        /\ t[i].depth = s[j].depth /\ t[i].n = s[j].n
    <3>1. CASE i = 1
      <4>1. j = k /\ t[i] = After(s[j]) /\ s[j].rest # << >>
        BY <1>1, <3>1 DEF Moved
      <4> HIDE DEF j
      <4> QED BY <2>3, <4>1, AfterFrame
    <3>2. CASE i # 1
      <4>1. t[i] = s[j]
        BY <1>2, <3>2 DEF Moved
      <4> HIDE DEF j
      <4> QED BY <2>3, <4>1
    <3> QED BY <3>1, <3>2
  <2> HIDE DEF j
  <2> QED BY <2>1, <2>2, <2>3, <2>4 DEF Rests, Calls, Opens
<1> QED BY <1>3 DEF Linked

(* A job opens a block.                                                    *)
LEMMA PushedLinked ==
  ASSUME NEW s, IsStack(s), Linked(s), s # << >>, NEW f, IsFrame(f), Rests(f, s[1]),
         f.depth <= MaxCallDepth, f.n <= MaxLoop
  PROVE  Linked(<<f>> \o s)
<1> DEFINE t == <<f>> \o s
<1>1. /\ IsStack(t) /\ Len(t) = Len(s) + 1 /\ t[1] = f
      /\ \A i \in 1 .. Len(s) : t[i + 1] = s[i]
  BY PushedStack
<1> HIDE DEF t
<1>2. /\ Len(s) \in Nat /\ DOMAIN s = 1 .. Len(s) /\ Len(s) # 0
      /\ DOMAIN t = 1 .. Len(s) + 1
  BY <1>1, StackDomain
<1>3. ASSUME NEW i \in DOMAIN t
      PROVE  /\ IsFrame(t[i]) /\ t[i].depth <= MaxCallDepth /\ t[i].n <= MaxLoop
             /\ i = Len(t) => t[i].kind = "top" /\ t[i].depth = 0
             /\ i # Len(t) => Rests(t[i], t[i + 1])
  <2>1. CASE i = 1
    <3>1. 1 \in 1 .. Len(s) /\ t[1 + 1] = s[1] /\ i # Len(t)
      BY <1>1, <1>2, <2>1
    <3> QED BY <1>1, <2>1, <3>1
  <2>2. CASE i # 1
    <3> DEFINE j == i - 1
    <3>1. j \in DOMAIN s /\ i = j + 1 /\ (i = Len(t) <=> j = Len(s)) /\ (i # Len(t) => j + 1 \in DOMAIN s)
      BY <1>1, <1>2, <2>2
    <3> HIDE DEF j
    <3>2. t[i] = s[j] /\ (i # Len(t) => t[i + 1] = s[j + 1])
      BY <1>1, <1>2, <3>1
    <3> QED BY <3>1, <3>2 DEF Linked
  <2> QED BY <2>1, <2>2
<1>4. Linked(t)
  BY <1>3 DEF Linked
<1> QED BY <1>4 DEF t

(* The innermost block starts over, as a loop does.                         *)
LEMMA ReplacedLinked ==
  ASSUME NEW s, IsStack(s), Linked(s), s # << >>, NEW f, IsFrame(f),
         f.kind = s[1].kind, f.loc = s[1].loc, f.depth = s[1].depth, f.n <= MaxLoop
  PROVE  Linked(<<f>> \o Tail(s))
<1> DEFINE t == <<f>> \o Tail(s)
<1>1. /\ IsStack(t) /\ Len(t) = Len(s) /\ t[1] = f
      /\ \A i \in 2 .. Len(s) : t[i] = s[i]
  BY ReplacedStack
<1> HIDE DEF t
<1>2. /\ Len(s) \in Nat /\ DOMAIN s = 1 .. Len(s) /\ Len(s) # 0
      /\ DOMAIN t = 1 .. Len(s)
  BY <1>1, StackDomain
<1>3. ASSUME NEW i \in DOMAIN t
      PROVE  /\ IsFrame(t[i]) /\ t[i].depth <= MaxCallDepth /\ t[i].n <= MaxLoop
             /\ i = Len(t) => t[i].kind = "top" /\ t[i].depth = 0
             /\ i # Len(t) => Rests(t[i], t[i + 1])
  <2>1. i # Len(t) => t[i + 1] = s[i + 1]
    BY <1>1, <1>2
  <2>2. i = 1 \/ t[i] = s[i]
    BY <1>1, <1>2
  <2>3. IsFrame(t[i]) /\ t[i].n <= MaxLoop
    BY <1>1, <1>2, <2>2 DEF Linked
  <2>4. t[i].kind = s[i].kind /\ t[i].loc = s[i].loc /\ t[i].depth = s[i].depth
    BY <1>1, <2>2
  <2> QED BY <1>1, <1>2, <2>1, <2>3, <2>4 DEF Linked, Rests, Opens, Calls
<1>4. Linked(t)
  BY <1>3 DEF Linked
<1> QED BY <1>4 DEF t

LEMMA DepthCounts ==
  ASSUME NEW s, IsStack(s), Linked(s)
  PROVE  \A i \in DOMAIN s : s[i].depth = Cardinality({j \in i .. Len(s) : s[j].kind = "func"})
<1>1. PICK L \in Nat : L = Len(s) /\ DOMAIN s = 1 .. L
  BY StackDomain
<1>2. /\ L \in 1 .. L => s[L].kind = "top" /\ s[L].depth = 0
      /\ \A i \in 1 .. L : i # L => s[i].depth = s[i + 1].depth + Calls(s[i])
  BY <1>1 DEF Linked, Rests
<1> DEFINE C(i) == {j \in i .. L : s[j].kind = "func"}
           S == {n \in Nat : n < L => s[L - n].depth = Cardinality(C(L - n))}
<1>3. ASSUME NEW i \in Nat PROVE IsFiniteSet(C(i)) /\ Cardinality(C(i)) \in Nat
  <2>1. IsFiniteSet(i .. L)
    BY FS_Interval
  <2>2. C(i) \subseteq i .. L
    OBVIOUS
  <2> QED BY <2>1, <2>2, FS_Subset, FS_CardinalityType
<1>4. 0 \in S
  <2> SUFFICES ASSUME 0 < L PROVE s[L].depth = Cardinality(C(L))
    OBVIOUS
  <2>1. s[L].kind = "top" /\ s[L].depth = 0
    BY <1>2
  <2>2. C(L) = {}
    BY <2>1
  <2> QED BY <2>1, <2>2, FS_EmptySet
<1>5. ASSUME NEW n \in Nat, n \in S PROVE n + 1 \in S
  <2> SUFFICES ASSUME n + 1 < L PROVE s[L - (n + 1)].depth = Cardinality(C(L - (n + 1)))
    OBVIOUS
  <2>1. s[L - n].depth = Cardinality(C(L - n))
    BY <1>5
  <2>2. PICK i \in Nat : i = L - (n + 1)
    OBVIOUS
  <2>3. i \in 1 .. L /\ i # L /\ L - n = i + 1
    BY <2>2
  <2>4. s[i + 1].depth = Cardinality(C(i + 1))
    <3> HIDE DEF C
    <3> QED BY <2>1, <2>3
  <2> HIDE DEF S
  <2>5. s[i].depth = s[i + 1].depth + Calls(s[i])
    BY <1>2, <2>3
  <2>6. IsFiniteSet(C(i + 1)) /\ Cardinality(C(i + 1)) \in Nat /\ i \notin C(i + 1)
    BY <1>3
  <2>7. i .. L = (i + 1 .. L) \cup {i}
    BY <2>3
  <2>8. CASE s[i].kind = "func"
    <3>1. C(i) = C(i + 1) \cup {i}
      BY <2>7, <2>8
    <3> HIDE DEF C
    <3>2. Cardinality(C(i)) = Cardinality(C(i + 1)) + 1
      BY <2>6, <3>1, FS_AddElement
    <3> QED BY <2>2, <2>4, <2>5, <2>8, <3>2 DEF Calls
  <2>9. CASE s[i].kind # "func"
    <3>1. C(i) = C(i + 1)
      BY <2>7, <2>9
    <3> HIDE DEF C
    <3>2. s[i + 1].depth + 0 = s[i + 1].depth
      BY <2>4, <2>6
    <3> QED BY <2>2, <2>4, <2>5, <2>9, <3>1, <3>2 DEF Calls
  <2> QED BY <2>8, <2>9
<1>6. Nat \subseteq S
  <2> HIDE DEF S
  <2> QED BY <1>4, <1>5, Induction
<1>7. ASSUME NEW i \in 1 .. L PROVE s[i].depth = Cardinality(C(i))
  <2>1. L - i \in Nat /\ L - i < L /\ L - (L - i) = i
    OBVIOUS
  <2>2. L - i \in S
    BY <1>6, <2>1
  <2> HIDE DEF C
  <2>3. s[L - (L - i)].depth = Cardinality(C(L - (L - i)))
    BY <2>1, <2>2
  <2> QED BY <2>1, <2>3
<1> QED BY <1>1, <1>7

(***************************************************************************)
(* The control of the engine: types, and the stack.                        *)
(***************************************************************************)
Counted ==
  /\ status \in {"ready", "running", "failed", "done", "crashed"}
  /\ attempt \in Nat /\ attempt <= MaxAttempts
  /\ status = "ready" => attempt < MaxAttempts
TypeInv ==
  /\ program \in Programs
  /\ Counted
  /\ status = "running" <=> stack # << >>
  /\ IsStack(stack) /\ Linked(stack)
  /\ \A f \in DOMAIN functions : IsFunction(functions[f])

(* What a job or the end of a block does to the stack.                     *)
Ends ==
  /\ stack' = << >> /\ status' \in {"failed", "done", "crashed"}
  /\ UNCHANGED <<program, attempt>>
Moves(k) == Moved(stack, stack', k) /\ UNCHANGED <<program, status, attempt>>
Pushes(f) ==
  /\ stack' = <<f>> \o stack /\ UNCHANGED <<program, functions, status, attempt>>
  /\ IsFrame(f) /\ Rests(f, stack[1]) /\ f.depth <= MaxCallDepth /\ f.n <= MaxLoop
Loops(f) ==
  /\ stack' = <<f>> \o Tail(stack) /\ UNCHANGED <<program, functions, status, attempt>>
  /\ IsFrame(f) /\ f.n <= MaxLoop
  /\ stack[1].kind = "loop" /\ f.kind = stack[1].kind /\ f.loc = stack[1].loc /\ f.depth = stack[1].depth

LEMMA EndsTyped ==
  ASSUME TypeInv, Ends, \A f \in DOMAIN functions' : IsFunction(functions'[f])
  PROVE  TypeInv'
<1>1. IsStack(<< >>) /\ Linked(<< >>)
  <2>1. << >> \in Seq({}) /\ DOMAIN << >> = {}
    OBVIOUS
  <2> QED BY <2>1 DEF IsStack, Linked
<1> QED BY <1>1 DEF TypeInv, Ends, Counted, IsStack, Linked

LEMMA MovesTyped ==
  ASSUME TypeInv, status = "running", NEW k, Moves(k), \A f \in DOMAIN functions' : IsFunction(functions'[f])
  PROVE  TypeInv'
<1>1. Linked(stack')
  BY MovedLinked DEF TypeInv, Moves
<1>2. IsStack(stack') /\ stack' # << >>
  BY DEF Moves, Moved
<1>3. (Linked(stack))' /\ (IsStack(stack))'
  BY <1>1, <1>2 DEF Linked, IsStack
<1>4. Counted'
  BY DEF TypeInv, Counted, Moves
<1> QED BY <1>2, <1>3, <1>4 DEF TypeInv, Moves

LEMMA PushesTyped ==
  ASSUME TypeInv, status = "running", NEW f, Pushes(f)
  PROVE  TypeInv'
<1>1. Linked(stack')
  BY PushedLinked DEF TypeInv, Pushes
<1>2. IsStack(stack') /\ stack' # << >>
  BY PushedStack DEF TypeInv, Pushes
<1>3. (Linked(stack))' /\ (IsStack(stack))'
  BY <1>1, <1>2 DEF Linked, IsStack
<1>4. Counted'
  BY DEF TypeInv, Counted, Pushes
<1> QED BY <1>2, <1>3, <1>4 DEF TypeInv, Pushes

LEMMA LoopsTyped ==
  ASSUME TypeInv, status = "running", NEW f, Loops(f)
  PROVE  TypeInv'
<1>1. Linked(stack')
  BY ReplacedLinked DEF TypeInv, Loops
<1>2. IsStack(stack') /\ stack' # << >>
  BY ReplacedStack DEF TypeInv, Loops
<1>3. (Linked(stack))' /\ (IsStack(stack))'
  BY <1>1, <1>2 DEF Linked, IsStack
<1>4. Counted'
  BY DEF TypeInv, Counted, Loops
<1> QED BY <1>2, <1>3, <1>4 DEF TypeInv, Loops

(* The innermost block, the job in it, and the job that opened it.          *)
LEMMA TopFacts ==
  ASSUME TypeInv, status = "running"
  PROVE  /\ stack # << >> /\ Len(stack) \in Nat /\ Len(stack) >= 1 /\ top = stack[1]
         /\ IsFrame(top) /\ top.depth <= MaxCallDepth /\ top.n <= MaxLoop
         /\ top.rest # << >> => job \in AnyJob /\ IsJob(job)
         /\ top.kind # "top" =>
              /\ Len(stack) >= 2 /\ Tail(stack) # << >> /\ Tail(stack)[1] = stack[2]
              /\ IsFrame(stack[2]) /\ Rests(top, stack[2])
              /\ Head(stack[2].rest) \in AnyJob /\ IsJob(Head(stack[2].rest))
<1>1. /\ stack # << >> /\ Len(stack) \in Nat /\ Len(stack) >= 1 /\ DOMAIN stack = 1 .. Len(stack)
      /\ top = stack[1]
  BY StackDomain, TailStack DEF TypeInv, top
<1>2. \A i \in DOMAIN stack :
        /\ IsFrame(stack[i]) /\ stack[i].depth <= MaxCallDepth /\ stack[i].n <= MaxLoop
        /\ i = Len(stack) => stack[i].kind = "top" /\ stack[i].depth = 0
        /\ i # Len(stack) => Rests(stack[i], stack[i + 1])
  BY DEF TypeInv, Linked
<1>3. \A j \in AnyJob : IsJob(j)
  BY WorkflowAssumption
<1>4. \A f : IsFrame(f) /\ f.rest # << >> => Head(f.rest) \in AnyJob
  BY DEF IsFrame
<1>5. 1 \in DOMAIN stack
  BY <1>1
<1>6. top.rest # << >> => job \in AnyJob /\ IsJob(job)
  BY <1>1, <1>2, <1>3, <1>4, <1>5 DEF job
<1>7. ASSUME top.kind # "top"
      PROVE  /\ Len(stack) >= 2 /\ Tail(stack) # << >> /\ Tail(stack)[1] = stack[2]
             /\ IsFrame(stack[2]) /\ Rests(top, stack[2])
             /\ Head(stack[2].rest) \in AnyJob /\ IsJob(Head(stack[2].rest))
  <2>1. Len(stack) >= 2 /\ 2 \in DOMAIN stack
    BY <1>1, <1>2, <1>5, <1>7
  <2>2. Rests(stack[1], stack[2]) /\ IsFrame(stack[2])
    <3>1. 1 # Len(stack) /\ 1 + 1 = 2
      BY <2>1
    <3> QED BY <1>2, <1>5, <2>1, <3>1
  <2>3. Head(stack[2].rest) \in AnyJob
    BY <1>4, <2>2 DEF Rests
  <2>4. IsStack(Tail(stack)) /\ Len(Tail(stack)) = Len(stack) - 1 /\ Tail(stack)[1] = stack[2]
    <3>1. 1 \in 1 .. Len(stack) - 1
      BY <1>1, <2>1
    <3> QED BY <1>1, <3>1, TailStack DEF TypeInv
  <2>5. Tail(stack) # << >>
    <3>1. PICK r : r = Tail(stack)
      OBVIOUS
    <3>2. IsStack(r) /\ Len(r) # 0
      BY <1>1, <2>1, <2>4, <3>1
    <3>3. r # << >>
      BY <3>2, StackDomain
    <3> QED BY <3>1, <3>3
  <2> QED BY <1>1, <1>3, <2>1, <2>2, <2>3, <2>4, <2>5
<1> QED BY <1>1, <1>2, <1>5, <1>6, <1>7

(* The end of a job.                                                       *)
LEMMA ReturnMoves ==
  ASSUME TypeInv, status = "running", NEW h, NEW v, NEW to, NEW k \in {1, 2},
         Len(stack) >= k, stack[k].rest # << >>,
         Return(h, v, to, IF k = 1 THEN stack ELSE Tail(stack))
  PROVE  (Ends \/ Moves(k)) /\ functions' = functions
<1> DEFINE frames == IF k = 1 THEN stack ELSE Tail(stack)
           set == IF to = << >> THEN [ok |-> TRUE, h |-> h] ELSE SetPath(h, frames[1].loc, to, v)
<1>1. Len(stack) \in Nat /\ Len(stack) >= 1 /\ stack # << >> /\ IsStack(stack)
  BY StackDomain DEF TypeInv
<1>2. CASE ~set.ok
  <2>1. Fail
    BY <1>2 DEF Return
  <2> QED BY <2>1 DEF Fail, Stop, Ends
<1>3. CASE set.ok
  <2>1. /\ stack' = <<After(frames[1])>> \o Tail(frames)
        /\ UNCHANGED <<program, functions, status, attempt, cancelled>>
    <3> HIDE DEF frames
    <3> QED BY <1>3 DEF Return, frames
  <2>2. CASE k = 1
    <3>1. stack' = <<After(stack[1])>> \o Tail(stack)
      BY <2>1, <2>2
    <3>2. /\ IsStack(stack') /\ stack' # << >> /\ Len(stack') = Len(stack) /\ stack'[1] = After(stack[1])
          /\ \A i \in 2 .. Len(stack) : stack'[i] = stack[i]
      BY <1>1, <3>1, ReplacedStack
    <3>3. Len(stack') = Len(stack) - (1 - 1) /\ \A i \in 2 .. Len(stack') : stack'[i] = stack[i + (1 - 1)]
      BY <1>1, <3>2
    <3>4. Moved(stack, stack', k)
      BY <2>2, <3>2, <3>3 DEF Moved
    <3> QED BY <2>1, <3>4 DEF Moves
  <2>3. CASE k = 2
    <3>1. frames = Tail(stack) /\ Tail(stack)[1] = stack[2]
      <4>1. 1 \in 1 .. Len(stack) - 1
        BY <1>1, <2>3
      <4> QED BY <1>1, <2>3, <4>1, TailStack
    <3>2. stack' = <<After(stack[2])>> \o Tail(Tail(stack))
      BY <2>1, <3>1
    <3>3. /\ IsStack(stack') /\ stack' # << >> /\ Len(stack') = Len(stack) - 1 /\ stack'[1] = After(stack[2])
          /\ \A i \in 2 .. Len(stack) - 1 : stack'[i] = stack[i + 1]
      BY <1>1, <2>3, <3>2, PoppedStack
    <3>4. Len(stack') = Len(stack) - (2 - 1) /\ \A i \in 2 .. Len(stack') : stack'[i] = stack[i + (2 - 1)]
      BY <1>1, <3>3
    <3>5. Moved(stack, stack', k)
      BY <2>3, <3>3, <3>4 DEF Moved
    <3> QED BY <2>1, <3>5 DEF Moves
  <2> QED BY <2>1, <2>2, <2>3
<1> HIDE DEF set
<1> QED BY <1>2, <1>3

LEMMA FailEnds ==
  ASSUME NEW outcome \in {"failed", "done", "crashed"}, Stop(outcome)
  PROVE  Ends /\ functions' = functions
BY DEF Stop, Ends

(* What a run may not reach: P, where neither variables nor defaults are.   *)
Safe(P) ==
  /\ Sound(heap, P) /\ CustomDoc \in DOMAIN heap \ P
  /\ \A f \in DOMAIN functions : \A i \in DOMAIN functions[f].defaults :
       Ref(heap, P, functions[f].defaults[i])

(* Where the jobs of a new block, of another round, of a function are from. *)
Opened(f) ==
  Pushes(f) /\ Range(f.rest) \subseteq SubJobs(job) \cup UNION {Range(functions[g].body) : g \in DOMAIN functions}
Looped(f) ==
  /\ Loops(f) /\ Len(stack) >= 2 /\ stack[2].rest # << >>
  /\ Range(f.rest) \subseteq SubJobs(Head(stack[2].rest))
Defined(name, fn) ==
  /\ functions' = Put(functions, name, fn) /\ IsFunction(fn)
  /\ stack[1].rest # << >> /\ Range(fn.body) \subseteq SubJobs(job)
Known == functions' = functions \/ \E name, fn : Defined(name, fn)

Running ==
  \/ SeeCancel \/ BadJob \/ Set \/ Get \/ Operators \/ If \/ EndIf \/ While \/ TestLoop
  \/ DefineFunction \/ ExecFunction \/ EndFunction \/ Call \/ EndWorkflow
Shaped == Known /\ (Ends \/ (\E k : Moves(k)) \/ (\E f : Opened(f)) \/ (\E f : Looped(f)))

LEMMA JobMoves ==
  ASSUME TypeInv, status = "running", top.rest # << >>, NEW h, NEW v, NEW to, Return(h, v, to, stack)
  PROVE  Shaped
<1>1. Return(h, v, to, IF 1 = 1 THEN stack ELSE Tail(stack))
  OBVIOUS
<1>2. Len(stack) >= 1 /\ stack[1].rest # << >>
  BY TopFacts
<1>3. (Ends \/ Moves(1)) /\ functions' = functions
  BY <1>1, <1>2, ReturnMoves
<1> QED BY <1>3 DEF Shaped, Known

LEMMA BlockMoves ==
  ASSUME TypeInv, status = "running", top.kind # "top",
         NEW h, NEW v, NEW to, Return(h, v, to, Tail(stack))
  PROVE  Shaped
<1>1. Return(h, v, to, IF 2 = 1 THEN stack ELSE Tail(stack))
  OBVIOUS
<1>2. Len(stack) >= 2 /\ stack[2].rest # << >>
  BY TopFacts DEF Rests
<1>3. (Ends \/ Moves(2)) /\ functions' = functions
  BY <1>1, <1>2, ReturnMoves
<1> QED BY <1>3 DEF Shaped, Known

LEMMA FailShaped ==
  ASSUME NEW outcome \in {"failed", "done", "crashed"}, Stop(outcome)
  PROVE  Shaped
BY FailEnds DEF Shaped, Known

LEMMA SimpleShaped ==
  ASSUME TypeInv, SeeCancel \/ BadJob \/ Set \/ Get \/ Operators \/ EndIf \/ EndFunction \/ Call \/ EndWorkflow
  PROVE  Shaped
<1>1. CASE SeeCancel
  BY <1>1, FailShaped DEF SeeCancel, Fail
<1>2. CASE BadJob
  BY <1>2, FailShaped DEF BadJob, Fail
<1>3. CASE Set
  <2>1. status = "running" /\ top.rest # << >>
    BY <1>3 DEF Set, AtJob
  <2>2. Fail \/ \E r : Return(r.h, r.v, job.to, stack)
    BY <1>3 DEF Set
  <2> QED BY <2>1, <2>2, JobMoves, FailShaped DEF Fail
<1>4. CASE Get
  <2>1. status = "running" /\ top.rest # << >>
    BY <1>4 DEF Get, AtJob
  <2>2. Fail \/ \E h, v : Return(h, v, job.to, stack)
    BY <1>4 DEF Get
  <2> QED BY <2>1, <2>2, JobMoves, FailShaped DEF Fail
<1>5. CASE Operators
  <2>1. status = "running" /\ top.rest # << >>
    BY <1>5 DEF Operators, AtJob
  <2>2. Fail \/ \E r : Return(heap, r.v, job.to, stack)
    BY <1>5 DEF Operators
  <2> QED BY <2>1, <2>2, JobMoves, FailShaped DEF Fail
<1>6. CASE EndIf
  <2>1. status = "running" /\ top.kind # "top"
    BY <1>6 DEF EndIf, AtEnd
  <2>2. Return(heap, Bool(top.n = 1), Head(stack[2].rest).to, Tail(stack))
    BY <1>6 DEF EndIf
  <2> QED BY <2>1, <2>2, BlockMoves
<1>7. CASE EndFunction
  <2>1. status = "running" /\ top.kind # "top"
    BY <1>7 DEF EndFunction, AtEnd
  <2>2. Fail \/ \E v : Return(heap, v, Head(stack[2].rest).to, Tail(stack))
    BY <1>7 DEF EndFunction
  <2> QED BY <2>1, <2>2, BlockMoves, FailShaped DEF Fail
<1>8. CASE Call
  <2>1. status = "running" /\ top.rest # << >>
    BY <1>8 DEF Call, AtJob
  <2>2. Fail \/ \E h, v : Return(h, v, job.to, stack)
    BY <1>8 DEF Call
  <2> QED BY <2>1, <2>2, JobMoves, FailShaped DEF Fail
<1>9. CASE EndWorkflow
  <2>1. PICK outcome \in {"done", "failed"} : Stop(outcome)
    BY <1>9 DEF EndWorkflow
  <2> QED BY <2>1, FailShaped
<1> QED BY <1>1, <1>2, <1>3, <1>4, <1>5, <1>6, <1>7, <1>8, <1>9

LEMMA BlockOf ==
  ASSUME NEW j, NEW s
  PROVE  /\ j.op = "if" /\ s \in {j.then, j.else} => Range(s) \subseteq SubJobs(j)
         /\ j.op \in {"while", "func"} => Range(j.body) \subseteq SubJobs(j)
<1>1. ASSUME j.op = "if", s \in {j.then, j.else} PROVE Range(s) \subseteq SubJobs(j)
  <2>1. Blocks(j) = <<j.then, j.else>>
    BY <1>1 DEF Blocks
  <2>2. \E i \in DOMAIN Blocks(j) : Blocks(j)[i] = s
    BY <1>1, <2>1
  <2> QED BY <2>2 DEF SubJobs
<1>2. ASSUME j.op \in {"while", "func"} PROVE Range(j.body) \subseteq SubJobs(j)
  <2>1. Blocks(j) = <<j.body>>
    BY <1>2 DEF Blocks
  <2>2. \E i \in DOMAIN Blocks(j) : Blocks(j)[i] = j.body
    BY <2>1
  <2> QED BY <2>2 DEF SubJobs
<1> QED BY <1>1, <1>2

LEMMA IfShaped ==
  ASSUME TypeInv, If
  PROVE  Shaped
<1>1. status = "running" /\ top.rest # << >> /\ job.op = "if"
  BY DEF If, AtJob
<1>2. PICK test : test = Test(heap, top.loc, job.value)
  OBVIOUS
<1> DEFINE block == IF test.holds THEN job.then ELSE job.else
           f == [Frame("block", block, top.loc, top.depth) EXCEPT !.n = IF test.holds THEN 1 ELSE 0]
<1>3. CASE ~test.ok
  <2>1. Fail
    BY <1>2, <1>3 DEF If
  <2> QED BY <2>1, FailShaped DEF Fail
<1>4. CASE test.ok
  <2>1. Push(heap, f)
    BY <1>2, <1>4 DEF If
  <2>2. IsJob(job) /\ block \in {job.then, job.else}
    BY <1>1, TopFacts
  <2>3. block \in Seq(AnyJob)
    BY <1>1, <2>2 DEF IsJob
  <2>4. Range(block) \subseteq SubJobs(job)
    BY <1>1, <2>2, BlockOf
  <2> HIDE DEF block
  <2>5. IsFrame(top) /\ top = stack[1] /\ top.depth <= MaxCallDepth
    BY <1>1, TopFacts
  <2>6. << >> \in Path /\ top.depth \in Nat
    BY <2>5 DEF Path, IsFrame
  <2>7. /\ f = [kind |-> "block", rest |-> block, loc |-> top.loc, depth |-> top.depth,
               n |-> IF test.holds THEN 1 ELSE 0, returnto |-> << >>, before |-> Empty, shared |-> {}]
    BY DEF Frame
  <2> HIDE DEF f
  <2>8. IsFrame(f) /\ f.kind = "block" /\ f.loc = top.loc /\ f.depth = top.depth /\ f.n <= 1 /\ f.rest = block
    BY <2>3, <2>6, <2>7 DEF IsFrame
  <2>9. f.n <= MaxLoop /\ f.depth <= MaxCallDepth
    BY <2>5, <2>8, WorkflowAssumption DEF IsFrame
  <2>10. Rests(f, stack[1])
    BY <1>1, <2>5, <2>6, <2>8 DEF Rests, Opens, Calls, job
  <2>11. Opened(f)
    BY <2>1, <2>4, <2>8, <2>9, <2>10 DEF Opened, Pushes, Push
  <2>12. functions' = functions
    BY <2>1 DEF Push
  <2> QED BY <2>11, <2>12 DEF Shaped, Known
<1> QED BY <1>3, <1>4

LEMMA WhileShaped ==
  ASSUME TypeInv, While
  PROVE  Shaped
<1>1. status = "running" /\ top.rest # << >> /\ job.op = "while"
  BY DEF While, AtJob
<1> DEFINE f == Frame("loop", << >>, top.loc, top.depth)
<1>2. Push(heap, f)
  BY DEF While
<1>3. IsFrame(top) /\ top = stack[1] /\ top.depth <= MaxCallDepth
  BY <1>1, TopFacts
<1>4. top.depth \in Nat /\ << >> \in Seq(AnyJob)
  BY <1>3 DEF IsFrame
<1>5. IsFrame(f) /\ f.kind = "loop" /\ f.loc = top.loc /\ f.depth = top.depth /\ f.n = 0 /\ f.rest = << >>
  <2>1. f = [kind |-> "loop", rest |-> << >>, loc |-> top.loc, depth |-> top.depth, n |-> 0,
             returnto |-> << >>, before |-> Empty, shared |-> {}]
    BY DEF Frame
  <2>2. << >> \in Path
    BY DEF Path
  <2> HIDE DEF f
  <2> QED BY <1>4, <2>1, <2>2 DEF IsFrame
<1> HIDE DEF f
<1>6. f.n <= MaxLoop /\ f.depth <= MaxCallDepth
  BY <1>3, <1>5, WorkflowAssumption
<1>7. Rests(f, stack[1])
  BY <1>1, <1>3, <1>4, <1>5 DEF Rests, Opens, Calls, job
<1>8. Range(f.rest) = {}
  BY <1>5 DEF Range
<1>9. Opened(f)
  BY <1>2, <1>5, <1>6, <1>7, <1>8 DEF Opened, Pushes, Push
<1>10. functions' = functions
  BY <1>2 DEF Push
<1> QED BY <1>9, <1>10 DEF Shaped, Known

LEMMA TestLoopShaped ==
  ASSUME TypeInv, TestLoop
  PROVE  Shaped
<1>1. status = "running" /\ top.kind = "loop"
  BY DEF TestLoop, AtEnd
<1>2. PICK w : w = Head(stack[2].rest)
  OBVIOUS
<1>3. PICK test : test = Test(heap, top.loc, w.value)
  OBVIOUS
<1> DEFINE f == [top EXCEPT !.rest = w.body, !.n = @ + 1]
<1>4. (CASE ~test.ok \/ (test.holds /\ top.n >= MaxLoop) -> Fail
         [] test.ok /\ ~test.holds -> Return(heap, Num(top.n), w.to, Tail(stack))
         [] test.ok /\ test.holds /\ top.n < MaxLoop ->
              /\ stack' = <<f>> \o Tail(stack)
              /\ UNCHANGED <<program, heap, functions, status, attempt, cancelled>>)
  BY <1>2, <1>3 DEF TestLoop
<1>5. /\ IsFrame(top) /\ top = stack[1] /\ top.n <= MaxLoop
      /\ Len(stack) >= 2 /\ Rests(top, stack[2]) /\ IsJob(w)
  BY <1>1, <1>2, TopFacts
<1>6. top.n \in Nat /\ MaxLoop \in Nat
  BY <1>5, WorkflowAssumption DEF IsFrame
<1>7. CASE Fail
  BY <1>7, FailShaped DEF Fail
<1>8. CASE Return(heap, Num(top.n), w.to, Tail(stack))
  BY <1>1, <1>2, <1>8, BlockMoves
<1>9. CASE /\ top.n < MaxLoop /\ stack' = <<f>> \o Tail(stack)
           /\ UNCHANGED <<program, heap, functions, status, attempt, cancelled>>
  <2>1. w.op = "while"
    BY <1>1, <1>2, <1>5 DEF Rests, Opens
  <2>2. w.body \in Seq(AnyJob)
    BY <1>5, <2>1 DEF IsJob
  <2>3. Range(w.body) \subseteq SubJobs(w)
    BY <2>1, BlockOf
  <2>4. f = [kind |-> top.kind, rest |-> w.body, loc |-> top.loc, depth |-> top.depth, n |-> top.n + 1,
             returnto |-> top.returnto, before |-> top.before, shared |-> top.shared]
    <3>1. DOMAIN top = FrameFields
      BY <1>5 DEF IsFrame, FrameFields
    <3>2. f = [x \in FrameFields |-> f[x]]
      BY <3>1
    <3>3. /\ f.rest = w.body /\ f.n = top.n + 1 /\ f.kind = top.kind /\ f.loc = top.loc
          /\ f.depth = top.depth
      BY <3>1 DEF FrameFields
    <3>4. f.returnto = top.returnto /\ f.before = top.before /\ f.shared = top.shared
      BY <3>1 DEF FrameFields
    <3> HIDE DEF f
    <3> QED BY <3>2, <3>3, <3>4, FrameByFields
  <2> HIDE DEF f
  <2>5. /\ IsFrame(f) /\ f.kind = top.kind /\ f.loc = top.loc /\ f.depth = top.depth
        /\ f.n = top.n + 1 /\ f.rest = w.body
    BY <1>5, <1>6, <2>2, <2>4 DEF IsFrame
  <2>6. f.n <= MaxLoop
    BY <1>6, <1>9, <2>5
  <2>7. Loops(f)
    BY <1>1, <1>5, <1>9, <2>5, <2>6 DEF Loops
  <2>8. Looped(f)
    BY <1>2, <1>5, <2>3, <2>5, <2>7 DEF Looped, Rests
  <2> QED BY <1>9, <2>8 DEF Shaped, Known
<1>10. ~(top.n >= MaxLoop) <=> top.n < MaxLoop
  BY <1>6
<1> HIDE DEF f
<1>11. \/ Fail \/ Return(heap, Num(top.n), w.to, Tail(stack))
       \/ /\ top.n < MaxLoop /\ stack' = <<f>> \o Tail(stack)
          /\ UNCHANGED <<program, heap, functions, status, attempt, cancelled>>
  BY <1>4, <1>10, Zenon
<1> QED BY <1>7, <1>8, <1>9, <1>11

LEMMA DefineShaped ==
  ASSUME TypeInv, DefineFunction, NEW P, Safe(P), top.loc \in DOMAIN heap \ P
  PROVE  Shaped
<1>1. status = "running" /\ top.rest # << >> /\ job.op = "func"
  BY DEF DefineFunction, AtJob
<1>2. /\ IsFrame(top) /\ top = stack[1] /\ IsJob(job) /\ Len(stack) >= 1 /\ Len(stack) \in Nat
      /\ stack # << >> /\ IsStack(stack)
  BY <1>1, TopFacts DEF TypeInv
<1>3. IsFunction(job) /\ job.name \in Path /\ Payloads(job.defaults)
  BY <1>1, <1>2 DEF IsJob
<1>4. PICK name : name = IF job.name # << >> THEN job.name ELSE job.to
  OBVIOUS
<1>5. PICK r : r = ResolveAll(heap, top.loc, job.defaults)
  OBVIOUS
<1>6. PICK set : set = IF job.to = << >> THEN [ok |-> TRUE, h |-> r.h]
                       ELSE SetPath(r.h, top.loc, job.to, Str("name"))
  OBVIOUS
<1> DEFINE fn == [kind |-> job.kind, names |-> job.names, defaults |-> r.vs,
                  body |-> job.body, returnto |-> job.returnto]
<1>7. IF ~r.ok \/ name = << >> THEN Fail
      ELSE /\ functions' = Put(functions, name, fn)
           /\ heap' = set.h
           /\ status' = IF set.ok THEN "running" ELSE "failed"
           /\ stack' = IF set.ok THEN <<After(top)>> \o Tail(stack) ELSE << >>
           /\ UNCHANGED <<program, attempt, cancelled>>
  BY <1>4, <1>5, <1>6 DEF DefineFunction
<1>8. Refs(r.h, P, r.vs) /\ Len(r.vs) = Len(job.defaults)
  BY <1>3, <1>5, ResolveAllExtends DEF Safe
<1>9. IsFunction(fn)
  <2>1. DOMAIN r.vs = 1 .. Len(r.vs)
    BY <1>8, RefsIndex
  <2>2. DOMAIN r.vs = DOMAIN job.names
    BY <1>3, <1>8, <2>1 DEF Payloads, IsFunction
  <2> QED BY <1>3, <2>2 DEF IsFunction
<1>10. Range(fn.body) \subseteq SubJobs(job)
  BY <1>1, BlockOf
<1> HIDE DEF fn
<1>11. CASE ~r.ok \/ name = << >>
  BY <1>7, <1>11, FailShaped DEF Fail
<1>12. CASE ~(~r.ok \/ name = << >>)
  <2>1. Defined(name, fn)
    BY <1>1, <1>2, <1>7, <1>9, <1>10, <1>12 DEF Defined
  <2>2. CASE set.ok
    <3>1. stack' = <<After(stack[1])>> \o Tail(stack) /\ UNCHANGED <<program, status, attempt>>
      BY <1>1, <1>2, <1>7, <1>12, <2>2
    <3>2. /\ IsStack(stack') /\ stack' # << >> /\ Len(stack') = Len(stack) /\ stack'[1] = After(stack[1])
          /\ \A i \in 2 .. Len(stack) : stack'[i] = stack[i]
      BY <1>2, <3>1, ReplacedStack
    <3>3. Len(stack') = Len(stack) - (1 - 1) /\ \A i \in 2 .. Len(stack') : stack'[i] = stack[i + (1 - 1)]
      BY <1>2, <3>2
    <3>4. Moved(stack, stack', 1)
      BY <1>1, <1>2, <3>2, <3>3 DEF Moved
    <3> QED BY <2>1, <3>1, <3>4 DEF Moves, Shaped, Known
  <2>3. CASE ~set.ok
    <3>1. Ends
      BY <1>7, <1>12, <2>3 DEF Ends
    <3> QED BY <2>1, <3>1 DEF Shaped, Known
  <2> QED BY <2>2, <2>3
<1> QED BY <1>11, <1>12

(* What ExecFunction does when it calls the function.                       *)
CallOf(args, base, copies) ==
  LET child == <<Fresh(args.h), << >> >>
      fn == functions[job.func]
      bound == Bind(fn, job, copies.vs)
  IN /\ args = ResolveAll(heap, top.loc, job.args) /\ base = Clone(args.h, top.loc)
     /\ copies = CopyAll(base, args.vs)
     /\ job.func \in DOMAIN functions /\ bound.ok /\ top.depth + 1 <= MaxCallDepth
     /\ Push(Put(copies.h, child, Overlay(bound.m, copies.h[child])),
             [Frame("func", fn.body, child, top.depth + 1) EXCEPT
                !.returnto = fn.returnto, !.before = args.h,
                !.shared = Reach(heap, {CustomDoc} \cup Addresses(functions))])

LEMMA ExecCases ==
  ASSUME TypeInv, ExecFunction
  PROVE  Fail \/ Stop("crashed") \/ \E args, base, copies : CallOf(args, base, copies)
<1>1. PICK args : args = ResolveAll(heap, top.loc, job.args)
  OBVIOUS
<1>2. PICK base : base = Clone(args.h, top.loc)
  OBVIOUS
<1>3. PICK copies : copies = CopyAll(base, args.vs)
  OBVIOUS
<1>4. PICK child : child = <<Fresh(args.h), << >> >>
  OBVIOUS
<1>5. PICK bound : bound = Bind(functions[job.func], job, copies.vs)
  OBVIOUS
<1>6. PICK h : h = Put(copies.h, child, Overlay(bound.m, copies.h[child]))
  OBVIOUS
<1> DEFINE f == [Frame("func", functions[job.func].body, child, top.depth + 1) EXCEPT
                   !.returnto = functions[job.func].returnto, !.before = args.h,
                   !.shared = Reach(heap, {CustomDoc} \cup Addresses(functions))]
<1>7. (CASE ~args.ok \/ job.func \notin DOMAIN functions -> Fail
         [] args.ok /\ job.func \in DOMAIN functions /\ copies.cyclic -> Stop("crashed")
         [] OTHER -> IF ~bound.ok \/ top.depth + 1 > MaxCallDepth THEN Fail ELSE Push(h, f))
  BY <1>1, <1>2, <1>3, <1>4, <1>5, <1>6 DEF ExecFunction
<1>8. IsFrame(top)
  BY TopFacts DEF ExecFunction, AtJob
<1>9. ~(top.depth + 1 > MaxCallDepth) => top.depth + 1 <= MaxCallDepth
  BY <1>8, WorkflowAssumption DEF IsFrame
<1> HIDE DEF f
<1>10. \/ Fail \/ Stop("crashed")
       \/ job.func \in DOMAIN functions /\ bound.ok /\ top.depth + 1 <= MaxCallDepth /\ Push(h, f)
  BY <1>7, <1>9, Zenon
<1>11. CASE job.func \in DOMAIN functions /\ bound.ok /\ top.depth + 1 <= MaxCallDepth /\ Push(h, f)
  BY <1>1, <1>2, <1>3, <1>4, <1>5, <1>6, <1>11 DEF CallOf, f
<1> QED BY <1>10, <1>11

LEMMA ExecShaped ==
  ASSUME TypeInv, ExecFunction
  PROVE  Shaped
<1>1. status = "running" /\ top.rest # << >> /\ job.op = "exec"
  BY DEF ExecFunction, AtJob
<1>2. IsFrame(top) /\ top = stack[1]
  BY <1>1, TopFacts
<1>3. CASE Fail \/ Stop("crashed")
  BY <1>3, FailShaped DEF Fail
<1>4. CASE \E args, base, copies : CallOf(args, base, copies)
  <2>1. PICK args, base, copies : CallOf(args, base, copies)
    BY <1>4
  <2>2. PICK fn : fn = functions[job.func]
    OBVIOUS
  <2>3. PICK child : child = <<Fresh(args.h), << >> >>
    OBVIOUS
  <2>4. PICK shared : shared = Reach(heap, {CustomDoc} \cup Addresses(functions))
    OBVIOUS
  <2> DEFINE f == [Frame("func", fn.body, child, top.depth + 1) EXCEPT
                     !.returnto = fn.returnto, !.before = args.h, !.shared = shared]
  <2>5. /\ job.func \in DOMAIN functions /\ top.depth + 1 <= MaxCallDepth
        /\ \E h : Push(h, f)
    BY <2>1, <2>2, <2>3, <2>4 DEF CallOf
  <2>6. IsFunction(fn)
    BY <2>2, <2>5 DEF TypeInv
  <2>7. f = [kind |-> "func", rest |-> fn.body, loc |-> child, depth |-> top.depth + 1,
             n |-> 0, returnto |-> fn.returnto, before |-> args.h, shared |-> shared]
    <3> DEFINE u == Frame("func", fn.body, child, top.depth + 1)
    <3>1. /\ DOMAIN u = FrameFields
          /\ u.kind = "func" /\ u.rest = fn.body /\ u.loc = child /\ u.depth = top.depth + 1 /\ u.n = 0
      BY DEF Frame, FrameFields
    <3> HIDE DEF u
    <3>2. f = [x \in FrameFields |-> f[x]]
      BY <3>1 DEF u
    <3>3. f = [u EXCEPT !.returnto = fn.returnto, !.before = args.h, !.shared = shared]
      BY DEF u
    <3>4. f.returnto = fn.returnto /\ f.before = args.h /\ f.shared = shared
      BY <3>1, <3>3 DEF FrameFields
    <3>5. f.kind = u.kind /\ f.rest = u.rest /\ f.loc = u.loc
      BY <3>1, <3>3 DEF FrameFields
    <3>6. f.depth = u.depth /\ f.n = u.n
      BY <3>1, <3>3 DEF FrameFields
    <3> HIDE DEF f
    <3> QED BY <3>1, <3>2, <3>4, <3>5, <3>6, FrameByFields
  <2> HIDE DEF f
  <2>8. top.depth \in Nat
    BY <1>2 DEF IsFrame
  <2>9. /\ IsFrame(f) /\ f.kind = "func" /\ f.depth = top.depth + 1 /\ f.n = 0 /\ f.rest = fn.body
    BY <2>6, <2>7, <2>8 DEF IsFrame, IsFunction
  <2>10. f.n <= MaxLoop /\ f.depth <= MaxCallDepth
    BY <2>5, <2>9, WorkflowAssumption
  <2>11. Rests(f, stack[1])
    BY <1>1, <1>2, <2>9 DEF Rests, Opens, Calls, job
  <2>12. Range(f.rest) \subseteq UNION {Range(functions[g].body) : g \in DOMAIN functions}
    BY <2>2, <2>5, <2>9
  <2>13. Opened(f) /\ functions' = functions
    BY <2>5, <2>9, <2>10, <2>11, <2>12 DEF Opened, Pushes, Push
  <2> QED BY <2>13 DEF Shaped, Known
<1> QED BY <1>3, <1>4, ExecCases

LEMMA RunningShaped ==
  ASSUME TypeInv, Running, NEW P, Safe(P), top.loc \in DOMAIN heap \ P
  PROVE  Shaped
BY SimpleShaped, IfShaped, WhileShaped, TestLoopShaped, DefineShaped, ExecShaped DEF Running

LEMMA ShapedTyped ==
  ASSUME TypeInv, status = "running", Shaped
  PROVE  TypeInv'
<1>1. \A f \in DOMAIN functions' : IsFunction(functions'[f])
  <2>1. CASE functions' = functions
    BY <2>1 DEF TypeInv
  <2>2. CASE \E name, fn : Defined(name, fn)
    <3>1. PICK name, fn : Defined(name, fn)
      BY <2>2
    <3>2. functions' = Put(functions, name, fn) /\ IsFunction(fn)
      BY <3>1 DEF Defined
    <3>3. PICK g : g = Put(functions, name, fn)
      OBVIOUS
    <3>4. /\ DOMAIN g = DOMAIN functions \cup {name} /\ g[name] = fn
          /\ \A z \in DOMAIN functions \ {name} : g[z] = functions[z]
      BY <3>3 DEF Put
    <3>5. \A f \in DOMAIN g : g[f] = fn \/ (f \in DOMAIN functions /\ g[f] = functions[f])
      BY <3>4
    <3>6. \A f \in DOMAIN functions : IsFunction(functions[f])
      BY DEF TypeInv
    <3>7. \A f \in DOMAIN g : IsFunction(g[f])
      BY <3>2, <3>5, <3>6
    <3> QED BY <3>2, <3>3, <3>7
  <2> QED BY <2>1, <2>2 DEF Shaped, Known
<1>2. CASE Ends
  BY <1>1, <1>2, EndsTyped
<1>3. CASE \E k : Moves(k)
  BY <1>1, <1>3, MovesTyped
<1>4. CASE \E f : Opened(f)
  BY <1>4, PushesTyped DEF Opened
<1>5. CASE \E f : Looped(f)
  BY <1>5, LoopsTyped DEF Looped
<1> QED BY <1>2, <1>3, <1>4, <1>5 DEF Shaped

LEMMA BeginTyped ==
  ASSUME TypeInv, BeginAttempt
  PROVE  TypeInv' /\ (status' # "running" => UNCHANGED <<heap, functions, stack>>)
<1>1. PICK live : live = Live
  OBVIOUS
<1>2. Begin(live, Clone(live, LocalDoc), attempt + 1)
  BY <1>1 DEF BeginAttempt
<1>3. attempt \in Nat /\ attempt < MaxAttempts /\ status = "ready" /\ stack = << >>
  BY <1>2 DEF Begin, TypeInv, Counted
<1>4. attempt' \in Nat /\ attempt' <= MaxAttempts
  BY <1>2, <1>3, WorkflowAssumption DEF Begin
<1>5. CASE cancelled \/ ~Valid(program)
  <2>1. status' = "failed" /\ UNCHANGED <<program, heap, functions, stack, cancelled>>
    BY <1>2, <1>5 DEF Begin
  <2>2. (IsStack(stack))' /\ (Linked(stack))'
    BY <2>1 DEF TypeInv, IsStack, Linked
  <2> QED BY <1>3, <1>4, <2>1, <2>2 DEF TypeInv, Counted
<1>6. CASE ~(cancelled \/ ~Valid(program))
  <2> DEFINE f == Frame("top", program.jobs, <<Fresh(live), << >> >>, 0)
  <2>1. /\ status' = "running" /\ stack' = <<f>> /\ UNCHANGED <<program, cancelled>>
        /\ functions' = IF program.stored THEN functions ELSE Empty
    BY <1>2, <1>6 DEF Begin
  <2>2. program.jobs \in Seq(AnyJob)
    BY WorkflowAssumption DEF TypeInv
  <2>3. f = [kind |-> "top", rest |-> program.jobs, loc |-> <<Fresh(live), << >> >>, depth |-> 0, n |-> 0,
             returnto |-> << >>, before |-> Empty, shared |-> {}]
    BY DEF Frame
  <2> HIDE DEF f
  <2>4. << >> \in Path
    BY DEF Path
  <2>5. IsFrame(f) /\ f.kind = "top" /\ f.depth = 0 /\ f.n = 0
    BY <2>2, <2>3, <2>4 DEF IsFrame
  <2>6. /\ <<f>> \in Seq({f}) /\ Len(<<f>>) = 1 /\ DOMAIN <<f>> = {1} /\ <<f>>[1] = f /\ <<f>> # << >>
    OBVIOUS
  <2>7. f.depth <= MaxCallDepth /\ f.n <= MaxLoop
    BY <2>5, WorkflowAssumption
  <2>8. IsStack(<<f>>) /\ Linked(<<f>>)
    BY <2>5, <2>6, <2>7 DEF IsStack, Linked
  <2>9. (IsStack(stack))' /\ (Linked(stack))'
    BY <2>1, <2>8 DEF IsStack, Linked
  <2>10. \A g \in DOMAIN functions' : IsFunction(functions'[g])
    <3>1. DOMAIN Empty = {}
      BY DEF Empty
    <3> QED BY <2>1, <3>1 DEF TypeInv
  <2> QED BY <1>4, <2>1, <2>6, <2>9, <2>10 DEF TypeInv, Counted
<1> QED BY <1>5, <1>6

(* Steps between the attempts, and the cancellation, leave the run alone.   *)
LEMMA OthersTyped ==
  ASSUME TypeInv, Retry \/ Cancel \/ Terminated \/ UNCHANGED vars
  PROVE  TypeInv' /\ UNCHANGED <<program, heap, functions, stack>>
<1>1. UNCHANGED <<program, heap, functions, stack>>
  BY DEF Retry, Cancel, Terminated, vars
<1>2. (IsStack(stack))' /\ (Linked(stack))'
  BY <1>1 DEF TypeInv, IsStack, Linked
<1>3. Counted' /\ ((status = "running")' <=> stack # << >>)
  <2>1. CASE Retry
    <3>1. attempt \in Nat /\ attempt < MaxAttempts
      BY <2>1 DEF Retry, TypeInv, Counted
    <3> QED BY <2>1, <3>1 DEF Retry, TypeInv, Counted
  <2>2. CASE Cancel
    BY <2>2 DEF Cancel, TypeInv, Counted
  <2>3. CASE Terminated \/ UNCHANGED vars
    BY <2>3 DEF Terminated, vars, TypeInv, Counted
  <2> QED BY <2>1, <2>2, <2>3
<1> QED BY <1>1, <1>2, <1>3 DEF TypeInv

(***************************************************************************)
(* Validation: the jobs that a run comes to are those that Validate saw.   *)
(***************************************************************************)
LEMMA LevelFacts ==
  ASSUME NEW jobs
  PROVE  /\ Levels(jobs)[0] = Range(jobs)
         /\ \A d \in Nat : d < Nesting =>
              Levels(jobs)[d + 1] = UNION {SubJobs(j) : j \in {i \in Levels(jobs)[d] : ~i.padded}}
<1> DEFINE first == Range(jobs)
           next(V, n) == UNION {SubJobs(j) : j \in {i \in V : ~i.padded}}
           C[d \in 0 .. Nesting] ==
             IF d = 0 THEN Range(jobs)
             ELSE UNION {SubJobs(j) : j \in {i \in C[d - 1] : ~i.padded}}
<1>1. Nesting \in Nat
  BY NestingAssumption
<1>2. \E f : f = [n \in 0 .. Nesting |-> IF n = 0 THEN first ELSE next(f[n - 1], n)]
  <2> DEFINE S == {m \in Nat : \E f : f = [n \in 0 .. m |-> IF n = 0 THEN first
                                                    ELSE next(f[n - 1], n)]}
  <2> HIDE DEF first, next
  <2>1. 0 \in S
    <3> DEFINE f == [n \in 0 .. 0 |-> first]
    <3>1. f = [n \in 0 .. 0 |-> IF n = 0 THEN first ELSE next(f[n - 1], n)]
      OBVIOUS
    <3> QED BY <3>1
  <2>2. ASSUME NEW m \in Nat, m \in S PROVE m + 1 \in S
    <3>1. PICK f : f = [n \in 0 .. m |-> IF n = 0 THEN first ELSE next(f[n - 1], n)]
      BY <2>2
    <3> DEFINE g == [n \in 0 .. m + 1 |-> IF n = m + 1 THEN next(f[m], m + 1) ELSE f[n]]
    <3>2. ASSUME NEW n \in 0 .. m + 1
          PROVE  g[n] = IF n = 0 THEN first ELSE next(g[n - 1], n)
      <4>1. CASE n = m + 1
        BY <4>1
      <4>2. CASE n \in 0 .. m
        <5>1. g[n] = f[n]
          BY <4>2
        <5>2. n # 0 => n - 1 \in 0 .. m /\ g[n - 1] = f[n - 1]
          BY <4>2
        <5>3. f[n] = IF n = 0 THEN first ELSE next(f[n - 1], n)
          BY <3>1, <4>2
        <5> HIDE DEF g
        <5> QED BY <5>1, <5>2, <5>3
      <4> QED BY <4>1, <4>2
    <3>3. g = [n \in 0 .. m + 1 |-> IF n = 0 THEN first ELSE next(g[n - 1], n)]
      BY <3>2
    <3> HIDE DEF g
    <3> QED BY <3>3
  <2>3. Nat \subseteq S
    <3> HIDE DEF S
    <3> QED BY <2>1, <2>2, Induction
  <2> QED BY <1>1, <2>3
<1>3. C = [n \in 0 .. Nesting |-> IF n = 0 THEN first ELSE next(C[n - 1], n)]
  BY <1>2
<1>4. Levels(jobs) = C
  BY DEF Levels
<1> HIDE DEF C
<1>5. C[0] = first
  <2> HIDE DEF first, next
  <2> QED BY <1>1, <1>3
<1>6. ASSUME NEW d \in Nat, d < Nesting PROVE C[d + 1] = next(C[d], d + 1)
  <2>1. d + 1 \in 0 .. Nesting /\ d + 1 # 0 /\ (d + 1) - 1 = d
    BY <1>1, <1>6
  <2>2. C[d + 1] = IF d + 1 = 0 THEN first ELSE next(C[(d + 1) - 1], d + 1)
    <3> HIDE DEF first, next
    <3> QED BY <1>3, <2>1
  <2> HIDE DEF first, next
  <2> QED BY <2>1, <2>2
<1> QED BY <1>4, <1>5, <1>6

LEMMA CheckedClosed ==
  ASSUME NEW p \in Programs, Unpadded(p)
  PROVE  /\ \A j \in Checked(p) : SubJobs(j) \subseteq Checked(p)
         /\ \A jobs \in Bodies(p) : Range(jobs) \subseteq Checked(p)
<1>0. Nesting \in Nat
  BY NestingAssumption
<1>1. ASSUME NEW jobs \in Bodies(p) PROVE Range(jobs) \subseteq Checked(p)
  <2>1. Levels(jobs)[0] = Range(jobs) /\ 0 \in 0 .. Nesting
    BY <1>0, LevelFacts
  <2> QED BY <2>1 DEF Checked
<1>2. ASSUME NEW j \in Checked(p) PROVE SubJobs(j) \subseteq Checked(p)
  <2>1. PICK jobs \in Bodies(p), d \in 0 .. Nesting : j \in Levels(jobs)[d]
    BY DEF Checked
  <2>2. CASE d = Nesting
    BY <2>1, <2>2, NestingAssumption
  <2>3. CASE d # Nesting
    <3>1. d \in Nat /\ d < Nesting /\ d + 1 \in 0 .. Nesting
      BY <1>0, <2>3
    <3>2. ~j.padded
      BY DEF Unpadded
    <3>3. SubJobs(j) \subseteq Levels(jobs)[d + 1]
      BY <2>1, <3>1, <3>2, LevelFacts
    <3> QED BY <3>1, <3>3 DEF Checked
  <2> QED BY <2>2, <2>3
<1> QED BY <1>1, <1>2

JobsInv ==
  Unpadded(program) =>
    /\ \A i \in DOMAIN stack : Range(stack[i].rest) \subseteq Checked(program)
    /\ \A f \in DOMAIN functions : Range(functions[f].body) \subseteq Checked(program)
    /\ stack # << >> => Valid(program)

LEMMA InitJobs ==
  ASSUME Init
  PROVE  JobsInv
<1> SUFFICES ASSUME Unpadded(program)
             PROVE  /\ \A i \in DOMAIN stack : Range(stack[i].rest) \subseteq Checked(program)
                    /\ \A f \in DOMAIN functions : Range(functions[f].body) \subseteq Checked(program)
                    /\ stack # << >> => Valid(program)
  BY DEF JobsInv
<1>1. program \in Programs /\ functions = program.functions /\ stack = << >>
  BY DEF Init
<1>2. \A f \in DOMAIN functions : functions[f].body \in Bodies(program)
  BY <1>1 DEF Bodies
<1>3. \A jobs \in Bodies(program) : Range(jobs) \subseteq Checked(program)
  BY <1>1, CheckedClosed
<1> QED BY <1>1, <1>2, <1>3

(* The jobs that are still to do after a job, and after a block opens.      *)
LEMMA TailRange ==
  ASSUME NEW s \in Seq(AnyJob), s # << >>
  PROVE  Range(Tail(s)) \subseteq Range(s) /\ Head(s) \in Range(s)
<1>1. Tail(s) \in Seq(AnyJob) /\ Len(s) \in Nat /\ Len(s) # 0 /\ DOMAIN s = 1 .. Len(s)
  OBVIOUS
<1>2. /\ DOMAIN Tail(s) = 1 .. Len(s) - 1
      /\ \A i \in 1 .. Len(s) - 1 : Tail(s)[i] = s[i + 1]
  OBVIOUS
<1>3. PICK r : r = Tail(s)
  OBVIOUS
<1>4. \A i \in DOMAIN r : i + 1 \in DOMAIN s /\ r[i] = s[i + 1]
  BY <1>1, <1>2, <1>3
<1>5. Head(s) = s[1] /\ 1 \in DOMAIN s
  BY <1>1
<1> QED BY <1>3, <1>4, <1>5 DEF Range

LEMMA ShapedJobs ==
  ASSUME TypeInv, JobsInv, status = "running", Shaped
  PROVE  JobsInv'
<1> DEFINE K == Checked(program)
<1>1. program' = program
  BY DEF Shaped, Ends, Moves, Opened, Pushes, Looped, Loops
<1> SUFFICES ASSUME Unpadded(program)
             PROVE  /\ \A i \in DOMAIN stack' : Range(stack'[i].rest) \subseteq K
                    /\ \A f \in DOMAIN functions' : Range(functions'[f].body) \subseteq K
                    /\ stack' # << >> => Valid(program)
  BY <1>1 DEF JobsInv
<1>2. /\ program \in Programs /\ IsStack(stack) /\ stack # << >>
      /\ \A i \in DOMAIN stack : IsFrame(stack[i])
      /\ Len(stack) \in Nat /\ DOMAIN stack = 1 .. Len(stack)
  BY StackDomain DEF TypeInv, Linked
<1>3. /\ \A i \in DOMAIN stack : Range(stack[i].rest) \subseteq K
      /\ \A f \in DOMAIN functions : Range(functions[f].body) \subseteq K
      /\ Valid(program)
  BY <1>2 DEF JobsInv
<1>4. \A j \in K : SubJobs(j) \subseteq K
  BY <1>2, CheckedClosed
<1> HIDE DEF K
<1>5. ASSUME NEW i \in DOMAIN stack, stack[i].rest # << >>
      PROVE  Head(stack[i].rest) \in K /\ SubJobs(Head(stack[i].rest)) \subseteq K
             /\ Range(Tail(stack[i].rest)) \subseteq K
  BY <1>2, <1>3, <1>4, <1>5, TailRange DEF IsFrame
<1>6. top = stack[1] /\ 1 \in DOMAIN stack
  BY TopFacts, <1>2
<1>7. \A f \in DOMAIN functions' : Range(functions'[f].body) \subseteq K
  <2>1. CASE functions' = functions
    BY <1>3, <2>1
  <2>2. CASE \E name, fn : Defined(name, fn)
    <3>1. PICK name, fn : Defined(name, fn)
      BY <2>2
    <3>2. functions' = Put(functions, name, fn) /\ Range(fn.body) \subseteq K
      BY <1>5, <1>6, <3>1 DEF Defined, job
    <3>3. PICK g : g = Put(functions, name, fn)
      OBVIOUS
    <3>4. /\ DOMAIN g = DOMAIN functions \cup {name} /\ g[name] = fn
          /\ \A z \in DOMAIN functions \ {name} : g[z] = functions[z]
      BY <3>3 DEF Put
    <3>5. \A f \in DOMAIN g : g[f] = fn \/ (f \in DOMAIN functions /\ g[f] = functions[f])
      BY <3>4
    <3>6. \A f \in DOMAIN g : Range(g[f].body) \subseteq K
      BY <1>3, <3>2, <3>5
    <3> QED BY <3>2, <3>3, <3>6
  <2> QED BY <2>1, <2>2 DEF Shaped, Known
<1>8. \A i \in DOMAIN stack' : Range(stack'[i].rest) \subseteq K
  <2>1. CASE Ends
    <3>1. DOMAIN stack' = {}
      BY <2>1 DEF Ends
    <3> QED BY <3>1
  <2>2. CASE \E k : Moves(k)
    <3>1. PICK k : Moved(stack, stack', k)
      BY <2>2 DEF Moves
    <3>2. /\ k \in {1, 2} /\ k \in DOMAIN stack /\ stack[k].rest # << >>
          /\ IsStack(stack') /\ Len(stack') = Len(stack) - (k - 1) /\ stack'[1] = After(stack[k])
          /\ \A i \in 2 .. Len(stack') : stack'[i] = stack[i + (k - 1)]
      BY <1>2, <3>1 DEF Moved
    <3>3. PICK t : t = stack'
      OBVIOUS
    <3>4. DOMAIN t = 1 .. Len(t)
      BY <3>2, <3>3, StackDomain
    <3>5. ASSUME NEW i \in DOMAIN t PROVE Range(t[i].rest) \subseteq K
      <4>1. CASE i = 1
        <5>1. t[i].rest = Tail(stack[k].rest)
          BY <1>2, <3>2, <3>3, <4>1, AfterFrame
        <5> QED BY <1>5, <3>2, <5>1
      <4>2. CASE i # 1
        <5>1. i \in 2 .. Len(t) /\ i + (k - 1) \in DOMAIN stack
          BY <1>2, <3>2, <3>3, <3>4, <4>2
        <5>2. t[i] = stack[i + (k - 1)]
          BY <3>2, <3>3, <5>1
        <5> QED BY <1>3, <5>1, <5>2
      <4> QED BY <4>1, <4>2
    <3> QED BY <3>3, <3>5
  <2>3. CASE \E f : Opened(f)
    <3>1. PICK f : Opened(f)
      BY <2>3
    <3>2. stack' = <<f>> \o stack /\ stack[1].rest # << >>
      BY <3>1 DEF Opened, Pushes, Rests
    <3>3. Range(f.rest) \subseteq K
      BY <1>3, <1>5, <1>6, <3>1, <3>2 DEF Opened, job
    <3>4. PICK t : t = <<f>> \o stack
      OBVIOUS
    <3>5. /\ IsStack(t) /\ Len(t) = Len(stack) + 1 /\ t[1] = f
          /\ \A i \in 1 .. Len(stack) : t[i + 1] = stack[i]
      BY <1>2, <3>4, PushedStack
    <3>6. DOMAIN t = 1 .. Len(t)
      BY <3>5, StackDomain
    <3>7. ASSUME NEW i \in DOMAIN t PROVE Range(t[i].rest) \subseteq K
      <4>1. CASE i = 1
        BY <3>3, <3>5, <4>1
      <4>2. CASE i # 1
        <5>1. i - 1 \in 1 .. Len(stack) /\ (i - 1) + 1 = i
          BY <1>2, <3>5, <3>6, <4>2
        <5>2. t[i] = stack[i - 1]
          BY <3>5, <5>1
        <5> QED BY <1>2, <1>3, <5>1, <5>2
      <4> QED BY <4>1, <4>2
    <3> QED BY <3>2, <3>4, <3>7
  <2>4. CASE \E f : Looped(f)
    <3>1. PICK f : Looped(f)
      BY <2>4
    <3>2. /\ stack' = <<f>> \o Tail(stack) /\ 2 \in DOMAIN stack /\ stack[2].rest # << >>
          /\ Range(f.rest) \subseteq SubJobs(Head(stack[2].rest))
      BY <1>2, <3>1 DEF Looped, Loops
    <3>3. Range(f.rest) \subseteq K
      BY <1>5, <3>2
    <3>4. PICK t : t = <<f>> \o Tail(stack)
      OBVIOUS
    <3>5. /\ IsStack(t) /\ Len(t) = Len(stack) /\ t[1] = f
          /\ \A i \in 2 .. Len(stack) : t[i] = stack[i]
      BY <1>2, <3>4, ReplacedStack
    <3>6. DOMAIN t = 1 .. Len(t)
      BY <3>5, StackDomain
    <3>7. ASSUME NEW i \in DOMAIN t PROVE Range(t[i].rest) \subseteq K
      <4>1. CASE i = 1
        BY <3>3, <3>5, <4>1
      <4>2. CASE i # 1
        <5>1. i \in DOMAIN stack /\ t[i] = stack[i]
          BY <1>2, <3>5, <3>6, <4>2
        <5> QED BY <1>3, <5>1
      <4> QED BY <4>1, <4>2
    <3> QED BY <3>2, <3>4, <3>7
  <2> QED BY <2>1, <2>2, <2>3, <2>4 DEF Shaped
<1> QED BY <1>3, <1>7, <1>8

LEMMA BeginJobs ==
  ASSUME TypeInv, JobsInv, BeginAttempt
  PROVE  JobsInv'
<1>1. PICK live : live = Live
  OBVIOUS
<1>2. Begin(live, Clone(live, LocalDoc), attempt + 1) /\ stack = << >>
  BY <1>1 DEF BeginAttempt, Begin, TypeInv
<1>3. CASE cancelled \/ ~Valid(program)
  BY <1>2, <1>3 DEF Begin, JobsInv
<1>4. CASE ~(cancelled \/ ~Valid(program))
  <2> DEFINE f == Frame("top", program.jobs, <<Fresh(live), << >> >>, 0)
  <2>1. /\ stack' = <<f>> /\ program' = program /\ Valid(program)
        /\ functions' = IF program.stored THEN functions ELSE Empty
    BY <1>2, <1>4 DEF Begin
  <2> SUFFICES ASSUME Unpadded(program)
               PROVE  /\ \A i \in DOMAIN stack' : Range(stack'[i].rest) \subseteq Checked(program)
                      /\ \A g \in DOMAIN functions' : Range(functions'[g].body) \subseteq Checked(program)
    BY <2>1 DEF JobsInv
  <2>2. program.jobs \in Bodies(program) /\ program \in Programs
    BY DEF Bodies, TypeInv
  <2>3. Range(program.jobs) \subseteq Checked(program)
    BY <2>2, CheckedClosed
  <2>4. f.rest = program.jobs
    BY DEF Frame
  <2> HIDE DEF f
  <2>5. DOMAIN <<f>> = {1} /\ <<f>>[1] = f
    OBVIOUS
  <2>6. DOMAIN Empty = {}
    BY DEF Empty
  <2> QED BY <2>1, <2>3, <2>4, <2>5, <2>6 DEF JobsInv
<1> QED BY <1>3, <1>4

(***************************************************************************)
(* The heap.  Kept(P, was, n): the n innermost blocks cannot reach P, and   *)
(* P is as it was.                                                         *)
(***************************************************************************)
Kept(P, was, n) ==
  /\ Safe(P)
  /\ \A a \in P : heap[a] = was[a]
  /\ \A i \in 1 .. n : stack[i].loc \in DOMAIN heap \ P

(* What a call protects: what existed, except what functions share.        *)
Own(f) == DOMAIN f.before \ f.shared
HeapInv ==
  /\ Kept(LocalObjects, Objects, Len(stack))
  /\ \A i \in DOMAIN stack : stack[i].kind = "func" =>
       /\ Kept(Own(stack[i]), stack[i].before, i)
       /\ IsHeap(stack[i].before) /\ stack[i + 1].loc \in DOMAIN stack[i].before

(* What one step of a run does to the heap, as far as P is concerned.       *)
Effect(P) ==
  /\ Extends(heap, heap', P) /\ Safe(P)'
  /\ stack' # << >> => stack'[1].loc \in DOMAIN heap' \ P

LEMMA SafeExtends ==
  ASSUME NEW P, Safe(P), Extends(heap, heap', P), functions' = functions
  PROVE  Safe(P)'
<1>1. Sound(heap', P) /\ CustomDoc \in DOMAIN heap' \ P
  BY DEF Safe, Extends
<1>2. \A f \in DOMAIN functions : \A i \in DOMAIN functions[f].defaults :
        Ref(heap', P, functions[f].defaults[i])
  BY DEF Safe, Extends, Ref
<1> QED BY <1>1, <1>2 DEF Safe, Sound, Ref, IsHeap, Apart

LEMMA StopEffect ==
  ASSUME NEW P, Safe(P), NEW outcome, Stop(outcome)
  PROVE  Effect(P)
<1>1. heap' = heap /\ functions' = functions /\ stack' = << >>
  BY DEF Stop
<1>2. Extends(heap, heap', P)
  BY <1>1 DEF Extends, Safe
<1> QED BY <1>1, <1>2, SafeExtends DEF Effect

LEMMA ReturnEffect ==
  ASSUME TypeInv, status = "running", NEW P, Safe(P), NEW k \in {1, 2},
         Len(stack) >= k, stack[k].rest # << >>, stack[k].loc \in DOMAIN heap \ P,
         NEW h, Extends(heap, h, P), NEW v, Ref(h, P, v), NEW to \in Path,
         Return(h, v, to, IF k = 1 THEN stack ELSE Tail(stack))
  PROVE  Effect(P)
<1> DEFINE frames == IF k = 1 THEN stack ELSE Tail(stack)
           set == IF to = << >> THEN [ok |-> TRUE, h |-> h] ELSE SetPath(h, frames[1].loc, to, v)
<1>1. /\ Len(stack) \in Nat /\ stack # << >> /\ IsStack(stack) /\ DOMAIN stack = 1 .. Len(stack)
      /\ \A i \in DOMAIN stack : IsFrame(stack[i])
  BY StackDomain DEF TypeInv, Linked
<1>2. (Ends \/ Moves(k)) /\ functions' = functions
  BY ReturnMoves
<1>3. frames[1] = stack[k]
  <2>1. CASE k = 1
    BY <2>1
  <2>2. CASE k = 2
    <3>1. 1 \in 1 .. Len(stack) - 1
      BY <1>1, <2>2
    <3>2. Tail(stack)[1] = stack[2]
      BY <1>1, <3>1, TailStack
    <3> QED BY <2>2, <3>2
  <2> QED BY <2>1, <2>2
<1>4. stack[k].loc \in DOMAIN h \ P /\ Sound(h, P)
  BY DEF Extends
<1>5. Extends(h, set.h, P)
  <2>1. CASE to = << >>
    BY <1>4, <2>1 DEF Extends
  <2>2. CASE to # << >>
    <3>1. set = SetPath(h, stack[k].loc, to, v)
      BY <1>3, <2>2
    <3>2. Extends(h, SetPath(h, stack[k].loc, to, v).h, P)
      BY <1>4, <2>2, SetPathExtends
    <3> QED BY <3>1, <3>2
  <2> QED BY <2>1, <2>2
<1>6. Extends(heap, heap', P)
  <2>1. CASE ~set.ok
    <3>1. Fail
      BY <2>1 DEF Return
    <3> QED BY <3>1, StopEffect DEF Fail, Effect
  <2>2. CASE set.ok
    <3>1. heap' = set.h
      BY <2>2 DEF Return
    <3> HIDE DEF set
    <3>2. Extends(heap, set.h, P)
      BY <1>5, ExtendsTransitive DEF Safe, Sound
    <3> QED BY <3>1, <3>2
  <2> HIDE DEF set
  <2> QED BY <2>1, <2>2
<1>7. stack' # << >> => stack'[1].loc \in DOMAIN heap' \ P
  <2>1. CASE Ends
    BY <2>1 DEF Ends
  <2>2. CASE Moves(k)
    <3>1. stack'[1] = After(stack[k]) /\ k \in DOMAIN stack
      BY <1>1, <2>2 DEF Moves, Moved
    <3>2. stack'[1].loc = stack[k].loc
      BY <1>1, <3>1, AfterFrame
    <3> QED BY <1>6, <3>2 DEF Extends
  <2> QED BY <1>2, <2>1, <2>2
<1> QED BY <1>2, <1>6, <1>7, SafeExtends DEF Effect

(* A job of the innermost block ends; a block ends.                        *)
LEMMA JobEffect ==
  ASSUME TypeInv, status = "running", top.rest # << >>, NEW P, Safe(P), top.loc \in DOMAIN heap \ P,
         NEW h, Extends(heap, h, P), NEW v, Ref(h, P, v), Return(h, v, job.to, stack)
  PROVE  Effect(P)
<1>1. Return(h, v, job.to, IF 1 = 1 THEN stack ELSE Tail(stack))
  OBVIOUS
<1>2. Len(stack) >= 1 /\ stack[1].rest # << >> /\ stack[1].loc \in DOMAIN heap \ P /\ job.to \in Path
  BY TopFacts DEF IsJob
<1> QED BY <1>1, <1>2, ReturnEffect

LEMMA BlockEffect ==
  ASSUME TypeInv, status = "running", top.kind # "top", NEW P, Safe(P),
         stack[2].loc \in DOMAIN heap \ P, NEW v, Ref(heap, P, v),
         Return(heap, v, Head(stack[2].rest).to, Tail(stack))
  PROVE  Effect(P)
<1>1. Return(heap, v, Head(stack[2].rest).to, IF 2 = 1 THEN stack ELSE Tail(stack))
  OBVIOUS
<1>2. Len(stack) >= 2 /\ stack[2].rest # << >> /\ Head(stack[2].rest).to \in Path
  BY TopFacts DEF Rests, IsJob
<1>3. Extends(heap, heap, P)
  BY DEF Safe, Extends
<1> QED BY <1>1, <1>2, <1>3, ReturnEffect

LEMMA SimpleEffect ==
  ASSUME TypeInv, NEW P, Safe(P), top.loc \in DOMAIN heap \ P,
         top.rest = << >> /\ top.kind # "top" => stack[2].loc \in DOMAIN heap \ P,
         SeeCancel \/ BadJob \/ Set \/ Get \/ Operators \/ EndIf \/ EndFunction \/ Call \/ EndWorkflow
  PROVE  Effect(P)
<1>0. Sound(heap, P) /\ CustomDoc \in DOMAIN heap \ P
  BY DEF Safe
<1>1. CASE SeeCancel
  BY <1>1, StopEffect DEF SeeCancel, Fail
<1>2. CASE BadJob
  BY <1>2, StopEffect DEF BadJob, Fail
<1>3. CASE Set
  <2>1. status = "running" /\ top.rest # << >> /\ job.op = "set"
    BY <1>3 DEF Set, AtJob
  <2>2. PICK r : /\ r = Resolve(heap, top.loc, job.value)
                 /\ Fail \/ Return(r.h, r.v, job.to, stack)
    BY <1>3 DEF Set
  <2>3. Payload(job.value)
    BY <2>1, TopFacts DEF IsJob
  <2>4. Extends(heap, r.h, P) /\ Ref(r.h, P, r.v)
    BY <1>0, <2>2, <2>3, ResolveExtends
  <2> QED BY <2>1, <2>2, <2>4, JobEffect, StopEffect DEF Fail
<1>4. CASE Get
  <2>1. status = "running" /\ top.rest # << >> /\ job.op = "get"
    BY <1>4 DEF Get, AtJob
  <2>2. PICK r : r = Resolve(heap, top.loc, job.default)
    OBVIOUS
  <2>3. PICK v : v = Lookup(heap, top.loc, job.path)
    OBVIOUS
  <2>4. Fail \/ Return(r.h, IF v = Missing THEN r.v ELSE v, job.to, stack)
    BY <1>4, <2>2, <2>3 DEF Get
  <2>5. Payload(job.default) /\ job.path \in Path
    BY <2>1, TopFacts DEF IsJob
  <2>6. Extends(heap, r.h, P) /\ Ref(r.h, P, r.v)
    BY <1>0, <2>2, <2>5, ResolveExtends
  <2>7. Ref(r.h, P, v)
    BY <1>0, <2>3, <2>5, <2>6, LookupRef, RefExtends
  <2>8. Fail \/ \E w : Ref(r.h, P, w) /\ Return(r.h, w, job.to, stack)
    BY <2>4, <2>6, <2>7
  <2> QED BY <2>1, <2>6, <2>8, JobEffect, StopEffect DEF Fail
<1>5. CASE Operators
  <2>1. status = "running" /\ top.rest # << >> /\ job.op = "oper"
    BY <1>5 DEF Operators, AtJob
  <2>2. PICK r : /\ r = Operate(heap, top.loc, job.value)
                 /\ Fail \/ Return(heap, r.v, job.to, stack)
    BY <1>5 DEF Operators
  <2>3. Ref(heap, P, r.v) /\ Extends(heap, heap, P)
    BY <1>0, <2>2, OperateRef DEF Extends
  <2> QED BY <2>1, <2>2, <2>3, JobEffect, StopEffect DEF Fail
<1>6. CASE EndIf
  <2>1. status = "running" /\ top.kind # "top" /\ top.rest = << >>
    BY <1>6 DEF EndIf, AtEnd
  <2>2. PICK v : v = Bool(top.n = 1)
    OBVIOUS
  <2>3. Return(heap, v, Head(stack[2].rest).to, Tail(stack))
    BY <1>6, <2>2 DEF EndIf
  <2>4. Ref(heap, P, v)
    BY <2>2 DEF Ref, Bool
  <2> QED BY <2>1, <2>3, <2>4, BlockEffect
<1>7. CASE EndFunction
  <2>1. status = "running" /\ top.kind # "top" /\ top.rest = << >>
    BY <1>7 DEF EndFunction, AtEnd
  <2>2. PICK v : v = IF top.returnto = << >> THEN Obj(top.loc) ELSE Lookup(heap, top.loc, top.returnto)
    OBVIOUS
  <2>3. Fail \/ Return(heap, v, Head(stack[2].rest).to, Tail(stack))
    BY <1>7, <2>2 DEF EndFunction
  <2>4. Ref(heap, P, v)
    <3>1. top.returnto \in Path
      BY <2>1, TopFacts DEF IsFrame
    <3>2. Ref(heap, P, Lookup(heap, top.loc, top.returnto))
      BY <1>0, <3>1, LookupRef
    <3>3. Ref(heap, P, Obj(top.loc))
      BY DEF Ref, Obj
    <3> QED BY <2>2, <3>2, <3>3
  <2> QED BY <2>1, <2>3, <2>4, BlockEffect, StopEffect DEF Fail
<1>8. CASE Call
  <2>1. status = "running" /\ top.rest # << >> /\ job.op = "call"
    BY <1>8 DEF Call, AtJob
  <2>2. PICK r : r = Resolve(heap, top.loc, job.value)
    OBVIOUS
  <2>3. Fail \/ \E reply \in Replies :
          Return(Put(r.h, <<Fresh(r.h), << >> >>, reply), Obj(<<Fresh(r.h), << >> >>), job.to, stack)
    BY <1>8, <2>2 DEF Call
  <2>4. Payload(job.value)
    BY <2>1, TopFacts DEF IsJob
  <2>5. Extends(heap, r.h, P)
    BY <1>0, <2>2, <2>4, ResolveExtends
  <2>6. CASE Fail
    BY <2>6, StopEffect DEF Fail
  <2>7. CASE \E reply \in Replies :
          Return(Put(r.h, <<Fresh(r.h), << >> >>, reply), Obj(<<Fresh(r.h), << >> >>), job.to, stack)
    <3>1. PICK new : new = <<Fresh(r.h), << >> >>
      OBVIOUS
    <3>2. PICK reply \in Replies : Return(Put(r.h, new, reply), Obj(new), job.to, stack)
      BY <2>7, <3>1
    <3>3. Sound(r.h, P)
      BY <2>5 DEF Extends
    <3>4. Fresh(r.h) \in Nat /\ new \notin DOMAIN r.h
      BY <3>1, <3>3, FreshIsNew DEF Sound
    <3>5. new[1] \in Nat /\ new \notin P
      BY <3>1, <3>3, <3>4 DEF Sound
    <3>6. IsFiniteSet(DOMAIN reply) /\ \A k \in DOMAIN reply : reply[k].k # "obj"
      BY ObjectsAssumption
    <3>7. Extends(r.h, Put(r.h, new, reply), P)
      BY <3>3, <3>5, <3>6, PutExtends
    <3>8. new \in DOMAIN Put(r.h, new, reply)
      BY DEF Put
    <3>9. Ref(Put(r.h, new, reply), P, Obj(new))
      BY <3>5, <3>8 DEF Ref, Obj
    <3>10. Extends(heap, Put(r.h, new, reply), P)
      BY <1>0, <2>5, <3>7, ExtendsTransitive DEF Sound
    <3> QED BY <2>1, <3>2, <3>9, <3>10, JobEffect
  <2> QED BY <2>3, <2>6, <2>7
<1>9. CASE EndWorkflow
  BY <1>9, StopEffect DEF EndWorkflow
<1> QED BY <1>1, <1>2, <1>3, <1>4, <1>5, <1>6, <1>7, <1>8, <1>9

(* A block opens, or starts over, in the same variables.                    *)
LEMMA SameEffect ==
  ASSUME TypeInv, status = "running", NEW P, Safe(P), top.loc \in DOMAIN heap \ P,
         heap' = heap, functions' = functions, NEW f, f.loc = top.loc,
         NEW s, IsStack(s), stack' = <<f>> \o s
  PROVE  Effect(P)
<1>1. Extends(heap, heap', P)
  BY DEF Safe, Extends
<1>2. stack'[1] = f
  BY PushedStack
<1> QED BY <1>1, <1>2, SafeExtends DEF Effect

LEMMA ControlEffect ==
  ASSUME TypeInv, NEW P, Safe(P), top.loc \in DOMAIN heap \ P,
         top.rest = << >> /\ top.kind # "top" => stack[2].loc \in DOMAIN heap \ P,
         If \/ While \/ TestLoop
  PROVE  Effect(P)
<1>1. status = "running" /\ IsStack(stack) /\ stack # << >>
  BY DEF If, While, TestLoop, AtJob, AtEnd, TypeInv
<1>2. CASE If
  <2>1. PICK test : test = Test(heap, top.loc, job.value)
    OBVIOUS
  <2> DEFINE f == [Frame("block", IF test.holds THEN job.then ELSE job.else, top.loc, top.depth)
                     EXCEPT !.n = IF test.holds THEN 1 ELSE 0]
  <2>2. Fail \/ Push(heap, f)
    BY <1>2, <2>1 DEF If
  <2>3. f.loc = top.loc
    BY DEF Frame
  <2> HIDE DEF f
  <2> QED BY <1>1, <2>2, <2>3, SameEffect, StopEffect DEF Fail, Push
<1>3. CASE While
  <2> DEFINE f == Frame("loop", << >>, top.loc, top.depth)
  <2>1. Push(heap, f)
    BY <1>3 DEF While
  <2>2. f.loc = top.loc
    BY DEF Frame
  <2> HIDE DEF f
  <2> QED BY <1>1, <2>1, <2>2, SameEffect DEF Push
<1>4. CASE TestLoop
  <2>1. top.kind = "loop" /\ top.rest = << >>
    BY <1>4 DEF TestLoop, AtEnd
  <2>2. PICK w : w = Head(stack[2].rest)
    OBVIOUS
  <2>3. PICK test : test = Test(heap, top.loc, w.value)
    OBVIOUS
  <2> DEFINE f == [top EXCEPT !.rest = w.body, !.n = @ + 1]
  <2>4. (CASE ~test.ok \/ (test.holds /\ top.n >= MaxLoop) -> Fail
           [] test.ok /\ ~test.holds -> Return(heap, Num(top.n), w.to, Tail(stack))
           [] test.ok /\ test.holds /\ top.n < MaxLoop ->
                /\ stack' = <<f>> \o Tail(stack)
                /\ UNCHANGED <<program, heap, functions, status, attempt, cancelled>>)
    BY <1>4, <2>2, <2>3 DEF TestLoop
  <2>5. IsFrame(top)
    BY <1>1, TopFacts
  <2>6. ~(top.n >= MaxLoop) <=> top.n < MaxLoop
    BY <2>5, WorkflowAssumption DEF IsFrame
  <2>7. f.loc = top.loc
    <3>1. DOMAIN top = FrameFields
      BY <2>5 DEF IsFrame, FrameFields
    <3> QED BY <3>1 DEF FrameFields
  <2> HIDE DEF f
  <2>8. \/ Fail \/ Return(heap, Num(top.n), w.to, Tail(stack))
        \/ /\ stack' = <<f>> \o Tail(stack)
           /\ UNCHANGED <<program, heap, functions, status, attempt, cancelled>>
    BY <2>4, <2>6, Zenon
  <2>9. CASE Fail
    BY <2>9, StopEffect DEF Fail
  <2>10. CASE Return(heap, Num(top.n), w.to, Tail(stack))
    <3>1. PICK v : v = Num(top.n)
      OBVIOUS
    <3>2. Ref(heap, P, v)
      BY <3>1 DEF Ref, Num
    <3> QED BY <1>1, <2>1, <2>2, <2>10, <3>1, <3>2, BlockEffect
  <2>11. CASE /\ stack' = <<f>> \o Tail(stack)
              /\ UNCHANGED <<program, heap, functions, status, attempt, cancelled>>
    <3>1. IsStack(Tail(stack))
      BY <1>1, TailStack
    <3>2. PICK s : s = Tail(stack)
      OBVIOUS
    <3> QED BY <1>1, <2>7, <2>11, <3>1, <3>2, SameEffect
  <2> QED BY <2>8, <2>9, <2>10, <2>11
<1> QED BY <1>2, <1>3, <1>4

LEMMA DefineEffect ==
  ASSUME TypeInv, DefineFunction, NEW P, Safe(P), top.loc \in DOMAIN heap \ P
  PROVE  Effect(P)
<1>1. status = "running" /\ top.rest # << >> /\ job.op = "func"
  BY DEF DefineFunction, AtJob
<1>2. /\ IsFrame(top) /\ IsJob(job) /\ stack # << >> /\ IsStack(stack)
      /\ Sound(heap, P) /\ CustomDoc \in DOMAIN heap \ P
  BY <1>1, TopFacts DEF TypeInv, Safe
<1>3. Payloads(job.defaults) /\ job.to \in Path
  BY <1>1, <1>2 DEF IsJob
<1>4. PICK name : name = IF job.name # << >> THEN job.name ELSE job.to
  OBVIOUS
<1>5. PICK r : r = ResolveAll(heap, top.loc, job.defaults)
  OBVIOUS
<1>6. PICK set : set = IF job.to = << >> THEN [ok |-> TRUE, h |-> r.h]
                       ELSE SetPath(r.h, top.loc, job.to, Str("name"))
  OBVIOUS
<1> DEFINE fn == [kind |-> job.kind, names |-> job.names, defaults |-> r.vs,
                  body |-> job.body, returnto |-> job.returnto]
<1>7. IF ~r.ok \/ name = << >> THEN Fail
      ELSE /\ functions' = Put(functions, name, fn)
           /\ heap' = set.h
           /\ status' = IF set.ok THEN "running" ELSE "failed"
           /\ stack' = IF set.ok THEN <<After(top)>> \o Tail(stack) ELSE << >>
           /\ UNCHANGED <<program, attempt, cancelled>>
  BY <1>4, <1>5, <1>6 DEF DefineFunction
<1>8. Extends(heap, r.h, P) /\ Refs(r.h, P, r.vs)
  BY <1>2, <1>3, <1>5, ResolveAllExtends
<1>9. Extends(r.h, set.h, P)
  <2>1. Sound(r.h, P) /\ top.loc \in DOMAIN r.h \ P
    BY <1>8 DEF Extends
  <2>2. CASE job.to = << >>
    BY <1>6, <2>1, <2>2 DEF Extends
  <2>3. CASE job.to # << >>
    <3>1. PICK v : v = Str("name")
      OBVIOUS
    <3>2. Ref(r.h, P, v)
      BY <3>1 DEF Ref, Str
    <3>3. Extends(r.h, SetPath(r.h, top.loc, job.to, v).h, P)
      BY <1>3, <2>1, <2>3, <3>2, SetPathExtends
    <3> QED BY <1>6, <2>3, <3>1, <3>3
  <2> QED BY <2>2, <2>3
<1>10. Extends(heap, set.h, P)
  BY <1>2, <1>8, <1>9, ExtendsTransitive DEF Sound
<1>11. \A i \in DOMAIN fn.defaults : Ref(set.h, P, fn.defaults[i])
  <2>1. Refs(set.h, P, r.vs)
    BY <1>8, <1>9, RefsExtends
  <2>2. fn.defaults = r.vs
    OBVIOUS
  <2> HIDE DEF fn
  <2> QED BY <2>1, <2>2, RefsIndex
<1> HIDE DEF fn
<1>12. CASE ~r.ok \/ name = << >>
  BY <1>7, <1>12, StopEffect DEF Fail
<1>13. CASE ~(~r.ok \/ name = << >>)
  <2>1. heap' = set.h /\ functions' = Put(functions, name, fn)
    BY <1>7, <1>13
  <2>2. PICK g : g = Put(functions, name, fn)
    OBVIOUS
  <2>3. \A f \in DOMAIN g : g[f] = fn \/ (f \in DOMAIN functions /\ g[f] = functions[f])
    BY <2>2 DEF Put
  <2>4. \A f \in DOMAIN functions : \A i \in DOMAIN functions[f].defaults :
          Ref(set.h, P, functions[f].defaults[i])
    BY <1>10, RefExtends DEF Safe
  <2>5. \A f \in DOMAIN g : \A i \in DOMAIN g[f].defaults : Ref(set.h, P, g[f].defaults[i])
    BY <1>11, <2>3, <2>4
  <2>6. Sound(set.h, P) /\ CustomDoc \in DOMAIN set.h \ P /\ top.loc \in DOMAIN set.h \ P
    BY <1>2, <1>10 DEF Extends
  <2>7. Safe(P)'
    BY <2>1, <2>2, <2>5, <2>6 DEF Safe, Sound, Ref, IsHeap, Apart
  <2>8. stack' # << >> => stack'[1].loc = top.loc
    <3>1. stack' # << >> => stack' = <<After(top)>> \o Tail(stack)
      BY <1>7, <1>13
    <3>2. After(top).loc = top.loc
      BY <1>1, <1>2, AfterFrame
    <3>3. (<<After(top)>> \o Tail(stack))[1] = After(top)
      BY <1>2, ReplacedStack
    <3> QED BY <3>1, <3>2, <3>3
  <2> QED BY <1>10, <2>1, <2>6, <2>7, <2>8 DEF Effect
<1> QED BY <1>12, <1>13

(* A call builds the variables of the function in new objects.  Its         *)
(* arguments may be objects of P: the function gets copies.                *)
LEMMA CallBuilds ==
  ASSUME TypeInv, status = "running", top.rest # << >>, job.op = "exec",
         NEW args, NEW base, NEW copies, CallOf(args, base, copies),
         NEW P, Sound(args.h, P), Refs(args.h, {}, args.vs), Len(args.vs) = Len(job.args),
         top.loc \in DOMAIN args.h,
         \A i \in DOMAIN functions[job.func].defaults : Ref(args.h, P, functions[job.func].defaults[i])
  PROVE  /\ Extends(args.h, heap', P) /\ functions' = functions
         /\ <<Fresh(args.h), << >> >> \in DOMAIN heap' \ P
         /\ \E f : /\ stack' = <<f>> \o stack
                   /\ f.kind = "func" /\ f.loc = <<Fresh(args.h), << >> >> /\ f.before = args.h
                   /\ f.shared = Reach(heap, {CustomDoc} \cup Addresses(functions))
<1>1. PICK child : child = <<Fresh(args.h), << >> >>
  OBVIOUS
<1>2. PICK fn : fn = functions[job.func]
  OBVIOUS
<1>3. PICK bound : bound = Bind(fn, job, copies.vs)
  OBVIOUS
<1>4. PICK shared : shared = Reach(heap, {CustomDoc} \cup Addresses(functions))
  OBVIOUS
<1> DEFINE f == [Frame("func", fn.body, child, top.depth + 1) EXCEPT
                   !.returnto = fn.returnto, !.before = args.h, !.shared = shared]
           m == Overlay(bound.m, copies.h[child])
<1>5. /\ base = Clone(args.h, top.loc) /\ copies = CopyAll(base, args.vs)
      /\ job.func \in DOMAIN functions /\ bound.ok
      /\ Push(Put(copies.h, child, m), f)
  BY <1>1, <1>2, <1>3, <1>4 DEF CallOf
<1>6. f.kind = "func" /\ f.loc = child /\ f.before = args.h /\ f.shared = shared
  BY DEF Frame
<1> HIDE DEF f
<1>7. Extends(args.h, base, P) /\ child \in DOMAIN base \ P
  BY <1>1, <1>5, CloneExtends
<1>8. Refs(base, {}, args.vs) /\ Sound(base, P)
  <2>1. Sound(base, P) /\ DOMAIN args.h \subseteq DOMAIN base
    BY <1>7 DEF Extends
  <2>2. \A v : Ref(args.h, {}, v) => Ref(base, {}, v)
    BY <2>1 DEF Ref
  <2> QED BY <2>1, <2>2 DEF Refs
<1>9. Extends(base, copies.h, P) /\ Refs(copies.h, P, copies.vs) /\ Len(copies.vs) = Len(args.vs)
  BY <1>5, <1>8, CopyAllExtends
<1>10. Extends(args.h, copies.h, P)
  BY <1>7, <1>9, ExtendsTransitive DEF Sound
<1>11. Sound(copies.h, P) /\ child \in DOMAIN copies.h \ P
  BY <1>7, <1>9 DEF Extends
<1>12. IsFiniteSet(DOMAIN bound.m) /\ \A k \in DOMAIN bound.m : Ref(copies.h, P, bound.m[k])
  <2>1. IsFunction(fn)
    BY <1>2, <1>5 DEF TypeInv
  <2>2. \A i \in DOMAIN fn.defaults : Ref(copies.h, P, fn.defaults[i])
    BY <1>2, <1>10, RefExtends
  <2>3. job.argKind = "map" => DOMAIN job.argNames = DOMAIN copies.vs
    <3>1. Payloads(job.args) /\ (job.argKind = "map" => DOMAIN job.argNames = DOMAIN job.args)
      BY TopFacts DEF IsJob
    <3>2. DOMAIN copies.vs = 1 .. Len(copies.vs)
      BY <1>9, RefsIndex
    <3> QED BY <1>9, <3>1, <3>2 DEF Payloads
  <2> QED BY <1>3, <1>5, <1>9, <2>1, <2>2, <2>3, BindRefs
<1>13. /\ DOMAIN m = DOMAIN bound.m \cup DOMAIN copies.h[child]
       /\ \A k \in DOMAIN m : m[k] = IF k \in DOMAIN bound.m THEN bound.m[k] ELSE copies.h[child][k]
  BY DEF Overlay
<1> HIDE DEF m
<1>14. IsFiniteSet(DOMAIN m)
  <2>1. IsFiniteSet(DOMAIN copies.h[child])
    BY <1>11 DEF Sound, IsHeap
  <2>2. IsFiniteSet(DOMAIN bound.m \cup DOMAIN copies.h[child])
    BY <1>12, <2>1, FS_Union
  <2> QED BY <1>13, <2>2
<1>15. ASSUME NEW k \in DOMAIN m, m[k].k = "obj" PROVE m[k].id \in DOMAIN copies.h \ P
  <2>1. CASE k \in DOMAIN bound.m
    BY <1>12, <1>13, <1>15, <2>1 DEF Ref
  <2>2. CASE k \notin DOMAIN bound.m
    <3>1. k \in DOMAIN copies.h[child] /\ m[k] = copies.h[child][k]
      BY <1>13, <2>2
    <3> QED BY <1>11, <1>15, <3>1 DEF Sound, IsHeap, Apart
  <2> QED BY <2>1, <2>2
<1>16. child[1] \in Nat /\ child \notin P
  BY <1>11 DEF Sound, IsHeap
<1>17. Extends(copies.h, Put(copies.h, child, m), P)
  BY <1>11, <1>14, <1>15, <1>16, PutExtends
<1>18. heap' = Put(copies.h, child, m) /\ functions' = functions /\ stack' = <<f>> \o stack
  BY <1>5 DEF Push
<1>19. Extends(args.h, heap', P)
  BY <1>10, <1>17, <1>18, ExtendsTransitive DEF Sound
<1>20. child \in DOMAIN heap' \ P
  BY <1>11, <1>17, <1>18 DEF Extends
<1> QED BY <1>1, <1>4, <1>6, <1>18, <1>19, <1>20

LEMMA ExecEffect ==
  ASSUME TypeInv, ExecFunction, NEW P, Safe(P), top.loc \in DOMAIN heap \ P
  PROVE  Effect(P)
<1>1. status = "running" /\ top.rest # << >> /\ job.op = "exec" /\ IsStack(stack)
  BY DEF ExecFunction, AtJob, TypeInv
<1>2. Sound(heap, P) /\ CustomDoc \in DOMAIN heap \ P /\ Payloads(job.args)
  BY <1>1, TopFacts DEF IsJob, Safe
<1>3. CASE Fail \/ Stop("crashed")
  BY <1>3, StopEffect DEF Fail
<1>4. CASE \E args, base, copies : CallOf(args, base, copies)
  <2>1. PICK args, base, copies : CallOf(args, base, copies)
    BY <1>4
  <2>2. args = ResolveAll(heap, top.loc, job.args) /\ job.func \in DOMAIN functions
    BY <2>1 DEF CallOf
  <2>3. Extends(heap, args.h, P) /\ Refs(args.h, P, args.vs) /\ Len(args.vs) = Len(job.args)
    BY <1>2, <2>2, ResolveAllExtends
  <2>4. Refs(args.h, {}, args.vs)
    <3>1. \A v : Ref(args.h, P, v) => Ref(args.h, {}, v)
      BY DEF Ref
    <3> QED BY <2>3, <3>1 DEF Refs
  <2>5. Sound(args.h, P) /\ top.loc \in DOMAIN args.h
    BY <2>3 DEF Extends
  <2>6. \A i \in DOMAIN functions[job.func].defaults : Ref(args.h, P, functions[job.func].defaults[i])
    BY <2>2, <2>3, RefExtends DEF Safe
  <2>7. /\ Extends(args.h, heap', P) /\ functions' = functions
        /\ <<Fresh(args.h), << >> >> \in DOMAIN heap' \ P
        /\ \E f : stack' = <<f>> \o stack /\ f.loc = <<Fresh(args.h), << >> >>
    BY <1>1, <2>1, <2>3, <2>4, <2>5, <2>6, CallBuilds
  <2>8. Extends(heap, heap', P)
    BY <1>2, <2>3, <2>7, ExtendsTransitive DEF Sound
  <2>9. stack'[1].loc = <<Fresh(args.h), << >> >>
    BY <1>1, <2>7, PushedStack
  <2> QED BY <2>7, <2>8, <2>9, SafeExtends DEF Effect
<1> QED BY <1>3, <1>4, ExecCases

LEMMA RunningEffect ==
  ASSUME TypeInv, Running, NEW P, Safe(P), top.loc \in DOMAIN heap \ P,
         top.rest = << >> /\ top.kind # "top" => stack[2].loc \in DOMAIN heap \ P
  PROVE  Effect(P)
BY SimpleEffect, ControlEffect, DefineEffect, ExecEffect DEF Running

LEMMA AddressFacts ==
  ASSUME NEW P, Safe(P)
  PROVE  /\ Addresses(functions) \subseteq DOMAIN heap \ P
         /\ \A f \in DOMAIN functions : \A i \in DOMAIN functions[f].defaults :
              Ref(heap, {}, functions[f].defaults[i])
              /\ (functions[f].defaults[i].k = "obj" => functions[f].defaults[i].id \in Addresses(functions))
<1>1. \A f \in DOMAIN functions : \A i \in DOMAIN functions[f].defaults :
        Ref(heap, P, functions[f].defaults[i])
  BY DEF Safe
<1>2. ASSUME NEW a \in Addresses(functions) PROVE a \in DOMAIN heap \ P
  <2>1. PICK f \in DOMAIN functions : \E d \in Range(functions[f].defaults) : d.k = "obj" /\ a = d.id
    BY DEF Addresses
  <2>2. PICK i \in DOMAIN functions[f].defaults :
          functions[f].defaults[i].k = "obj" /\ a = functions[f].defaults[i].id
    BY <2>1 DEF Range
  <2> QED BY <1>1, <2>2 DEF Ref
<1>3. ASSUME NEW f \in DOMAIN functions, NEW i \in DOMAIN functions[f].defaults,
             functions[f].defaults[i].k = "obj"
      PROVE  functions[f].defaults[i].id \in Addresses(functions)
  <2>1. PICK d : d = functions[f].defaults[i]
    OBVIOUS
  <2>2. d \in Range(functions[f].defaults) /\ d.k = "obj"
    BY <1>3, <2>1 DEF Range
  <2>3. d \in {e \in UNION {Range(functions[g].defaults) : g \in DOMAIN functions} : e.k = "obj"}
    BY <2>2
  <2> QED BY <2>1, <2>3 DEF Addresses
<1>4. \A v : Ref(heap, P, v) => Ref(heap, {}, v)
  BY DEF Ref
<1> QED BY <1>1, <1>2, <1>3, <1>4

(* What existed when a function is called is out of its reach, but for what *)
(* the configuration and the defaults of functions lead to.                *)
LEMMA NewCall ==
  ASSUME TypeInv, ExecFunction, NEW Q, Safe(Q), top.loc \in DOMAIN heap \ Q, stack' # << >>
  PROVE  \E f : /\ stack' = <<f>> \o stack /\ f.kind = "func"
                /\ IsHeap(f.before) /\ top.loc \in DOMAIN f.before
                /\ Effect(Q)
                /\ Safe(Own(f))' /\ f.loc \in DOMAIN heap' \ Own(f)
                /\ \A a \in Own(f) : heap'[a] = f.before[a]
<1>1. status = "running" /\ top.rest # << >> /\ job.op = "exec" /\ IsStack(stack)
  BY DEF ExecFunction, AtJob, TypeInv
<1>2. Sound(heap, Q) /\ CustomDoc \in DOMAIN heap \ Q /\ Payloads(job.args)
  BY <1>1, TopFacts DEF IsJob, Safe
<1>3. PICK args, base, copies : CallOf(args, base, copies)
  BY ExecCases DEF Fail, Stop
<1>4. args = ResolveAll(heap, top.loc, job.args) /\ job.func \in DOMAIN functions
  BY <1>3 DEF CallOf
<1>5. /\ Extends(heap, args.h, Q) /\ Refs(args.h, Q, args.vs) /\ Len(args.vs) = Len(job.args)
      /\ \A a \in DOMAIN heap : args.h[a] = heap[a]
  BY <1>2, <1>4, ResolveAllExtends
<1>6. Refs(args.h, {}, args.vs)
  <2>1. \A v : Ref(args.h, Q, v) => Ref(args.h, {}, v)
    BY DEF Ref
  <2> QED BY <1>5, <2>1 DEF Refs
<1>7. IsHeap(args.h) /\ DOMAIN heap \subseteq DOMAIN args.h /\ top.loc \in DOMAIN args.h
  BY <1>5 DEF Extends, Sound
<1>8. PICK R : R = Reach(heap, {CustomDoc} \cup Addresses(functions))
  OBVIOUS
<1>9. /\ {CustomDoc} \cup Addresses(functions) \subseteq R /\ R \subseteq DOMAIN heap
      /\ \A a \in R : \A k \in DOMAIN heap[a] : heap[a][k].k = "obj" => heap[a][k].id \in R
  <2>1. {CustomDoc} \cup Addresses(functions) \subseteq DOMAIN heap
    BY <1>2, AddressFacts
  <2>2. IsHeap(heap)
    BY <1>2 DEF Sound
  <2>3. PICK ids : ids = {CustomDoc} \cup Addresses(functions)
    OBVIOUS
  <2>4. /\ ids \subseteq Reach(heap, ids) /\ Reach(heap, ids) \subseteq DOMAIN heap
        /\ \A a \in Reach(heap, ids) : \A k \in DOMAIN heap[a] :
             heap[a][k].k = "obj" => heap[a][k].id \in Reach(heap, ids)
    BY <2>1, <2>2, <2>3, ReachClosed
  <2> QED BY <1>8, <2>3, <2>4
<1>10. PICK P : P = DOMAIN args.h \ R
  OBVIOUS
<1>11. Sound(args.h, P)
  <2>1. Apart(args.h, P)
    <3> SUFFICES ASSUME NEW a \in DOMAIN args.h \ P, NEW k \in DOMAIN args.h[a], args.h[a][k].k = "obj"
                 PROVE  args.h[a][k].id \notin P
      BY DEF Apart
    <3>1. a \in R /\ args.h[a] = heap[a]
      BY <1>5, <1>9, <1>10
    <3>2. args.h[a][k].id \in R
      BY <1>9, <3>1
    <3> QED BY <1>10, <3>2
  <2> QED BY <1>7, <1>10, <2>1 DEF Sound
<1>12. \A f \in DOMAIN functions : \A i \in DOMAIN functions[f].defaults :
         Ref(args.h, P, functions[f].defaults[i])
  <2>1. \A a \in Addresses(functions) : a \in DOMAIN args.h \ P
    BY <1>7, <1>9, <1>10
  <2> QED BY <2>1, AddressFacts DEF Ref
<1>13. PICK f : /\ stack' = <<f>> \o stack
                /\ f.kind = "func" /\ f.loc = <<Fresh(args.h), << >> >> /\ f.before = args.h
                /\ f.shared = R
  <2>1. \E f : /\ stack' = <<f>> \o stack
               /\ f.kind = "func" /\ f.loc = <<Fresh(args.h), << >> >> /\ f.before = args.h
               /\ f.shared = Reach(heap, {CustomDoc} \cup Addresses(functions))
    BY <1>1, <1>3, <1>4, <1>5, <1>6, <1>7, <1>11, <1>12, CallBuilds
  <2> QED BY <1>8, <2>1
<1>14. /\ Extends(args.h, heap', P) /\ functions' = functions
       /\ <<Fresh(args.h), << >> >> \in DOMAIN heap' \ P
  BY <1>1, <1>3, <1>4, <1>5, <1>6, <1>7, <1>11, <1>12, CallBuilds
<1>15. Own(f) = P
  BY <1>10, <1>13 DEF Own
<1>16. Safe(P)'
  <2>1. Sound(heap', P) /\ CustomDoc \in DOMAIN heap' \ P
    BY <1>7, <1>9, <1>10, <1>14 DEF Extends
  <2>2. \A g \in DOMAIN functions : \A i \in DOMAIN functions[g].defaults :
          Ref(heap', P, functions[g].defaults[i])
    BY <1>12, <1>14, RefExtends
  <2> QED BY <1>14, <2>1, <2>2 DEF Safe, Sound, Ref, IsHeap, Apart
<1>17. Safe(Own(f))'
  BY <1>15, <1>16
<1>18. \A a \in P : heap'[a] = args.h[a]
  BY <1>14 DEF Extends
<1>19. Effect(Q)
  BY ExecEffect
<1> QED BY <1>7, <1>13, <1>14, <1>15, <1>17, <1>18, <1>19

(* A block that stays on the stack, at another place perhaps.              *)
SameCall(f, g) ==
  /\ f.kind = g.kind /\ f.loc = g.loc
  /\ f.kind = "func" => f.before = g.before /\ f.shared = g.shared

LEMMA KeptStep ==
  ASSUME NEW P, NEW was, NEW n \in Nat, NEW m \in Nat, Kept(P, was, n), Effect(P), stack' # << >>,
         \A i \in 2 .. m : \E j \in 1 .. n : stack'[i].loc = stack[j].loc
  PROVE  /\ Safe(P)'
         /\ \A a \in P : heap'[a] = was[a]
         /\ \A i \in 1 .. m : stack'[i].loc \in DOMAIN heap' \ P
<1>1. Safe(P)' /\ Extends(heap, heap', P) /\ stack'[1].loc \in DOMAIN heap' \ P
  BY DEF Effect
<1>2. \A a \in P : heap'[a] = was[a]
  BY <1>1 DEF Kept, Extends
<1>3. ASSUME NEW i \in 1 .. m
      PROVE  stack'[i].loc \in DOMAIN heap' \ P
  <2>1. CASE i = 1
    BY <1>1, <2>1
  <2>2. CASE i # 1
    <3>1. i \in 2 .. m
      BY <2>2
    <3>2. PICK j \in 1 .. n : stack'[i].loc = stack[j].loc
      BY <3>1
    <3>3. stack[j].loc \in DOMAIN heap \ P
      BY DEF Kept
    <3> QED BY <1>1, <3>2, <3>3 DEF Extends
  <2> QED BY <2>1, <2>2
<1> QED BY <1>1, <1>2, <1>3

(* Each block keeps its protection while others come and go above it, and   *)
(* a new call finds its own.                                               *)
LEMMA SurvivorsKept ==
  ASSUME TypeInv, HeapInv, Running, IsStack(stack'), stack' # << >>, NEW d \in {-1, 0, 1},
         Len(stack') = Len(stack) + d,
         stack[1].kind = "func" => top.rest # << >> \/ d = -1,
         \A i \in 1 .. Len(stack') : i - d >= 1 => SameCall(stack'[i], stack[i - d]),
         d = 1 /\ stack'[1].kind = "func" => ExecFunction
  PROVE  HeapInv'
<1>1. status = "running"
  BY DEF Running, SeeCancel, BadJob, Set, Get, Operators, If, EndIf, While, TestLoop,
         DefineFunction, ExecFunction, EndFunction, Call, EndWorkflow, AtJob, AtEnd
<1>2. Len(stack) \in Nat /\ Len(stack) >= 1 /\ top = stack[1] /\ (top.kind # "top" => Len(stack) >= 2)
  BY <1>1, TopFacts
<1>3. DOMAIN stack = 1 .. Len(stack) /\ Linked(stack)
  BY StackDomain DEF TypeInv
<1>4. DOMAIN stack' = 1 .. Len(stack') /\ Len(stack') \in Nat
  BY StackDomain
<1>5. PICK n \in Nat : n = Len(stack)
  BY <1>2
<1>6. PICK m \in Nat : m = Len(stack')
  BY <1>4
<1>7. n >= 1 /\ m = n + d
  BY <1>2, <1>5, <1>6
<1>8. \A i \in 1 .. m : i - d >= 1 => SameCall(stack'[i], stack[i - d])
  BY <1>6
<1>9. \A j \in 1 .. n, i \in 1 .. m : i - d <= j =>
        \A k \in 2 .. i : \E o \in 1 .. j : stack'[k].loc = stack[o].loc
  <2> SUFFICES ASSUME NEW j \in 1 .. n, NEW i \in 1 .. m, i - d <= j, NEW k \in 2 .. i
               PROVE  \E o \in 1 .. j : stack'[k].loc = stack[o].loc
    OBVIOUS
  <2>1. k - d \in 1 .. j /\ k \in 1 .. m /\ k - d >= 1
    OBVIOUS
  <2> QED BY <1>8, <2>1 DEF SameCall
<1>10. /\ Safe(LocalObjects)'
       /\ \A a \in LocalObjects : heap'[a] = Objects[a]
       /\ \A i \in 1 .. m : stack'[i].loc \in DOMAIN heap' \ LocalObjects
  <2>1. PICK P : P = LocalObjects
    OBVIOUS
  <2>2. PICK was : was = Objects
    OBVIOUS
  <2>3. Kept(P, was, n)
    BY <1>5, <2>1, <2>2 DEF HeapInv
  <2>4. Effect(P)
    <3>1. Safe(P) /\ top.loc \in DOMAIN heap \ P
          /\ (top.rest = << >> /\ top.kind # "top" => stack[2].loc \in DOMAIN heap \ P)
      <4>1. 1 \in 1 .. n /\ (n >= 2 => 2 \in 1 .. n)
        BY <1>7
      <4> QED BY <1>2, <1>5, <2>3, <4>1 DEF Kept
    <3> QED BY <3>1, RunningEffect
  <2>5. \A k \in 2 .. m : \E o \in 1 .. n : stack'[k].loc = stack[o].loc
    <3>1. CASE m >= 1
      <4>1. n \in 1 .. n /\ m \in 1 .. m /\ m - d <= n
        BY <1>7, <3>1
      <4> QED BY <1>9, <4>1
    <3>2. CASE m < 1
      BY <3>2
    <3> QED BY <3>1, <3>2
  <2>6. /\ Safe(P)'
        /\ \A a \in P : heap'[a] = was[a]
        /\ \A i \in 1 .. m : stack'[i].loc \in DOMAIN heap' \ P
    BY <2>3, <2>4, <2>5, KeptStep
  <2> QED BY <2>1, <2>2, <2>6
<1>11. ASSUME NEW i \in 1 .. m, stack'[i].kind = "func"
       PROVE  \E P, was : /\ P = DOMAIN was \ stack'[i].shared /\ was = stack'[i].before
                          /\ Safe(P)'
                          /\ \A a \in P : heap'[a] = was[a]
                          /\ \A k \in 1 .. i : stack'[k].loc \in DOMAIN heap' \ P
                          /\ IsHeap(was) /\ stack'[i + 1].loc \in DOMAIN was
  <2>1. CASE i - d >= 1
    <3>1. PICK j \in Nat : j = i - d
      BY <2>1
    <3>2. j \in 1 .. n /\ SameCall(stack'[i], stack[j])
      BY <1>7, <1>8, <2>1, <3>1
    <3>3. stack[j].kind = "func" /\ j # n
      <4>1. stack[j].kind = "func"
        BY <1>11, <3>2 DEF SameCall
      <4> QED BY <1>3, <1>5, <3>2, <4>1 DEF Linked
    <3>4. PICK P : P = Own(stack[j])
      OBVIOUS
    <3>5. PICK was : was = stack[j].before
      OBVIOUS
    <3>6. Kept(P, was, j) /\ IsHeap(was) /\ stack[j + 1].loc \in DOMAIN was
      BY <1>3, <1>5, <3>2, <3>3, <3>4, <3>5 DEF HeapInv
    <3>7. Effect(P)
      <4>1. Safe(P) /\ top.loc \in DOMAIN heap \ P
        <5>1. 1 \in 1 .. j
          BY <3>2
        <5> QED BY <1>2, <3>6, <5>1 DEF Kept
      <4>2. ASSUME top.rest = << >>, top.kind # "top"
            PROVE  stack[2].loc \in DOMAIN heap \ P
        <5>1. j # 1
          <6> SUFFICES ASSUME j = 1
                       PROVE  FALSE
            OBVIOUS
          <6>1. stack[1].kind = "func"
            BY <3>3
          <6>2. d = -1
            BY <4>2, <6>1
          <6> QED BY <3>1, <6>2
        <5>2. 2 \in 1 .. j
          BY <3>2, <5>1
        <5> QED BY <3>6, <5>2 DEF Kept
      <4> QED BY <4>1, <4>2, RunningEffect
    <3>8. i - d <= j
      BY <3>1
    <3>9. \A k \in 2 .. i : \E o \in 1 .. j : stack'[k].loc = stack[o].loc
      BY <1>9, <3>2, <3>8
    <3>10. /\ Safe(P)'
           /\ \A a \in P : heap'[a] = was[a]
           /\ \A k \in 1 .. i : stack'[k].loc \in DOMAIN heap' \ P
      <4>1. i \in Nat /\ j \in Nat
        OBVIOUS
      <4> QED BY <3>6, <3>7, <3>9, <4>1, KeptStep
    <3>11. stack'[i + 1].loc = stack[j + 1].loc
      <4>1. i + 1 \in 1 .. m /\ (i + 1) - d = j + 1 /\ j + 1 >= 1
        BY <1>7, <3>1, <3>2, <3>3
      <4> QED BY <1>8, <4>1 DEF SameCall
    <3>12. P = DOMAIN was \ stack'[i].shared /\ was = stack'[i].before
      BY <1>11, <3>2, <3>4, <3>5 DEF SameCall, Own
    <3> QED BY <3>6, <3>10, <3>11, <3>12
  <2>2. CASE ~(i - d >= 1)
    <3>1. d = 1 /\ i = 1
      BY <2>2
    <3>2. ExecFunction
      BY <1>11, <3>1
    <3>3. PICK Q : Q = LocalObjects
      OBVIOUS
    <3>4. Safe(Q) /\ top.loc \in DOMAIN heap \ Q
      BY <1>2, <3>3 DEF HeapInv, Kept
    <3>5. PICK f : /\ stack' = <<f>> \o stack /\ f.kind = "func"
                   /\ IsHeap(f.before) /\ top.loc \in DOMAIN f.before
                   /\ Effect(Q)
                   /\ Safe(Own(f))' /\ f.loc \in DOMAIN heap' \ Own(f)
                   /\ \A a \in Own(f) : heap'[a] = f.before[a]
      BY <3>2, <3>4, NewCall
    <3>6. stack'[1] = f /\ stack'[2] = stack[1]
      BY <1>2, <3>5, PushedStack DEF TypeInv
    <3>7. PICK P : P = Own(f)
      OBVIOUS
    <3>8. Safe(P)'
      BY <3>5, <3>7
    <3>9. \A k \in 1 .. i : stack'[k].loc \in DOMAIN heap' \ P
      BY <3>1, <3>5, <3>6, <3>7
    <3>10. P = DOMAIN f.before \ stack'[i].shared /\ f.before = stack'[i].before
      BY <3>1, <3>6, <3>7 DEF Own
    <3>11. stack'[i + 1].loc \in DOMAIN f.before
      BY <1>2, <3>1, <3>5, <3>6
    <3> QED BY <3>5, <3>7, <3>8, <3>9, <3>10, <3>11
  <2> QED BY <2>1, <2>2
<1>12. Kept(LocalObjects, Objects, Len(stack))'
  BY <1>6, <1>10 DEF Kept, Safe, Sound, Ref, IsHeap, Apart
<1>13. ASSUME NEW i \in DOMAIN stack', stack'[i].kind = "func"
       PROVE  /\ Kept(Own(stack[i]), stack[i].before, i)'
              /\ IsHeap(stack'[i].before) /\ stack'[i + 1].loc \in DOMAIN stack'[i].before
  <2>1. i \in 1 .. m
    BY <1>4, <1>6
  <2>2. PICK P, was : /\ P = DOMAIN was \ stack'[i].shared /\ was = stack'[i].before
                      /\ Safe(P)'
                      /\ \A a \in P : heap'[a] = was[a]
                      /\ \A k \in 1 .. i : stack'[k].loc \in DOMAIN heap' \ P
                      /\ IsHeap(was) /\ stack'[i + 1].loc \in DOMAIN was
    BY <1>11, <1>13, <2>1
  <2>3. P = DOMAIN stack'[i].before \ stack'[i].shared
    BY <2>2
  <2> QED BY <2>2, <2>3 DEF Kept, Own, Safe, Sound, Ref, IsHeap, Apart
<1>14. (\A i \in DOMAIN stack : stack[i].kind = "func" =>
          /\ Kept(Own(stack[i]), stack[i].before, i)
          /\ IsHeap(stack[i].before) /\ stack[i + 1].loc \in DOMAIN stack[i].before)'
  BY <1>13 DEF IsHeap
<1> QED BY <1>12, <1>14 DEF HeapInv

(* Only a call begins a block with variables of its own.                   *)
LEMMA OnlyCallsOpen ==
  ASSUME TypeInv, Running, top.rest # << >>, job.op = "exec", stack' # << >>
  PROVE  ExecFunction
<1>1. ~SeeCancel /\ ~BadJob
  BY DEF SeeCancel, BadJob, Fail, Stop
<1> QED BY <1>1 DEF Running, Set, Get, Operators, If, EndIf, While, TestLoop, DefineFunction,
             EndFunction, Call, EndWorkflow, AtJob, AtEnd

LEMMA RunningHeap ==
  ASSUME TypeInv, HeapInv, Running
  PROVE  HeapInv'
<1>1. status = "running"
  BY DEF Running, SeeCancel, BadJob, Set, Get, Operators, If, EndIf, While, TestLoop,
         DefineFunction, ExecFunction, EndFunction, Call, EndWorkflow, AtJob, AtEnd
<1>2. /\ Len(stack) \in Nat /\ Len(stack) >= 1 /\ stack # << >> /\ top = stack[1] /\ IsStack(stack)
      /\ IsFrame(stack[1])
  BY <1>1, TopFacts DEF TypeInv
<1>3. PICK P : P = LocalObjects
  OBVIOUS
<1>4. /\ Safe(P) /\ top.loc \in DOMAIN heap \ P
      /\ (top.rest = << >> /\ top.kind # "top" => stack[2].loc \in DOMAIN heap \ P)
  <2>1. 1 \in 1 .. Len(stack) /\ (top.kind # "top" => 2 \in 1 .. Len(stack))
    BY <1>1, <1>2, TopFacts
  <2> QED BY <1>2, <1>3, <2>1 DEF HeapInv, Kept
<1>5. Shaped
  BY <1>4, RunningShaped
<1>6. CASE Ends
  <2>1. Effect(P)
    BY <1>4, RunningEffect
  <2>2. Safe(P)' /\ \A a \in P : heap'[a] = heap[a]
    BY <2>1 DEF Effect, Extends
  <2>3. \A a \in LocalObjects : heap'[a] = Objects[a]
    BY <1>3, <2>2 DEF HeapInv, Kept
  <2>4. stack' = << >>
    BY <1>6 DEF Ends
  <2>5. Len(stack') = 0 /\ DOMAIN stack' = {}
    BY <2>4
  <2>6. Kept(LocalObjects, Objects, Len(stack))'
    BY <1>3, <2>2, <2>3, <2>5 DEF Kept, Safe, Sound, Ref, IsHeap, Apart
  <2> QED BY <2>5, <2>6 DEF HeapInv
<1>7. ASSUME NEW k, Moves(k)
      PROVE  HeapInv'
  <2>1. Moved(stack, stack', k)
    BY <1>7 DEF Moves
  <2>2. k \in {1, 2} /\ Len(stack) >= k /\ stack[k].rest # << >> /\ IsStack(stack') /\ stack' # << >>
        /\ stack'[1] = After(stack[k]) /\ Len(stack') = Len(stack) - (k - 1)
    BY <2>1 DEF Moved
  <2>3. \A i \in 2 .. Len(stack') : stack'[i] = stack[i + (k - 1)]
    BY <2>1 DEF Moved
  <2>4. SameCall(stack'[1], stack[k])
    <3>1. k \in DOMAIN stack
      BY <1>2, <2>2, StackDomain
    <3>2. IsFrame(stack[k])
      BY <3>1 DEF TypeInv, Linked
    <3> QED BY <2>2, <3>2, AfterFrame DEF SameCall
  <2>5. PICK d \in {-1, 0, 1} : d = 1 - k
    BY <2>2
  <2>6. \A i \in 1 .. Len(stack') : i - d >= 1 => SameCall(stack'[i], stack[i - d])
    <3> SUFFICES ASSUME NEW i \in 1 .. Len(stack')
                 PROVE  SameCall(stack'[i], stack[i - d])
      OBVIOUS
    <3>1. i - d = i + (k - 1)
      BY <2>2, <2>5
    <3>2. CASE i = 1
      <4>1. i + (k - 1) = k
        BY <2>2, <3>2
      <4> QED BY <2>4, <3>1, <3>2, <4>1
    <3>3. CASE i # 1
      <4>1. i \in 2 .. Len(stack')
        BY <3>3
      <4> QED BY <2>3, <3>1, <4>1 DEF SameCall
    <3> QED BY <3>2, <3>3
  <2>7. Len(stack') = Len(stack) + d
    BY <1>2, <2>2, <2>5
  <2>8. stack[1].kind = "func" => top.rest # << >> \/ d = -1
    BY <1>2, <2>2, <2>5
  <2>9. d # 1
    BY <2>2, <2>5
  <2> QED BY <2>2, <2>6, <2>7, <2>8, <2>9, SurvivorsKept
<1>8. ASSUME NEW f, Opened(f)
      PROVE  HeapInv'
  <2>1. stack' = <<f>> \o stack /\ Rests(f, stack[1])
    BY <1>8 DEF Opened, Pushes
  <2>2. /\ IsStack(stack') /\ stack' # << >> /\ Len(stack') = Len(stack) + 1 /\ stack'[1] = f
        /\ \A i \in 1 .. Len(stack) : stack'[i + 1] = stack[i]
    BY <1>2, <2>1, PushedStack
  <2>3. top.rest # << >>
    BY <1>2, <2>1 DEF Rests
  <2>4. stack'[1].kind = "func" => ExecFunction
    <3>1. stack'[1].kind = "func" => job.op = "exec"
      BY <1>2, <2>1, <2>2 DEF Rests, Opens, job
    <3> QED BY <2>2, <2>3, <3>1, OnlyCallsOpen
  <2>5. \A i \in 1 .. Len(stack') : i - 1 >= 1 => SameCall(stack'[i], stack[i - 1])
    <3> SUFFICES ASSUME NEW i \in 1 .. Len(stack'), i - 1 >= 1
                 PROVE  SameCall(stack'[i], stack[i - 1])
      OBVIOUS
    <3>1. i - 1 \in 1 .. Len(stack) /\ (i - 1) + 1 = i
      BY <1>2, <2>2
    <3>2. stack'[i] = stack[i - 1]
      BY <2>2, <3>1
    <3> QED BY <3>2 DEF SameCall
  <2>6. PICK d \in {-1, 0, 1} : d = 1
    OBVIOUS
  <2>7. Len(stack') = Len(stack) + d
    BY <2>2, <2>6
  <2>8. \A i \in 1 .. Len(stack') : i - d >= 1 => SameCall(stack'[i], stack[i - d])
    BY <2>5, <2>6
  <2> QED BY <2>2, <2>3, <2>4, <2>7, <2>8, SurvivorsKept
<1>9. ASSUME NEW f, Looped(f)
      PROVE  HeapInv'
  <2>1. stack' = <<f>> \o Tail(stack) /\ stack[1].kind = "loop" /\ f.kind = stack[1].kind
    BY <1>9 DEF Looped, Loops
  <2>2. /\ IsStack(stack') /\ stack' # << >> /\ Len(stack') = Len(stack) /\ stack'[1] = f
        /\ \A i \in 2 .. Len(stack) : stack'[i] = stack[i]
    BY <1>2, <2>1, ReplacedStack
  <2>3. f.loc = stack[1].loc
    BY <1>9 DEF Looped, Loops
  <2>4. SameCall(stack'[1], stack[1]) /\ stack[1].kind # "func"
    BY <2>1, <2>2, <2>3 DEF SameCall
  <2>5. PICK d \in {-1, 0, 1} : d = 0
    OBVIOUS
  <2>6. \A i \in 1 .. Len(stack') : i - d >= 1 => SameCall(stack'[i], stack[i - d])
    <3> SUFFICES ASSUME NEW i \in 1 .. Len(stack')
                 PROVE  SameCall(stack'[i], stack[i - d])
      OBVIOUS
    <3>1. i - d = i
      BY <2>5
    <3>2. CASE i = 1
      BY <2>4, <3>1, <3>2
    <3>3. CASE i # 1
      <4>1. i \in 2 .. Len(stack)
        BY <2>2, <3>3
      <4> QED BY <2>2, <3>1, <4>1 DEF SameCall
    <3> QED BY <3>2, <3>3
  <2>7. Len(stack') = Len(stack) + d
    BY <1>2, <2>2, <2>5
  <2> QED BY <2>2, <2>4, <2>5, <2>6, <2>7, SurvivorsKept
<1> QED BY <1>5, <1>6, <1>7, <1>8, <1>9 DEF Shaped

LEMMA SameHeap ==
  ASSUME HeapInv, UNCHANGED <<heap, functions, stack>>
  PROVE  HeapInv'
<1>1. Kept(LocalObjects, Objects, Len(stack))'
  BY DEF HeapInv, Kept, Safe, Sound, Ref, IsHeap, Apart
<1>2. ASSUME NEW i \in DOMAIN stack', stack'[i].kind = "func"
      PROVE  /\ Kept(Own(stack[i]), stack[i].before, i)'
             /\ IsHeap(stack'[i].before) /\ stack'[i + 1].loc \in DOMAIN stack'[i].before
  <2>1. i \in DOMAIN stack /\ stack[i].kind = "func" /\ stack' = stack
    BY <1>2
  <2>2. Kept(Own(stack[i]), stack[i].before, i)
        /\ IsHeap(stack[i].before) /\ stack[i + 1].loc \in DOMAIN stack[i].before
    BY <2>1 DEF HeapInv
  <2>3. Kept(Own(stack[i]), stack[i].before, i)'
    BY <2>1, <2>2 DEF Kept, Own, Safe, Sound, Ref, IsHeap, Apart
  <2> QED BY <2>1, <2>2, <2>3
<1>3. (\A i \in DOMAIN stack : stack[i].kind = "func" =>
         /\ Kept(Own(stack[i]), stack[i].before, i)
         /\ IsHeap(stack[i].before) /\ stack[i + 1].loc \in DOMAIN stack[i].before)'
  BY <1>2 DEF IsHeap
<1> QED BY <1>1, <1>3 DEF HeapInv

(* The task's objects: closed, and the task's document is among them.      *)
LEMMA LocalFacts ==
  /\ LocalDoc \in LocalObjects /\ LocalObjects \subseteq DOMAIN Objects
  /\ Sound(Objects, LocalObjects)
  /\ \A a \in LocalObjects : \A k \in DOMAIN Objects[a] :
       Objects[a][k].k = "obj" => Objects[a][k].id \in LocalObjects
<1>1. {LocalDoc} \subseteq DOMAIN Objects /\ IsHeap(Objects)
  BY ObjectsAssumption
<1>2. /\ {LocalDoc} \subseteq LocalObjects /\ LocalObjects \subseteq DOMAIN Objects
      /\ \A a \in LocalObjects : \A k \in DOMAIN Objects[a] :
           Objects[a][k].k = "obj" => Objects[a][k].id \in LocalObjects
  BY <1>1, ReachClosed DEF LocalObjects
<1> QED BY <1>2, ObjectsAssumption DEF Sound

LEMMA InitTyped ==
  ASSUME Init
  PROVE  TypeInv /\ HeapInv
<1>1. program \in Programs /\ stack = << >> /\ heap = Objects /\ functions = program.functions
  BY DEF Init
<1>2. IsStack(stack) /\ Linked(stack) /\ Len(stack) = 0 /\ DOMAIN stack = {}
  <2>1. << >> \in Seq({}) /\ DOMAIN << >> = {} /\ Len(<< >>) = 0
    OBVIOUS
  <2> QED BY <1>1, <2>1 DEF IsStack, Linked
<1>3. TypeInv
  BY <1>1, <1>2, WorkflowAssumption DEF Init, TypeInv, Counted
<1>4. \A f \in DOMAIN functions : \A i \in DOMAIN functions[f].defaults :
        Ref(heap, LocalObjects, functions[f].defaults[i])
  BY <1>1, ObjectsAssumption DEF Ref, Range
<1>5. Safe(LocalObjects)
  BY <1>1, <1>4, LocalFacts, ObjectsAssumption DEF Safe
<1> QED BY <1>1, <1>2, <1>3, <1>5 DEF HeapInv, Kept

(* An attempt begins with what the server can reach, and a copy.           *)
LEMMA BeginHeap ==
  ASSUME TypeInv, HeapInv, BeginAttempt
  PROVE  HeapInv'
<1>1. PICK live : live = Live
  OBVIOUS
<1>2. Begin(live, Clone(live, LocalDoc), attempt + 1)
  BY <1>1 DEF BeginAttempt
<1>3. PICK P : P = LocalObjects
  OBVIOUS
<1>4. Safe(P) /\ \A a \in P : heap[a] = Objects[a]
  BY <1>3 DEF HeapInv, Kept
<1>5. PICK ids : ids = {LocalDoc, CustomDoc} \cup Addresses(functions)
  OBVIOUS
<1>6. PICK R : R = Reach(heap, ids)
  OBVIOUS
<1>7. live = [a \in R |-> heap[a]]
  BY <1>1, <1>5, <1>6 DEF Live, Restrict
<1>8. LocalDoc \in P /\ P \subseteq DOMAIN heap /\ CustomDoc \in DOMAIN heap \ P /\ IsHeap(heap) /\ Apart(heap, P)
  BY <1>3, <1>4, LocalFacts DEF Safe, Sound
<1>9. ids \subseteq DOMAIN heap /\ Addresses(functions) \cap P = {}
  BY <1>4, <1>5, <1>8, AddressFacts
<1>10. /\ ids \subseteq R /\ R \subseteq DOMAIN heap
       /\ \A a \in R : \A k \in DOMAIN heap[a] : heap[a][k].k = "obj" => heap[a][k].id \in R
  BY <1>6, <1>8, <1>9, ReachClosed
<1>11. P \subseteq R
  <2>1. PICK C : C = R \cap P
    OBVIOUS
  <2>2. \A a \in C : \A k \in DOMAIN Objects[a] : Objects[a][k].k = "obj" => Objects[a][k].id \in C
    <3> SUFFICES ASSUME NEW a \in C, NEW k \in DOMAIN Objects[a], Objects[a][k].k = "obj"
                 PROVE  Objects[a][k].id \in C
      OBVIOUS
    <3>1. a \in R /\ a \in P /\ heap[a] = Objects[a]
      BY <1>4, <2>1
    <3>2. Objects[a][k].id \in R
      BY <1>10, <3>1
    <3>3. Objects[a][k].id \in P
      BY <1>3, <3>1, LocalFacts
    <3> QED BY <2>1, <3>2, <3>3
  <2>3. {LocalDoc} \subseteq C
    BY <1>5, <1>8, <1>10, <2>1
  <2>4. IsHeap(Objects) /\ {LocalDoc} \subseteq DOMAIN Objects
    BY ObjectsAssumption
  <2>5. Reach(Objects, {LocalDoc}) \subseteq C
    BY <2>2, <2>3, <2>4, ReachLeast
  <2> QED BY <1>3, <2>1, <2>5 DEF LocalObjects
<1>12. DOMAIN live = R /\ \A a \in R : live[a] = heap[a]
  BY <1>7
<1>13. Sound(live, P)
  <2>1. IsFiniteSet(R)
    BY <1>8, <1>10, FS_Subset DEF IsHeap
  <2>2. IsHeap(live)
    <3>1. \A a \in R : a[1] \in Nat /\ IsFiniteSet(DOMAIN heap[a])
      BY <1>8, <1>10 DEF IsHeap
    <3> QED BY <1>10, <1>12, <2>1, <3>1 DEF IsHeap
  <2>3. Apart(live, P)
    <3> SUFFICES ASSUME NEW a \in R \ P, NEW k \in DOMAIN heap[a], heap[a][k].k = "obj"
                 PROVE  heap[a][k].id \notin P
      BY <1>12 DEF Apart
    <3>1. a \in DOMAIN heap \ P
      BY <1>10
    <3> QED BY <1>8, <3>1 DEF Apart
  <2> QED BY <1>8, <1>11, <1>12, <2>2, <2>3 DEF Sound
<1>14. CASE cancelled \/ ~Valid(program)
  <2>1. UNCHANGED <<heap, functions, stack>>
    BY <1>2, <1>14 DEF Begin
  <2> QED BY <2>1, SameHeap
<1>15. CASE ~(cancelled \/ ~Valid(program))
  <2>1. PICK f : f = Frame("top", program.jobs, <<Fresh(live), << >> >>, 0)
    OBVIOUS
  <2>2. /\ heap' = Clone(live, LocalDoc) /\ stack' = <<f>>
        /\ functions' = IF program.stored THEN functions ELSE Empty
    BY <1>2, <1>15, <2>1 DEF Begin
  <2>3. f.kind = "top" /\ f.loc = <<Fresh(live), << >> >>
    BY <2>1 DEF Frame
  <2>4. Extends(live, heap', P) /\ <<Fresh(live), << >> >> \in DOMAIN heap' \ P
    BY <1>8, <1>11, <1>12, <1>13, <2>2, CloneExtends
  <2>5. /\ Sound(heap', P) /\ R \subseteq DOMAIN heap'
        /\ \A a \in P : heap'[a] = Objects[a]
    BY <1>4, <1>11, <1>12, <2>4 DEF Extends
  <2>6. CustomDoc \in DOMAIN heap' \ P
    BY <1>5, <1>8, <1>10, <2>5
  <2>7. \A g \in DOMAIN functions' : \A i \in DOMAIN functions'[g].defaults :
          Ref(heap', P, functions'[g].defaults[i])
    <3>1. DOMAIN Empty = {}
      BY DEF Empty
    <3>2. \A a \in Addresses(functions) : a \in DOMAIN heap' \ P
      BY <1>5, <1>9, <1>10, <2>5
    <3>3. \A g \in DOMAIN functions : \A i \in DOMAIN functions[g].defaults :
            Ref(heap', P, functions[g].defaults[i])
      BY <1>4, <3>2, AddressFacts DEF Ref
    <3> QED BY <2>2, <3>1, <3>3
  <2>8. Safe(P)'
    BY <2>5, <2>6, <2>7 DEF Safe, Sound, Ref, IsHeap, Apart
  <2>9. Len(stack') = 1 /\ DOMAIN stack' = {1} /\ stack'[1] = f
    BY <2>2
  <2>10. \A i \in 1 .. 1 : stack'[i].loc \in DOMAIN heap' \ P
    BY <2>3, <2>4, <2>9
  <2>11. Kept(LocalObjects, Objects, Len(stack))'
    BY <1>3, <2>5, <2>8, <2>9, <2>10 DEF Kept, Safe, Sound, Ref, IsHeap, Apart
  <2>12. \A i \in DOMAIN stack' : stack'[i].kind # "func"
    BY <2>3, <2>9
  <2> QED BY <2>11, <2>12 DEF HeapInv
<1> QED BY <1>14, <1>15

(***************************************************************************)
(* The invariant, and what follows from it.                                *)
(***************************************************************************)
EngineInv == TypeInv /\ JobsInv /\ HeapInv

LEMMA EngineStep ==
  ASSUME EngineInv, [Next]_vars
  PROVE  EngineInv'
<1>1. TypeInv /\ JobsInv /\ HeapInv
  BY DEF EngineInv
<1>2. CASE Running
  <2>1. status = "running"
    BY <1>2 DEF Running, SeeCancel, BadJob, Set, Get, Operators, If, EndIf, While, TestLoop,
           DefineFunction, ExecFunction, EndFunction, Call, EndWorkflow, AtJob, AtEnd
  <2>2. 1 \in 1 .. Len(stack) /\ top = stack[1]
    BY <1>1, <2>1, TopFacts
  <2>3. Safe(LocalObjects) /\ top.loc \in DOMAIN heap \ LocalObjects
    BY <1>1, <2>2 DEF HeapInv, Kept
  <2>4. Shaped
    BY <1>1, <1>2, <2>3, RunningShaped
  <2> QED BY <1>1, <1>2, <2>1, <2>4, ShapedTyped, ShapedJobs, RunningHeap DEF EngineInv
<1>3. CASE BeginAttempt
  BY <1>1, <1>3, BeginTyped, BeginJobs, BeginHeap DEF EngineInv
<1>4. CASE Retry \/ Cancel \/ Terminated \/ UNCHANGED vars
  <2>1. TypeInv' /\ UNCHANGED <<program, heap, functions, stack>>
    BY <1>1, <1>4, OthersTyped
  <2>2. JobsInv'
    BY <1>1, <2>1 DEF JobsInv
  <2>3. HeapInv'
    BY <1>1, <2>1, SameHeap
  <2> QED BY <2>1, <2>2, <2>3 DEF EngineInv
<1> QED BY <1>2, <1>3, <1>4 DEF Next, Step, Running

(* In every reachable state the stack is a nesting of executeJobs calls,    *)
(* every job on it is one that Validate saw, and the objects of the task   *)
(* and of the callers in progress are out of reach of what runs.           *)
THEOREM EngineInvariant == Spec => []EngineInv
<1>1. Init => EngineInv
  BY InitTyped, InitJobs DEF EngineInv
<1>2. EngineInv /\ [Next]_vars => EngineInv'
  BY EngineStep
<1> QED BY <1>1, <1>2, PTL DEF Spec

(* Blocks nest as their jobs do, the depth of each is the number of         *)
(* functions that it is inside of, and neither it nor a loop passes its    *)
(* limit (executeFunction, executeControl).                                *)
THEOREM StackIsSound == Spec => []StackOK
<1>1. EngineInv => StackOK
  <2> SUFFICES ASSUME EngineInv
               PROVE  StackOK
    OBVIOUS
  <2>1. IsStack(stack) /\ Linked(stack) /\ (status = "running" <=> stack # << >>) /\ attempt <= MaxAttempts
    BY DEF EngineInv, TypeInv, Counted
  <2>2. Len(stack) \in Nat /\ DOMAIN stack = 1 .. Len(stack)
    BY <2>1, StackDomain
  <2>3. ASSUME NEW i \in DOMAIN stack
        PROVE  /\ stack[i].depth = Cardinality({j \in i .. Len(stack) : stack[j].kind = "func"})
               /\ stack[i].depth <= MaxCallDepth
               /\ stack[i].loc \in DOMAIN heap
               /\ stack[i].n <= MaxLoop
               /\ i = Len(stack) => stack[i].kind = "top"
               /\ i # Len(stack) =>
                    /\ stack[i + 1].rest # << >>
                    /\ Opens(stack[i], Head(stack[i + 1].rest))
                    /\ stack[i].loc = stack[i + 1].loc \/ stack[i].kind = "func"
    <3>1. stack[i].depth = Cardinality({j \in i .. Len(stack) : stack[j].kind = "func"})
      BY <2>1, DepthCounts
    <3>2. stack[i].loc \in DOMAIN heap
      BY <2>2 DEF EngineInv, HeapInv, Kept
    <3> QED BY <2>1, <3>1, <3>2 DEF Linked, Rests
  <2>4. (status = "running") = (stack # << >>)
    BY <2>1
  <2> QED BY <2>1, <2>3, <2>4 DEF StackOK
<1> QED BY <1>1, EngineInvariant, PTL

(* Nothing runs that Validate would have refused, however deep it is and   *)
(* also in a function defined on the way, when no service name is padded.  *)
THEOREM OnlyValidatedJobsRun == Spec => []OnlyValidRuns
<1>1. EngineInv => OnlyValidRuns
  <2> SUFFICES ASSUME EngineInv, Unpadded(program), NEW i \in DOMAIN stack, NEW j \in Range(stack[i].rest)
               PROVE  WellFormed(j)
    BY DEF OnlyValidRuns
  <2>1. j \in Checked(program)
    BY DEF EngineInv, JobsInv
  <2>2. stack # << >>
    OBVIOUS
  <2>3. Valid(program)
    BY <2>2 DEF EngineInv, JobsInv
  <2> QED BY <2>1, <2>3 DEF Valid, Unpadded
<1> QED BY <1>1, EngineInvariant, PTL

(* While a function runs, no object that its caller's variables led to      *)
(* when it was called has changed, apart from those that the configuration *)
(* and the defaults of functions share (executeFunction).                  *)
THEOREM CallerIsUntouched == Spec => []CallerUntouched
<1>1. EngineInv => CallerUntouched
  <2> SUFFICES ASSUME EngineInv, NEW i \in DOMAIN stack, stack[i].kind = "func"
               PROVE  Untouched(i, stack[i].shared)
    BY DEF CallerUntouched
  <2>1. /\ Kept(Own(stack[i]), stack[i].before, i)
        /\ IsHeap(stack[i].before) /\ stack[i + 1].loc \in DOMAIN stack[i].before
    BY DEF EngineInv, HeapInv
  <2>2. PICK was : was = stack[i].before
    OBVIOUS
  <2>3. PICK loc : loc = stack[i + 1].loc
    OBVIOUS
  <2>4. IsHeap(was) /\ {loc} \subseteq DOMAIN was
    BY <2>1, <2>2, <2>3
  <2>5. Reach(was, {loc}) \subseteq DOMAIN was
    BY <2>4, ReachClosed
  <2>6. \A a \in DOMAIN was \ stack[i].shared : heap[a] = was[a]
    BY <2>1, <2>2 DEF Kept, Own
  <2> QED BY <2>2, <2>3, <2>5, <2>6 DEF Untouched
<1> QED BY <1>1, EngineInvariant, PTL

(* The task's own "local" document is the same before every attempt         *)
(* (runTask); its functions, to which an attempt adds, are another matter.   *)
THEOREM LocalIsUntouched == Spec => []LocalUntouched
<1>1. EngineInv => LocalUntouched
  BY DEF EngineInv, HeapInv, Kept, LocalUntouched
<1> QED BY <1>1, EngineInvariant, PTL

=============================================================================
