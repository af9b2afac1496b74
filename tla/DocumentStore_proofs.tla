------------------------- MODULE DocumentStore_proofs -------------------------
(* Theorems about DocumentDiff and DocumentStore, for all documents, writers *)
(* and bounds.                                                               *)
EXTENDS DocumentStore, FiniteSetTheorems, WellFoundedInduction, TLAPS

(***************************************************************************)
(* The comparison of two documents                                         *)
(***************************************************************************)

LEMMA KeysFinite ==
  ASSUME NEW d \in Seq(Item)
  PROVE  IsFiniteSet(Keys(d)) /\ Cardinality(Keys(d)) \in Nat
<1> DEFINE f == [i \in 1 .. Len(d) |-> d[i].key]
<1>1. DOMAIN d = 1 .. Len(d) /\ Len(d) \in Nat
  OBVIOUS
<1>2. Keys(d) = {f[i] : i \in 1 .. Len(d)}
  BY <1>1 DEF Keys
<1>3. f \in Surjection(1 .. Len(d), Keys(d))
  BY <1>2 DEF Surjection
<1>4. IsFiniteSet(1 .. Len(d))
  BY <1>1, FS_Interval
<1>5. IsFiniteSet(Keys(d))
  BY <1>3, <1>4, FS_Surjection
<1> QED BY <1>5, FS_CardinalityType

\* A comparison by identity accounts for every item of both documents once,
\* and it reports no change exactly when both have the same identities and
\* every item agrees in the compared fields: the order of the items and, with
\* document.compare set, their other fields never make a change
\* (compareValues, WORKFLOW_GUIDE.md:61).
THEOREM DiffByIdentityIsExact ==
  ASSUME NEW b \in Seq(Item), NEW a \in Seq(Item), NEW cfg \in DocumentConfig
  PROVE  LET d == DiffByIdentity(b, a, cfg) IN
         /\ d.added + d.updated + d.unchanged = Cardinality(Keys(a))
         /\ d.deleted + d.updated + d.unchanged = Cardinality(Keys(b))
         /\ ~IsChange(d) <=>
              /\ Keys(a) = Keys(b)
              /\ \A k \in Keys(a) : ProjectFields(ItemOf(b, k), cfg)
                                      = ProjectFields(ItemOf(a, k), cfg)
<1> DEFINE d == DiffByIdentity(b, a, cfg)
           A == Keys(a)
           B == Keys(b)
           U == Differing(b, a, cfg)
<1>1. /\ IsFiniteSet(A) /\ Cardinality(A) \in Nat
      /\ IsFiniteSet(B) /\ Cardinality(B) \in Nat
  BY KeysFinite
<1>2. U \subseteq B \cap A
  BY DEF Differing
<1>3. IsFiniteSet(B \cap A) /\ Cardinality(B \cap A) \in Nat
  BY <1>1, FS_Intersection, FS_CardinalityType
<1>4. IsFiniteSet(U) /\ Cardinality(U) \in Nat
  BY <1>2, <1>3, FS_Subset, FS_CardinalityType
<1>5. Cardinality((B \cap A) \ U) = Cardinality(B \cap A) - Cardinality(U)
  <2>1. (B \cap A) \cap U = U
    BY <1>2
  <2> QED BY <1>3, <2>1, FS_Difference
<1>6. Cardinality(A \ B) = Cardinality(A) - Cardinality(B \cap A)
  <2>1. A \cap B = B \cap A
    OBVIOUS
  <2> QED BY <1>1, <2>1, FS_Difference
<1>7. Cardinality(B \ A) = Cardinality(B) - Cardinality(B \cap A)
  BY <1>1, FS_Difference
<1>8. /\ d.added = Cardinality(A \ B) /\ d.deleted = Cardinality(B \ A)
      /\ d.updated = Cardinality(U) /\ d.unchanged = Cardinality((B \cap A) \ U)
  BY DEF DiffByIdentity
<1>9. /\ IsFiniteSet(A \ B) /\ Cardinality(A \ B) \in Nat
      /\ IsFiniteSet(B \ A) /\ Cardinality(B \ A) \in Nat
  BY <1>1, FS_Difference, FS_CardinalityType
<1>10. ~IsChange(d) <=> A \ B = {} /\ B \ A = {} /\ U = {}
  <2>1. ~IsChange(d) <=> /\ Cardinality(A \ B) = 0
                         /\ Cardinality(B \ A) = 0
                         /\ Cardinality(U) = 0
    <3> HIDE DEF d, A, B, U
    <3> QED BY <1>4, <1>8, <1>9 DEF IsChange
  <2> QED BY <2>1, <1>4, <1>9, FS_EmptySet
<1>11. A \ B = {} /\ B \ A = {} /\ U = {} <=>
         A = B /\ \A k \in A : ProjectFields(ItemOf(b, k), cfg)
                                 = ProjectFields(ItemOf(a, k), cfg)
  BY DEF Differing
<1>12. /\ d.added + d.updated + d.unchanged = Cardinality(A)
       /\ d.deleted + d.updated + d.unchanged = Cardinality(B)
  <2> HIDE DEF d, A, B, U
  <2> QED BY <1>1, <1>3, <1>4, <1>5, <1>6, <1>7, <1>8
<1> QED BY <1>10, <1>11, <1>12

Diff == [added : Nat, updated : Nat, deleted : Nat, unchanged : Nat]

LEMMA CompareValuesType ==
  ASSUME NEW b, NEW a, b = Null \/ b \in Seq(Item), a = Null \/ a \in Seq(Item),
         NEW cfg
  PROVE  CompareValues(b, a, cfg) \in Diff
<1>1. NoDiff \in Diff
  BY DEF NoDiff, Diff
<1>2. CASE RecordsByIdentity(b) /\ RecordsByIdentity(a)
  <2>1. b \in Seq(Item) /\ a \in Seq(Item)
    BY <1>2 DEF RecordsByIdentity
  <2>2. IsFiniteSet(Keys(a)) /\ IsFiniteSet(Keys(b))
    BY <2>1, KeysFinite
  <2>3. /\ Cardinality(Keys(a) \ Keys(b)) \in Nat
        /\ Cardinality(Keys(b) \ Keys(a)) \in Nat
    BY <2>2, FS_Difference, FS_CardinalityType
  <2>4. IsFiniteSet(Keys(b) \cap Keys(a))
    BY <2>2, FS_Intersection
  <2>5. /\ Cardinality(Differing(b, a, cfg)) \in Nat
        /\ Cardinality((Keys(b) \cap Keys(a)) \ Differing(b, a, cfg)) \in Nat
    <3>1. Differing(b, a, cfg) \in SUBSET (Keys(b) \cap Keys(a))
      BY DEF Differing
    <3> QED BY <2>4, <3>1, FS_Subset, FS_Difference, FS_CardinalityType
  <2>6. DiffByIdentity(b, a, cfg) \in Diff
    BY <2>3, <2>5 DEF DiffByIdentity, Diff
  <2> QED BY <1>1, <2>6 DEF CompareValues, Diff
<1>3. CASE ~(RecordsByIdentity(b) /\ RecordsByIdentity(a))
  BY <1>1, <1>3 DEF CompareValues, Diff
<1> QED BY <1>2, <1>3

(***************************************************************************)
(* The store: types                                                        *)
(***************************************************************************)

\* The names of the files differ.
LEMMA FileFacts ==
  /\ BaselineJSON \in File /\ CurrentJSON \in File /\ CurrentMD \in File
  /\ Snap \subseteq File
  /\ BaselineJSON # CurrentJSON /\ BaselineJSON # CurrentMD /\ CurrentJSON # CurrentMD
  /\ BaselineJSON \notin Snap /\ CurrentJSON \notin Snap /\ CurrentMD \notin Snap
  /\ File = Snap \cup {BaselineJSON, CurrentJSON, CurrentMD}
  BY DEF BaselineJSON, CurrentJSON, CurrentMD, Snapshot, Snap, File

LEMMA SnapFacts ==
  /\ \A n \in 1 .. MaxWrites : Snapshot(n) \in Snap /\ Snapshot(n)[2] = n
  /\ \A s \in Snap : s[2] \in 1 .. MaxWrites /\ s = Snapshot(s[2])
  BY DEF Snapshot, Snap

LEMMA DocFacts ==
  /\ Torn # Missing
  /\ \A d \in Doc : d # Torn /\ d # Missing /\ (d = Null \/ d \in Seq(Item))
  /\ Doc \subseteq Content /\ Torn \in Content /\ Missing \in Content
  BY StoreAssumption DEF Content

LEMMA FilesType ==
  ASSUME file \in [File -> Content]
  PROVE  Files \in DirState
  BY DEF Files, DirState

LEMMA NoDiffType == NoDiff \in Diff
  BY DEF NoDiff, Diff

LEMMA IdleType == Idle \in WriterState
<1>1. /\ Missing \in Doc \cup {Missing} /\ Missing \in Content
      /\ CurrentJSON \in File /\ NoDiff \in Diff /\ 0 \in 0 .. MaxAttempts
  BY DocFacts, FileFacts, NoDiffType, StoreAssumption
<1> QED BY <1>1 DEF Idle, WriterState, Diff, DirState

\* What the parts of a writer's state are, without the record set.
LEMMA WriterFacts ==
  ASSUME TypeOK, NEW x \in Writer
  PROVE  /\ w[x] \in WriterState
         /\ w[x].attempt \in 0 .. MaxAttempts
         /\ w[x].doc \in Doc \cup {Missing}
         /\ w[x].at \in File
  BY DEF TypeOK, WriterState

\* A writer that writes has a document.
HasDoc == \A x \in Writer : w[x].pc \notin {"idle", "failed"} => w[x].doc \in Doc

\* The types are inductive with that, and with the names of snapshots lying in
\* the past.
Named == \A x \in Writer : w[x].at \in Snap => w[x].at[2] <= clock

TypeInv == TypeOK /\ HasDoc /\ Named

LEMMA TypeInit == Init => TypeInv
<1> SUFFICES ASSUME Init PROVE TypeInv
  OBVIOUS
<1>1. w \in [Writer -> WriterState] /\ \A x \in Writer : w[x] = Idle
  BY IdleType DEF Init
<1>2. HasDoc /\ Named
  BY <1>1, FileFacts DEF HasDoc, Named, Idle
<1>3. TypeOK
  <2>1. 0 \in 0 .. MaxWrites /\ 0 \in 0 .. MaxFaults
    BY StoreAssumption
  <2>2. Missing \in Content
    BY DocFacts
  <2>3. file \in [File -> Content] /\ tmp \in [File -> Content]
    BY <2>2 DEF Init
  <2>4. \A s \in Snap : file[s] = Missing /\ tmp[s] = Missing
    BY FileFacts DEF Init
  <2>5. /\ clock \in 0 .. MaxWrites /\ faults \in 0 .. MaxFaults
        /\ last \in Doc \cup {Missing} /\ partial \in BOOLEAN /\ shared \in BOOLEAN
    BY <2>1 DEF Init
  <2> QED BY <1>1, <2>3, <2>4, <2>5 DEF TypeOK
<1> QED BY <1>2, <1>3 DEF TypeInv

\* A step that changes one writer's record only.
LEMMA OneWriter ==
  ASSUME TypeInv, NEW x \in Writer, NEW r \in WriterState,
         w' = [w EXCEPT ![x] = r],
         r.pc \notin {"idle", "failed"} => r.doc \in Doc,
         r.at \in Snap => r.at[2] <= clock,
         UNCHANGED <<file, tmp, clock>>,
         faults' \in 0 .. MaxFaults, last' \in Doc \cup {Missing},
         partial' \in BOOLEAN, shared' \in BOOLEAN
  PROVE  TypeInv'
<1>1. w' \in [Writer -> WriterState]
  BY DEF TypeInv, TypeOK
<1>2. \A y \in Writer : w'[y] = IF y = x THEN r ELSE w[y]
  BY DEF TypeInv, TypeOK
<1>3. TypeOK'
  BY <1>1 DEF TypeInv, TypeOK
<1>4. HasDoc'
  BY <1>2 DEF TypeInv, HasDoc
<1>5. Named'
  BY <1>2 DEF TypeInv, Named
<1> QED BY <1>3, <1>4, <1>5 DEF TypeInv

LEMMA FailType ==
  ASSUME TypeInv, NEW x \in Writer, NEW e \in BOOLEAN,
         Fail(x, [w[x] EXCEPT !.error = e]) \/ Fail(x, w[x]),
         UNCHANGED <<file, tmp>>
  PROVE  TypeInv'
<1> DEFINE a == [[w[x] EXCEPT !.error = e] EXCEPT !.pc = "failed"]
           b == [w[x] EXCEPT !.pc = "failed"]
<1>1. w[x] \in WriterState
  BY WriterFacts DEF TypeInv
<1>2. /\ a \in WriterState /\ a.pc = "failed" /\ a.at = w[x].at
      /\ b \in WriterState /\ b.pc = "failed" /\ b.at = w[x].at
  BY <1>1 DEF WriterState
<1>3. PICK r \in WriterState : /\ w' = [w EXCEPT ![x] = r]
                               /\ r.pc = "failed" /\ r.at = w[x].at
  <2>1. w' = [w EXCEPT ![x] = a] \/ w' = [w EXCEPT ![x] = b]
    BY DEF Fail
  <2> HIDE DEF a, b
  <2> QED BY <1>2, <2>1
<1>4. /\ faults < MaxFaults /\ faults' = faults + 1
      /\ partial' = (partial \/ ReplacedCurrent(x))
      /\ UNCHANGED <<clock, last, shared>>
  BY DEF Fail
<1>5. faults' \in 0 .. MaxFaults
  BY <1>4, StoreAssumption DEF TypeInv, TypeOK
<1>6. partial' \in BOOLEAN
  BY <1>4
<1>7. r.at \in Snap => r.at[2] <= clock
  BY <1>3 DEF TypeInv, Named
<1>8. last' \in Doc \cup {Missing} /\ shared' \in BOOLEAN
  BY <1>4 DEF TypeInv, TypeOK
<1> QED BY <1>3, <1>4, <1>5, <1>6, <1>7, <1>8, OneWriter

\* A step that leaves the clock, and changes files that are named already.
LEMMA FilesStep ==
  ASSUME TypeInv, w' \in [Writer -> WriterState],
         \A y \in Writer : /\ w'[y].pc = w[y].pc \/ w'[y].pc \in {"list", "failed"}
                           /\ w'[y].doc = w[y].doc /\ w'[y].at = w[y].at,
         NEW f \in File, f \in Snap => f[2] <= clock,
         NEW c \in Content, NEW d \in Content,
         file' = [file EXCEPT ![f] = c] \/ file' = file,
         tmp' = [tmp EXCEPT ![f] = d] \/ tmp' = tmp,
         \A y \in Writer : w'[y].pc = "list" => w[y].pc \notin {"idle", "failed"},
         UNCHANGED <<clock, faults, last, partial, shared>>
  PROVE  TypeInv'
<1>1. file' \in [File -> Content] /\ tmp' \in [File -> Content]
  BY DEF TypeInv, TypeOK
<1>2. \A s \in Snap : s[2] > clock => s # f
  BY SnapFacts DEF TypeInv, TypeOK
<1>3. \A s \in Snap : s[2] > clock => file'[s] = file[s] /\ tmp'[s] = tmp[s]
  BY <1>2, FileFacts DEF TypeInv, TypeOK
<1>4. TypeOK'
  BY <1>1, <1>3 DEF TypeInv, TypeOK
<1>5. HasDoc' /\ Named'
  BY DEF TypeInv, HasDoc, Named
<1> QED BY <1>4, <1>5 DEF TypeInv

LEMMA BeginType ==
  ASSUME TypeInv, NEW x \in Writer, NEW d \in Doc, Begin(x, d) \/ Retry(x, d)
  PROVE  TypeInv'
<1> DEFINE r(n) == [Idle EXCEPT !.pc = "read", !.attempt = n, !.doc = d]
<1>1. \A n \in 0 .. MaxAttempts : r(n) \in WriterState
  BY IdleType DEF WriterState
<1>2. \A n : r(n).doc = d /\ r(n).at = CurrentJSON
  BY DEF Idle
<1>3. PICK n \in 0 .. MaxAttempts : w' = [w EXCEPT ![x] = r(n)]
  <2>1. CASE Begin(x, d)
    <3>1. 1 \in 0 .. MaxAttempts
      BY StoreAssumption
    <3>2. w' = [w EXCEPT ![x] = r(1)]
      BY <2>1 DEF Begin
    <3> HIDE DEF r
    <3> QED BY <3>1, <3>2
  <2>2. CASE Retry(x, d)
    <3>1. w[x].attempt + 1 \in 0 .. MaxAttempts
      BY <2>2, WriterFacts, StoreAssumption DEF Retry, TypeInv
    <3>2. w' = [w EXCEPT ![x] = r(w[x].attempt + 1)]
      BY <2>2 DEF Retry
    <3> HIDE DEF r
    <3> QED BY <3>1, <3>2
  <2> QED BY <2>1, <2>2
<1>4. /\ UNCHANGED <<file, tmp, clock>>
      /\ faults' \in 0 .. MaxFaults /\ last' \in Doc \cup {Missing} /\ partial' \in BOOLEAN
  BY DEF Begin, Retry, TypeInv, TypeOK
<1>5. shared' \in BOOLEAN
  BY DEF Begin, Retry, TypeInv, TypeOK
<1> HIDE DEF r
<1> QED BY <1>1, <1>2, <1>3, <1>4, <1>5, FileFacts, OneWriter

LEMMA GiveUpType == ASSUME TypeInv, NEW x \in Writer, GiveUp(x)  PROVE TypeInv'
<1>1. /\ Idle \in WriterState /\ Idle.pc = "idle" /\ Idle.at = CurrentJSON
  BY IdleType DEF Idle
<1> QED BY <1>1, FileFacts, OneWriter DEF GiveUp, TypeInv, TypeOK

LEMMA ReadCurrentType == ASSUME TypeInv, NEW x \in Writer, ReadCurrent(x)  PROVE TypeInv'
<1> DEFINE p == file[CurrentJSON]
           c == CompareValues(IF p = Missing THEN Null ELSE p, w[x].doc, Config)
           r == [w[x] EXCEPT !.pc = "render", !.previous = p, !.diff = c, !.before = Files]
<1>1. p \in Doc \cup {Missing} /\ p \in Content
  BY FileFacts DEF ReadCurrent, TypeInv, TypeOK, Content
<1>2. w[x].doc \in Doc
  BY DEF ReadCurrent, TypeInv, HasDoc
<1>3. c \in Diff
  <2>1. \A e : e = Null \/ e \in Seq(Item) =>
          CompareValues(e, w[x].doc, Config) \in Diff
    BY <1>2, DocFacts, CompareValuesType
  <2> QED BY <1>1, <2>1, DocFacts
<1>4. Files \in DirState
  BY FilesType DEF TypeInv, TypeOK
<1>5. w[x] \in WriterState /\ r.at = w[x].at /\ r.doc = w[x].doc
  BY WriterFacts DEF TypeInv, WriterState
<1>6. r \in WriterState
  <2> HIDE DEF p, c
  <2> QED BY <1>1, <1>3, <1>4, <1>5 DEF WriterState, Diff
<1>7. r.at \in Snap => r.at[2] <= clock
  BY <1>5 DEF TypeInv, Named
<1>8. w' = [w EXCEPT ![x] = r]
  BY DEF ReadCurrent
<1>9. /\ UNCHANGED <<file, tmp, clock>>
      /\ faults' \in 0 .. MaxFaults /\ last' \in Doc \cup {Missing}
      /\ partial' \in BOOLEAN /\ shared' \in BOOLEAN
  BY DEF ReadCurrent, TypeInv, TypeOK
<1> HIDE DEF r
<1> QED BY <1>2, <1>5, <1>6, <1>7, <1>8, <1>9, OneWriter

LEMMA RenderType == ASSUME TypeInv, NEW x \in Writer, Render(x)  PROVE TypeInv'
<1> DEFINE r == [w[x] EXCEPT !.pc = "write", !.at = FirstFile(x), !.before = <<>>]
<1>1. FirstFile(x) \in File /\ FirstFile(x) \notin Snap
  BY FileFacts DEF FirstFile
<1>2. w[x] \in WriterState /\ w[x].doc \in Doc
  BY WriterFacts DEF Render, TypeInv, HasDoc
<1>3. <<>> \in DirState
  BY DEF DirState
<1>4. r \in WriterState /\ r.at = FirstFile(x) /\ r.doc = w[x].doc
  BY <1>1, <1>2, <1>3 DEF WriterState
<1>5. w' = [w EXCEPT ![x] = r]
  BY DEF Render
<1>6. /\ UNCHANGED <<file, tmp, clock>>
      /\ faults' \in 0 .. MaxFaults /\ last' \in Doc \cup {Missing}
      /\ partial' \in BOOLEAN /\ shared' \in BOOLEAN
  BY DEF Render, TypeInv, TypeOK
<1> HIDE DEF r
<1> QED BY <1>1, <1>2, <1>4, <1>5, <1>6, OneWriter

LEMMA OpenTmpType == ASSUME TypeInv, NEW x \in Writer, OpenTmp(x)  PROVE TypeInv'
<1>1. [w[x] EXCEPT !.open = "tmp"] \in WriterState
  BY WriterFacts DEF TypeInv, WriterState
<1>2. w' = [w EXCEPT ![x] = [w[x] EXCEPT !.open = "tmp"]]
  BY DEF OpenTmp
<1>3. /\ w' \in [Writer -> WriterState]
      /\ \A y \in Writer : /\ w'[y].pc = w[y].pc /\ w'[y].doc = w[y].doc
                           /\ w'[y].at = w[y].at
  BY <1>1, <1>2 DEF TypeInv, TypeOK, WriterState
<1>4. \A y \in Writer : w'[y].pc = "list" => w[y].pc \notin {"idle", "failed"}
  BY <1>3
<1>5. w[x].at \in File /\ (w[x].at \in Snap => w[x].at[2] <= clock)
  BY WriterFacts DEF TypeInv, Named
<1>6. /\ tmp' = [tmp EXCEPT ![w[x].at] = Torn]
      /\ UNCHANGED <<file, clock, faults, last, partial, shared>>
  BY DEF OpenTmp
<1> QED BY <1>3, <1>4, <1>5, <1>6, DocFacts, FilesStep

LEMMA FillTmpType == ASSUME TypeInv, NEW x \in Writer, FillTmp(x)  PROVE TypeInv'
<1> DEFINE f == w[x].at
<1>1. [w[x] EXCEPT !.open = "filled"] \in WriterState
  BY WriterFacts DEF TypeInv, WriterState
<1>2. w' = [w EXCEPT ![x] = [w[x] EXCEPT !.open = "filled"]]
  BY DEF FillTmp
<1>3. /\ w' \in [Writer -> WriterState]
      /\ \A y \in Writer : /\ w'[y].pc = w[y].pc /\ w'[y].doc = w[y].doc
                           /\ w'[y].at = w[y].at
  BY <1>1, <1>2 DEF TypeInv, TypeOK, WriterState
<1>4. \A y \in Writer : w'[y].pc = "list" => w[y].pc \notin {"idle", "failed"}
  BY <1>3
<1>5. f \in File /\ (f \in Snap => f[2] <= clock)
  BY WriterFacts DEF TypeInv, Named
<1>6. w[x].doc \in Doc /\ \A c : Written(c, w[x].doc) \subseteq Content
  <2>1. w[x].doc \in Doc
    BY DEF FillTmp, TypeInv, HasDoc
  <2> QED BY <2>1, DocFacts DEF Written
<1>7. UNCHANGED <<clock, faults, last, partial, shared>>
  BY DEF FillTmp
<1>8. PICK c \in Content : /\ file' = [file EXCEPT ![f] = c] \/ file' = file
                           /\ tmp' = [tmp EXCEPT ![f] = c] \/ tmp' = tmp
  BY <1>6, DocFacts DEF FillTmp
<1> HIDE DEF f
<1> QED BY <1>3, <1>4, <1>5, <1>7, <1>8, FilesStep

\* What the others see when file f is renamed.
LEMMA RenamedFacts ==
  ASSUME TypeInv, NEW f, NEW y \in Writer
  PROVE  /\ Renamed(f)[y] \in WriterState
         /\ Renamed(f)[y].pc = w[y].pc /\ Renamed(f)[y].doc = w[y].doc
         /\ Renamed(f)[y].at = w[y].at
         /\ Renamed(f)[y].diff = w[y].diff /\ Renamed(f)[y].previous = w[y].previous
         /\ w[y].at # f \/ w[y].pc # "write" => Renamed(f)[y] = w[y]
<1>1. w[y] \in WriterState
  BY WriterFacts DEF TypeInv
<1>2. CASE w[y].pc = "write" /\ w[y].at = f
  <2> DEFINE o == CASE w[y].open = "tmp" -> "target" [] w[y].open = "target" -> "gone"
                    [] OTHER -> w[y].open
  <2>1. o \in {"no", "tmp", "target", "gone", "filled"}
    BY <1>1 DEF WriterState
  <2>2. Renamed(f)[y] = [w[y] EXCEPT !.open = o]
    BY <1>2 DEF Renamed
  <2> HIDE DEF o
  <2> QED BY <1>1, <1>2, <2>1, <2>2 DEF WriterState
<1>3. CASE ~(w[y].pc = "write" /\ w[y].at = f)
  BY <1>1, <1>3 DEF Renamed
<1> QED BY <1>2, <1>3

LEMMA NextFileFacts ==
  ASSUME TypeInv, NEW x \in Writer, w[x].at = CurrentMD => clock < MaxWrites
  PROVE  /\ NextFile(w[x]) \in WriterState
         /\ NextFile(w[x]).doc = w[x].doc /\ NextFile(w[x]).open = "no"
         /\ NextFile(w[x]).diff = w[x].diff /\ NextFile(w[x]).previous = w[x].previous
         /\ NextFile(w[x]).error = w[x].error
         /\ w[x].at = BaselineJSON => NextFile(w[x]).at = CurrentJSON
         /\ w[x].at = CurrentJSON => NextFile(w[x]).at = CurrentMD
         /\ w[x].at = CurrentMD => NextFile(w[x]).at = Snapshot(clock + 1)
         /\ w[x].at \notin Snap => NextFile(w[x]).pc = w[x].pc
         /\ w[x].at \in Snap => NextFile(w[x]).pc = "list" /\ NextFile(w[x]).at = w[x].at
<1>1. w[x] \in WriterState /\ w[x].at \in File
  BY WriterFacts DEF TypeInv
<1>2. CASE w[x].at = BaselineJSON
  BY <1>1, <1>2, FileFacts DEF NextFile, WriterState
<1>3. CASE w[x].at = CurrentJSON
  BY <1>1, <1>3, FileFacts DEF NextFile, WriterState
<1>4. CASE w[x].at = CurrentMD
  <2>1. clock + 1 \in 1 .. MaxWrites
    BY <1>4, StoreAssumption DEF TypeInv, TypeOK
  <2>2. Snapshot(clock + 1) \in File
    BY <2>1, SnapFacts, FileFacts
  <2>3. NextFile(w[x]) = [w[x] EXCEPT !.at = Snapshot(clock + 1), !.open = "no"]
    BY <1>4, FileFacts DEF NextFile
  <2> QED BY <1>1, <1>4, <2>2, <2>3, FileFacts DEF WriterState
<1>5. CASE w[x].at \in Snap
  BY <1>1, <1>5, FileFacts DEF NextFile, WriterState
<1> QED BY <1>1, <1>2, <1>3, <1>4, <1>5, FileFacts

LEMMA RenameType == ASSUME TypeInv, NEW x \in Writer, Rename(x)  PROVE TypeInv'
<1> DEFINE f == w[x].at
           r == NextFile(w[x])
<1>1. /\ f \in File /\ (f \in Snap => f[2] <= clock)
      /\ tmp[f] \in Content /\ Missing \in Content
  BY WriterFacts, DocFacts DEF TypeInv, Named, TypeOK
<1>2. clock \in 0 .. MaxWrites /\ clock' \in 0 .. MaxWrites /\ clock <= clock'
  BY StoreAssumption DEF Rename, TypeInv, TypeOK
<1>3. \A y \in Writer : w'[y] = IF y = x THEN r ELSE Renamed(f)[y]
  BY DEF Rename, Renamed
<1>4. r \in WriterState /\ \A y \in Writer : Renamed(f)[y] \in WriterState
  BY NextFileFacts, RenamedFacts DEF Rename
<1>5. w' \in [Writer -> WriterState]
  <2>1. w' = [Renamed(f) EXCEPT ![x] = r]
    BY DEF Rename
  <2>2. Renamed(f) \in [Writer -> WriterState]
    BY <1>4 DEF Renamed
  <2> HIDE DEF f, r
  <2> QED BY <1>4, <2>1, <2>2
<1>6. file' \in [File -> Content] /\ tmp' \in [File -> Content]
  BY <1>1 DEF Rename, TypeInv, TypeOK
<1>7. \A s \in Snap : s[2] > clock' => file'[s] = Missing /\ tmp'[s] = Missing
  <2> SUFFICES ASSUME NEW s \in Snap, s[2] > clock'
               PROVE  file'[s] = Missing /\ tmp'[s] = Missing
    OBVIOUS
  <2>1. s[2] > clock /\ s # f /\ s \in File
    BY <1>1, <1>2, SnapFacts, FileFacts
  <2> QED BY <2>1 DEF Rename, TypeInv, TypeOK
<1>8. TypeOK'
  BY <1>2, <1>5, <1>6, <1>7 DEF TypeOK, TypeInv, Rename
<1>9. HasDoc'
  <2> SUFFICES ASSUME NEW y \in Writer, w'[y].pc \notin {"idle", "failed"}
               PROVE  w'[y].doc \in Doc
    BY DEF HasDoc
  <2>1. CASE y = x
    <3>1. w[x].doc \in Doc
      BY DEF Rename, TypeInv, HasDoc
    <3> QED BY <2>1, <3>1, <1>3, NextFileFacts DEF Rename
  <2>2. CASE y # x
    BY <2>2, <1>3, RenamedFacts DEF TypeInv, HasDoc
  <2> QED BY <2>1, <2>2
<1>10. Named'
  <2> SUFFICES ASSUME NEW y \in Writer, w'[y].at \in Snap
               PROVE  w'[y].at[2] <= clock'
    BY DEF Named
  <2>1. CASE y # x
    <3>1. w'[y].at = w[y].at
      BY <2>1, <1>3, RenamedFacts
    <3>2. w[y].at[2] <= clock /\ w[y].at[2] \in Int
      BY <3>1, SnapFacts DEF TypeInv, Named
    <3> QED BY <3>1, <3>2, <1>2
  <2>2. CASE y = x /\ f \in Snap
    <3>1. w'[y].at = f /\ f[2] \in Int
      BY <2>2, <1>3, NextFileFacts, SnapFacts DEF Rename
    <3> QED BY <3>1, <2>2, <1>1, <1>2
  <2>3. CASE y = x /\ f = CurrentMD
    <3>1. clock' = clock + 1 /\ clock + 1 \in 1 .. MaxWrites
      BY <2>3, StoreAssumption DEF Rename, TypeInv, TypeOK
    <3>2. w'[y].at = Snapshot(clock + 1)
      BY <2>3, <1>3, NextFileFacts DEF Rename
    <3> QED BY <3>1, <3>2, SnapFacts, <1>2
  <2>4. CASE y = x /\ f \in {BaselineJSON, CurrentJSON}
    <3>1. w'[y].at \in {CurrentJSON, CurrentMD}
      BY <2>4, <1>3, NextFileFacts, FileFacts DEF Rename
    <3> QED BY <3>1, FileFacts
  <2> QED BY <2>1, <2>2, <2>3, <2>4, <1>1, FileFacts
<1> QED BY <1>8, <1>9, <1>10 DEF TypeInv

LEMMA ListType == ASSUME TypeInv, NEW x \in Writer, ListSnapshots(x)  PROVE TypeInv'
<1> DEFINE r == [w[x] EXCEPT !.pc = "prune", !.list = Outdated(Entries)]
<1>1. Outdated(Entries) \in SUBSET (Snap \X {"json", "tmp"})
  BY DEF Outdated, Entries
<1>2. w[x] \in WriterState /\ w[x].doc \in Doc
  BY WriterFacts DEF ListSnapshots, TypeInv, HasDoc
<1>3. r \in WriterState /\ r.at = w[x].at /\ r.doc = w[x].doc
  BY <1>1, <1>2 DEF WriterState
<1>4. r.at \in Snap => r.at[2] <= clock
  BY <1>3 DEF TypeInv, Named
<1>5. w' = [w EXCEPT ![x] = r]
  BY DEF ListSnapshots
<1>6. /\ UNCHANGED <<file, tmp, clock>>
      /\ faults' \in 0 .. MaxFaults /\ last' \in Doc \cup {Missing}
      /\ partial' \in BOOLEAN /\ shared' \in BOOLEAN
  BY DEF ListSnapshots, TypeInv, TypeOK
<1> HIDE DEF r
<1> QED BY <1>2, <1>3, <1>4, <1>5, <1>6, OneWriter

\* What the others see when an entry of the snapshots directory is removed.
LEMMA RemoveFacts ==
  ASSUME TypeInv, NEW x \in Writer, RemoveSnapshot(x), NEW y \in Writer
  PROVE  /\ w'[y] \in WriterState
         /\ w'[y].pc = w[y].pc /\ w'[y].doc = w[y].doc /\ w'[y].at = w[y].at
         /\ w'[y].diff = w[y].diff /\ w'[y].previous = w[y].previous
         /\ w'[y].before = w[y].before /\ w'[y].error = w[y].error
         /\ w'[y].open # w[y].open => w[y].at \in Snap /\ w[y].open = "tmp"
<1>1. w[y] \in WriterState
  BY WriterFacts DEF TypeInv
<1>2. PICK e \in w[x].list \cap Entries :
        w'[y] = IF y = x THEN [w[y] EXCEPT !.list = @ \ {e}]
                ELSE IF e[2] = "tmp" /\ w[y].at = e[1] /\ w[y].open = "tmp"
                THEN [w[y] EXCEPT !.open = "gone"] ELSE w[y]
  BY DEF RemoveSnapshot
<1>3. e[1] \in Snap
  BY DEF Entries
<1>4. CASE y = x
  BY <1>1, <1>2, <1>4 DEF WriterState
<1>5. CASE y # x /\ e[2] = "tmp" /\ w[y].at = e[1] /\ w[y].open = "tmp"
  BY <1>1, <1>2, <1>3, <1>5 DEF WriterState
<1>6. CASE y # x /\ ~(e[2] = "tmp" /\ w[y].at = e[1] /\ w[y].open = "tmp")
  BY <1>1, <1>2, <1>6
<1> QED BY <1>4, <1>5, <1>6

LEMMA RemoveType == ASSUME TypeInv, NEW x \in Writer, RemoveSnapshot(x)  PROVE TypeInv'
<1>1. PICK e \in Entries :
        /\ file' = [file EXCEPT ![e[1]] = Missing] \/ file' = file
        /\ tmp' = [tmp EXCEPT ![e[1]] = Missing] \/ tmp' = tmp
  BY DEF RemoveSnapshot
<1>2. e[1] \in Snap /\ e[1] \in File /\ e[1][2] <= clock
  <2>1. e[1] \in Snap /\ (file[e[1]] # Missing \/ tmp[e[1]] # Missing)
    BY DEF Entries
  <2>2. e[1][2] \in Int /\ clock \in Int
    BY <2>1, SnapFacts DEF TypeInv, TypeOK
  <2> QED BY <2>1, <2>2, FileFacts DEF TypeInv, TypeOK
<1>3. DOMAIN w' = Writer /\ w' = [y \in Writer |-> w'[y]]
  BY DEF RemoveSnapshot
<1>4. w' \in [Writer -> WriterState]
  BY <1>3, RemoveFacts
<1>5. \A y \in Writer : /\ w'[y].pc = w[y].pc /\ w'[y].doc = w[y].doc
                         /\ w'[y].at = w[y].at
  BY RemoveFacts
<1>6. \A y \in Writer : w'[y].pc = "list" => w[y].pc \notin {"idle", "failed"}
  BY <1>5
<1>7. UNCHANGED <<clock, faults, last, partial, shared>>
  BY DEF RemoveSnapshot
<1> HIDE DEF TypeInv
<1> QED BY <1>1, <1>2, <1>4, <1>5, <1>6, <1>7, DocFacts, FilesStep

LEMMA SucceedType == ASSUME TypeInv, NEW x \in Writer, Succeed(x)  PROVE TypeInv'
<1>1. Idle \in WriterState /\ Idle.pc = "idle" /\ Idle.at = CurrentJSON
  BY IdleType DEF Idle
<1>2. last' \in Doc
  BY DEF Succeed, TypeInv, HasDoc
<1>3. w' = [w EXCEPT ![x] = Idle] /\ UNCHANGED <<file, tmp, clock, faults, shared>>
  BY DEF Succeed
<1>4. partial' \in BOOLEAN /\ faults' \in 0 .. MaxFaults /\ shared' \in BOOLEAN
  BY <1>3 DEF Succeed, TypeInv, TypeOK
<1> QED BY <1>1, <1>2, <1>3, <1>4, FileFacts, OneWriter

LEMMA CrashType == ASSUME TypeInv, Crash  PROVE TypeInv'
<1>1. w' \in [Writer -> WriterState] /\ \A y \in Writer : w'[y] = Idle
  BY IdleType DEF Crash
<1>2. /\ faults < MaxFaults /\ faults' = faults + 1 /\ UNCHANGED <<file, tmp, clock, last, shared>>
      /\ partial' = (partial \/ \E x \in Writer : ReplacedCurrent(x))
  BY DEF Crash
<1>3. faults' \in 0 .. MaxFaults /\ partial' \in BOOLEAN
  BY <1>2, StoreAssumption DEF TypeInv, TypeOK
<1>4. TypeOK'
  BY <1>1, <1>2, <1>3 DEF TypeInv, TypeOK
<1>5. HasDoc' /\ Named'
  BY <1>1, FileFacts DEF HasDoc, Named, Idle
<1> QED BY <1>4, <1>5 DEF TypeInv

LEMMA TypeStep == TypeInv /\ [Next]_vars => TypeInv'
<1> SUFFICES ASSUME TypeInv, [Next]_vars PROVE TypeInv'
  OBVIOUS
<1>1. CASE Crash
  BY <1>1, CrashType
<1>2. ASSUME NEW x \in Writer, Step(x) PROVE TypeInv'
  <2>1. CASE \E d \in Doc : Begin(x, d) \/ Retry(x, d)
    BY <2>1, BeginType
  <2>2. CASE GiveUp(x) \/ ReadCurrent(x) \/ Render(x)
    BY <2>2, GiveUpType, ReadCurrentType, RenderType
  <2>3. CASE ReadFails(x) \/ RenderFails(x) \/ WriteFails(x) \/ PruneFails(x)
    <3>1. /\ UNCHANGED <<file, tmp>>
          /\ \/ Fail(x, [w[x] EXCEPT !.error = TRUE])
             \/ Fail(x, w[x])
      BY <2>3 DEF ReadFails, RenderFails, WriteFails, PruneFails
    <3> QED BY <3>1, FailType
  <2>4. CASE OpenTmp(x) \/ FillTmp(x) \/ Rename(x)
    BY <2>4, OpenTmpType, FillTmpType, RenameType
  <2>5. CASE ListSnapshots(x) \/ RemoveSnapshot(x) \/ Succeed(x)
    BY <2>5, ListType, RemoveType, SucceedType
  <2> QED BY <1>2, <2>1, <2>2, <2>3, <2>4, <2>5 DEF Step
<1>3. CASE UNCHANGED vars
  BY <1>3 DEF vars, TypeInv, TypeOK, HasDoc, Named
<1> QED BY <1>1, <1>2, <1>3 DEF Next

\* Every variable has its type, for any writers, documents and bounds.
THEOREM TypeCorrect == Spec => []TypeOK
<1>1. TypeInv => TypeOK
  BY DEF TypeInv
<1> QED BY <1>1, TypeInit, TypeStep, PTL DEF Spec

(***************************************************************************)
(* Whole files                                                             *)
(*                                                                         *)
(* A file is put in place by one rename of a .tmp file.  As long as nobody *)
(* else has that .tmp file open it holds the whole document by then: for a *)
(* snapshot because its name is used once, for the other files while the   *)
(* runs do not overlap.                                                    *)
(***************************************************************************)

\* Files that at most one goroutine writes at a time.
Private(f) == f \in Snap \/ ~shared

Alone == ~shared => \A x, y \in Writer : Active(x) /\ Active(y) => x = y

Exclusive == \A x, y \in Writer :
  w[x].pc = "write" /\ w[y].pc = "write" /\ w[x].at = w[y].at /\ w[x].at \in Snap
    => x = y

Fresh(x) == w[x].pc \in {"read", "render"} => w[x].open = "no"

\* How far a goroutine has come with its .tmp file.
Progress(x) ==
  w[x].pc = "write" /\ Private(w[x].at) =>
    /\ w[x].open # "target"
    /\ w[x].open = "tmp" => tmp[w[x].at] = Torn
    /\ w[x].open = "gone" => tmp[w[x].at] = Missing
    /\ w[x].open = "filled" => tmp[w[x].at] \in {w[x].doc, Missing}

WholeInv ==
  /\ Alone
  /\ Exclusive
  /\ \A x \in Writer : Fresh(x) /\ Progress(x)
  /\ FilesWhole

LEMMA WholeInit == Init => WholeInv
<1> SUFFICES ASSUME Init PROVE WholeInv
  OBVIOUS
<1>1. \A x \in Writer : w[x].pc = "idle"
  BY DEF Init, Idle
<1>2. \A f \in File : file[f] = Missing
  BY DEF Init
<1>3. FilesWhole
  BY <1>2, FileFacts, DocFacts DEF FilesWhole
<1>4. Alone /\ Exclusive /\ \A x \in Writer : Fresh(x) /\ Progress(x)
  BY <1>1 DEF Alone, Exclusive, Fresh, Progress, Active
<1> QED BY <1>3, <1>4 DEF WholeInv

\* Only the goroutine itself has a private file open.
LEMMA Private1 ==
  ASSUME WholeInv, NEW x \in Writer, NEW y \in Writer, w[x].pc = "write",
         w[y].pc = "write", w[x].at = w[y].at, Private(w[x].at)
  PROVE  x = y
  BY DEF WholeInv, Alone, Exclusive, Private, Active

\* A step of one goroutine that touches no file and is not in the middle of
\* writing one afterwards.
LEMMA NoFileStep ==
  ASSUME TypeInv, WholeInv, NEW x \in Writer, NEW r,
         w' = [w EXCEPT ![x] = r],
         UNCHANGED <<file, tmp>>,
         Active(x) \/ (~shared' => \A y \in Writer : ~Active(y)),
         ~shared' => ~shared,
         r.pc \in {"read", "render"} => r.open = "no",
         r.pc = "write" => r.open = "no" /\ r.at \notin Snap
  PROVE  WholeInv'
<1>1. \A y \in Writer : w'[y] = IF y = x THEN r ELSE w[y]
  BY DEF TypeInv, TypeOK
<1>2. Alone'
  BY <1>1 DEF WholeInv, Alone, Active
<1>3. Exclusive'
  BY <1>1 DEF WholeInv, Exclusive
<1>4. ASSUME NEW y \in Writer PROVE Fresh(y)' /\ Progress(y)'
  BY <1>1, <1>4 DEF WholeInv, Fresh, Progress, Private
<1>5. FilesWhole'
  BY DEF WholeInv, FilesWhole
<1> QED BY <1>2, <1>3, <1>4, <1>5 DEF WholeInv

LEMMA WholeOpen == ASSUME TypeInv, WholeInv, NEW x \in Writer, OpenTmp(x)  PROVE WholeInv'
<1>1. \A y \in Writer : w'[y] = IF y = x THEN [w[x] EXCEPT !.open = "tmp"] ELSE w[y]
  BY DEF OpenTmp, TypeInv, TypeOK
<1>2. w[x] \in WriterState /\ w[x].at \in File /\ w[x].pc = "write"
  BY WriterFacts DEF OpenTmp, TypeInv
<1>3. /\ w'[x].pc = "write" /\ w'[x].at = w[x].at /\ w'[x].open = "tmp"
      /\ \A y \in Writer : w'[y].pc = w[y].pc /\ w'[y].at = w[y].at
  BY <1>1, <1>2 DEF WriterState
<1>4. \A f \in File : tmp'[f] = IF f = w[x].at THEN Torn ELSE tmp[f]
  BY DEF OpenTmp, TypeInv, TypeOK
<1>5. UNCHANGED <<file, shared>>
  BY DEF OpenTmp
<1>6. Alone' /\ Exclusive' /\ FilesWhole'
  BY <1>3, <1>5 DEF WholeInv, Alone, Exclusive, Active, FilesWhole
<1>7. ASSUME NEW y \in Writer PROVE Fresh(y)' /\ Progress(y)'
  <2>1. CASE y = x
    BY <2>1, <1>2, <1>3, <1>4 DEF Fresh, Progress
  <2>2. CASE y # x
    <3>1. w'[y] = w[y] /\ w[y].at \in File
      BY <2>2, <1>1, WriterFacts DEF TypeInv
    <3>2. w[y].pc = "write" /\ Private(w[y].at) => w[y].at # w[x].at
      BY <2>2, <1>2, Private1
    <3> QED BY <3>1, <3>2, <1>4, <1>5 DEF WholeInv, Fresh, Progress, Private
  <2> QED BY <2>1, <2>2
<1> QED BY <1>6, <1>7 DEF WholeInv

LEMMA WholeFill == ASSUME TypeInv, WholeInv, NEW x \in Writer, FillTmp(x)  PROVE WholeInv'
<1> DEFINE f == w[x].at
<1>1. \A y \in Writer : w'[y] = IF y = x THEN [w[x] EXCEPT !.open = "filled"] ELSE w[y]
  BY DEF FillTmp, TypeInv, TypeOK
<1>2. w[x] \in WriterState /\ f \in File /\ w[x].pc = "write" /\ w[x].doc \in Doc
  BY WriterFacts DEF FillTmp, TypeInv, HasDoc
<1>3. /\ w'[x].pc = "write" /\ w'[x].at = f /\ w'[x].open = "filled"
      /\ w'[x].doc = w[x].doc
      /\ \A y \in Writer : w'[y].pc = w[y].pc /\ w'[y].at = w[y].at
  BY <1>1, <1>2 DEF WriterState
<1>4. \A g \in File : g # f => tmp'[g] = tmp[g] /\ file'[g] = file[g]
  BY DEF FillTmp, TypeInv, TypeOK
<1>5. UNCHANGED shared
  BY DEF FillTmp
<1>6. ASSUME Private(f)
      PROVE  file'[f] = file[f] /\ tmp'[f] \in {w[x].doc, Missing}
  <2>1. /\ w[x].open # "target" /\ (w[x].open = "tmp" => tmp[f] = Torn)
        /\ w[x].open = "gone" => tmp[f] = Missing
    BY <1>2, <1>6 DEF WholeInv, Progress
  <2>2. CASE w[x].open = "tmp"
    <3>1. Written(Torn, w[x].doc) = {w[x].doc}
      BY DEF Written
    <3> QED BY <2>1, <2>2, <3>1, <1>2 DEF FillTmp, TypeInv, TypeOK
  <2>3. CASE w[x].open = "gone"
    BY <2>1, <2>3 DEF FillTmp
  <2> QED BY <2>1, <2>2, <2>3 DEF FillTmp
<1>7. Alone' /\ Exclusive'
  BY <1>3, <1>5 DEF WholeInv, Alone, Exclusive, Active
<1>8. ASSUME NEW y \in Writer PROVE Fresh(y)' /\ Progress(y)'
  <2>1. CASE y = x
    BY <2>1, <1>2, <1>3, <1>5, <1>6 DEF Fresh, Progress, Private
  <2>2. CASE y # x
    <3>1. w'[y] = w[y] /\ w[y].at \in File
      BY <2>2, <1>1, WriterFacts DEF TypeInv
    <3>2. w[y].pc = "write" /\ Private(w[y].at) => w[y].at # f
      BY <2>2, <1>2, Private1
    <3> QED BY <3>1, <3>2, <1>4, <1>5 DEF WholeInv, Fresh, Progress, Private
  <2> QED BY <2>1, <2>2
<1>9. FilesWhole'
  <2>1. ASSUME NEW g \in File, Private(g) PROVE file'[g] # Torn
    <3>1. file[g] # Torn
      BY <2>1 DEF WholeInv, FilesWhole, Private
    <3> QED BY <3>1, <2>1, <1>4, <1>6
  <2> QED BY <2>1, <1>5, FileFacts DEF FilesWhole, Private
<1> QED BY <1>7, <1>8, <1>9 DEF WholeInv

LEMMA WholeRename == ASSUME TypeInv, WholeInv, NEW x \in Writer, Rename(x)  PROVE WholeInv'
<1> DEFINE f == w[x].at
           r == NextFile(w[x])
<1>1. \A y \in Writer : w'[y] = IF y = x THEN r ELSE Renamed(f)[y]
  BY DEF Rename, Renamed
<1>2. /\ f \in File /\ w[x].pc = "write" /\ w[x].open = "filled"
      /\ w[x].doc \in Doc /\ tmp[f] # Missing
  BY WriterFacts DEF Rename, TypeInv, HasDoc
<1>3. /\ \A y \in Writer : y # x => w'[y].pc = w[y].pc /\ w'[y].at = w[y].at
      /\ w'[x].pc \in {"write", "list"} /\ w'[x].open = "no"
  BY <1>1, <1>2, RenamedFacts, NextFileFacts DEF Rename
<1>4. /\ \A g \in File : g # f => tmp'[g] = tmp[g] /\ file'[g] = file[g]
      /\ file'[f] = tmp[f]
  BY <1>2 DEF Rename, TypeInv, TypeOK
<1>5. UNCHANGED shared
  BY DEF Rename
<1>6. Alone'
  BY <1>2, <1>3, <1>5 DEF WholeInv, Alone, Active
<1>7. Exclusive'
  <2>1. SUFFICES ASSUME NEW y \in Writer, y # x, w'[y].pc = "write", w'[x].pc = "write",
                        w'[x].at \in Snap, w'[y].at \in Snap
                 PROVE  w'[x].at # w'[y].at
    BY <1>3 DEF WholeInv, Exclusive
  <2>2. f = CurrentMD
    <3>1. f \in Snap => w'[x].pc = "list"
      BY <1>1, <1>2, NextFileFacts DEF Rename
    <3>2. f \in {BaselineJSON, CurrentJSON} => w'[x].at \in {CurrentJSON, CurrentMD}
      BY <1>1, <1>2, NextFileFacts DEF Rename
    <3> QED BY <2>1, <3>1, <3>2, <1>2, FileFacts
  <2>3. w'[x].at = Snapshot(clock + 1) /\ clock + 1 \in 1 .. MaxWrites /\ clock \in Int
    BY <2>2, <1>1, <1>2, NextFileFacts, StoreAssumption DEF Rename, TypeInv, TypeOK
  <2>4. w'[y].at[2] <= clock /\ w'[y].at[2] \in Int
    BY <2>1, <1>3, SnapFacts DEF TypeInv, Named
  <2> QED BY <2>3, <2>4, SnapFacts
<1>8. ASSUME NEW y \in Writer PROVE Fresh(y)' /\ Progress(y)'
  <2>1. CASE y = x
    BY <2>1, <1>3 DEF Fresh, Progress
  <2>2. CASE y # x
    <3>1. CASE w[y].pc = "write" /\ Private(w[y].at)
      <4>1. w[y].at # f /\ w[y].at \in File
        BY <2>2, <3>1, <1>2, Private1, WriterFacts DEF TypeInv
      <4>2. w'[y] = w[y]
        BY <2>2, <4>1, <1>1, RenamedFacts
      <4> QED BY <4>1, <4>2, <1>4, <1>5 DEF WholeInv, Fresh, Progress, Private
    <3>2. CASE w[y].pc = "write" /\ ~Private(w[y].at)
      BY <2>2, <3>2, <1>3, <1>5 DEF Fresh, Progress, Private
    <3>3. CASE w[y].pc # "write"
      <4>1. w'[y] = w[y]
        BY <2>2, <3>3, <1>1, RenamedFacts
      <4> QED BY <4>1, <3>3 DEF WholeInv, Fresh, Progress
    <3> QED BY <3>1, <3>2, <3>3
  <2> QED BY <2>1, <2>2
<1>9. FilesWhole'
  <2>1. ASSUME NEW g \in File, Private(g) PROVE file'[g] # Torn
    <3>1. CASE g # f
      BY <2>1, <3>1, <1>4 DEF WholeInv, FilesWhole, Private
    <3>2. CASE g = f
      <4>1. tmp[f] = w[x].doc
        BY <2>1, <3>2, <1>2 DEF WholeInv, Progress
      <4> QED BY <4>1, <3>2, <1>2, <1>4, DocFacts
    <3> QED BY <3>1, <3>2
  <2> QED BY <2>1, <1>5, FileFacts DEF FilesWhole, Private
<1> QED BY <1>6, <1>7, <1>8, <1>9 DEF WholeInv

LEMMA WholeRemove ==
  ASSUME TypeInv, WholeInv, NEW x \in Writer, RemoveSnapshot(x)  PROVE WholeInv'
<1>1. PICK e \in w[x].list \cap Entries :
        /\ IF e[2] = "json"
           THEN file' = [file EXCEPT ![e[1]] = Missing] /\ UNCHANGED tmp
           ELSE tmp' = [tmp EXCEPT ![e[1]] = Missing] /\ UNCHANGED file
        /\ w' = [y \in Writer |->
                   IF y = x THEN [w[y] EXCEPT !.list = @ \ {e}]
                   ELSE IF e[2] = "tmp" /\ w[y].at = e[1] /\ w[y].open = "tmp"
                   THEN [w[y] EXCEPT !.open = "gone"] ELSE w[y]]
  BY DEF RemoveSnapshot
<1>2. e[1] \in Snap /\ e[1] \in File /\ e[2] \in {"json", "tmp"}
  BY FileFacts DEF Entries
<1>3. \A y \in Writer : /\ w'[y].pc = w[y].pc /\ w'[y].doc = w[y].doc
                         /\ w'[y].at = w[y].at
  BY RemoveFacts
<1>4. UNCHANGED shared /\ w[x].pc = "prune"
  BY DEF RemoveSnapshot
<1>5. Alone' /\ Exclusive'
  BY <1>3, <1>4 DEF WholeInv, Alone, Exclusive, Active
<1>6. /\ \A f \in File : file'[f] \in {file[f], Missing}
      /\ \A f \in File : tmp'[f] = IF f = e[1] /\ e[2] = "tmp" THEN Missing ELSE tmp[f]
  BY <1>1, <1>2 DEF TypeInv, TypeOK
<1>7. FilesWhole'
  BY <1>4, <1>6, FileFacts, DocFacts DEF WholeInv, FilesWhole
<1>8. ASSUME NEW y \in Writer PROVE Fresh(y)' /\ Progress(y)'
  <2>1. w[y] \in WriterState /\ w[y].at \in File
    BY WriterFacts DEF TypeInv
  <2>2. CASE w[y].pc # "write"
    <3>1. w'[y].open # w[y].open => w[y].at \in Snap /\ w[y].open = "tmp"
      BY RemoveFacts
    <3>2. w[y].pc \in {"read", "render"} => w'[y].open = w[y].open
      BY <3>1 DEF WholeInv, Fresh
    <3> QED BY <2>2, <3>2, <1>3 DEF WholeInv, Fresh, Progress
  <2>3. CASE w[y].pc = "write" /\ e[2] = "tmp" /\ w[y].at = e[1] /\ w[y].open = "tmp"
    <3>1. w'[y].open = "gone"
      BY <2>1, <2>3, <1>1, <1>4 DEF WriterState
    <3>2. tmp'[w'[y].at] = Missing
      BY <2>1, <2>3, <1>3, <1>6
    <3> QED BY <2>3, <3>1, <3>2, <1>3 DEF Fresh, Progress
  <2>4. CASE w[y].pc = "write" /\ ~(e[2] = "tmp" /\ w[y].at = e[1] /\ w[y].open = "tmp")
    <3>1. w'[y] = w[y]
      BY <2>4, <1>1, <1>4
    <3>2. tmp'[w[y].at] \in {tmp[w[y].at], Missing}
          /\ (w[y].open = "tmp" => tmp'[w[y].at] = tmp[w[y].at])
      BY <2>1, <2>4, <1>2, <1>6
    <3> QED BY <2>4, <3>1, <3>2, <1>4 DEF WholeInv, Fresh, Progress, Private
  <2> QED BY <2>2, <2>3, <2>4
<1> QED BY <1>5, <1>7, <1>8 DEF WholeInv

LEMMA WholeStep == TypeInv /\ WholeInv /\ [Next]_vars => WholeInv'
<1> SUFFICES ASSUME TypeInv, WholeInv, [Next]_vars PROVE WholeInv'
  OBVIOUS
<1>1. CASE Crash
  <2>1. \A y \in Writer : w'[y].pc = "idle"
    BY <1>1 DEF Crash, Idle
  <2>2. UNCHANGED <<file, shared>>
    BY <1>1 DEF Crash
  <2>3. FilesWhole'
    BY <2>2 DEF WholeInv, FilesWhole
  <2> QED BY <2>1, <2>3 DEF WholeInv, Alone, Exclusive, Fresh, Progress, Active
<1>2. ASSUME NEW x \in Writer, Step(x) PROVE WholeInv'
  <2>1. ASSUME NEW d \in Doc, Begin(x, d) \/ Retry(x, d) PROVE WholeInv'
    <3>1. PICK n : w' = [w EXCEPT ![x] = [Idle EXCEPT !.pc = "read", !.attempt = n, !.doc = d]]
      BY <2>1 DEF Begin, Retry
    <3> DEFINE r == [Idle EXCEPT !.pc = "read", !.attempt = n, !.doc = d]
    <3>2. r.pc = "read" /\ r.open = "no"
      BY DEF Idle
    <3>3. /\ Active(x) \/ (~shared' => \A y \in Writer : ~Active(y))
          /\ ~shared' => ~shared
      <4>1. CASE Begin(x, d)
        <5>1. shared' = (shared \/ \E y \in Writer : Active(y))
          BY <4>1 DEF Begin
        <5> QED BY <5>1
      <4>2. CASE Retry(x, d)
        BY <4>2 DEF Retry, Active
      <4> QED BY <2>1, <4>1, <4>2
    <3>4. UNCHANGED <<file, tmp>>
      BY <2>1 DEF Begin, Retry
    <3> HIDE DEF r
    <3> QED BY <3>1, <3>2, <3>3, <3>4, NoFileStep DEF r
  <2>2. CASE GiveUp(x) \/ Succeed(x)
    <3>1. /\ w' = [w EXCEPT ![x] = Idle] /\ Idle.pc = "idle" /\ Active(x)
          /\ UNCHANGED <<file, tmp, shared>>
      BY <2>2 DEF GiveUp, Succeed, Active, Idle
    <3> QED BY <3>1, NoFileStep
  <2>3. CASE ReadCurrent(x)
    <3>1. PICK p, c, b : w' = [w EXCEPT ![x] =
            [w[x] EXCEPT !.pc = "render", !.previous = p, !.diff = c, !.before = b]]
      BY <2>3 DEF ReadCurrent
    <3> DEFINE r == [w[x] EXCEPT !.pc = "render", !.previous = p, !.diff = c, !.before = b]
    <3>2. r.pc = "render" /\ r.open = w[x].open
      BY WriterFacts DEF TypeInv, WriterState
    <3>3. w[x].open = "no" /\ Active(x) /\ UNCHANGED <<file, tmp, shared>>
      BY <2>3 DEF ReadCurrent, WholeInv, Fresh, Active
    <3> HIDE DEF r
    <3> QED BY <3>1, <3>2, <3>3, NoFileStep DEF r
  <2>4. CASE Render(x)
    <3> DEFINE r == [w[x] EXCEPT !.pc = "write", !.at = FirstFile(x), !.before = <<>>]
    <3>1. r.pc = "write" /\ r.open = w[x].open /\ r.at \notin Snap
      BY WriterFacts, FileFacts DEF TypeInv, WriterState, FirstFile
    <3>2. /\ w' = [w EXCEPT ![x] = r]
          /\ w[x].open = "no" /\ Active(x) /\ UNCHANGED <<file, tmp, shared>>
      BY <2>4 DEF Render, WholeInv, Fresh, Active
    <3> HIDE DEF r
    <3> QED BY <3>1, <3>2, NoFileStep
  <2>5. CASE ReadFails(x) \/ RenderFails(x) \/ WriteFails(x) \/ PruneFails(x)
    <3> DEFINE a == [[w[x] EXCEPT !.error = TRUE] EXCEPT !.pc = "failed"]
               b == [w[x] EXCEPT !.pc = "failed"]
    <3>1. a.pc = "failed" /\ b.pc = "failed"
      BY WriterFacts DEF TypeInv, WriterState
    <3>2. w' = [w EXCEPT ![x] = a] \/ w' = [w EXCEPT ![x] = b]
      BY <2>5 DEF ReadFails, RenderFails, WriteFails, PruneFails, Fail
    <3>3. UNCHANGED <<file, tmp, shared>> /\ Active(x)
      BY <2>5 DEF ReadFails, RenderFails, WriteFails, PruneFails, Fail, Active
    <3> HIDE DEF a, b
    <3> QED BY <3>1, <3>2, <3>3, NoFileStep
  <2>6. CASE ListSnapshots(x)
    <3> DEFINE r == [w[x] EXCEPT !.pc = "prune", !.list = Outdated(Entries)]
    <3>1. r.pc = "prune"
      BY WriterFacts DEF TypeInv, WriterState
    <3>2. /\ w' = [w EXCEPT ![x] = r]
          /\ Active(x) /\ UNCHANGED <<file, tmp, shared>>
      BY <2>6 DEF ListSnapshots, Active
    <3> HIDE DEF r
    <3> QED BY <3>1, <3>2, NoFileStep
  <2>7. CASE OpenTmp(x) \/ FillTmp(x) \/ Rename(x) \/ RemoveSnapshot(x)
    BY <2>7, WholeOpen, WholeFill, WholeRename, WholeRemove
  <2> QED BY <1>2, <2>1, <2>2, <2>3, <2>4, <2>5, <2>6, <2>7 DEF Step
<1>3. CASE UNCHANGED vars
  BY <1>3 DEF vars, WholeInv, Alone, Exclusive, Fresh, Progress, Private, FilesWhole, Active
<1> QED BY <1>1, <1>2, <1>3 DEF Next

\* No reader finds half a document, after failed writes and crashes too, as
\* long as the runs of the directory do not overlap; a snapshot is whole
\* always (atomicTextWrite).
THEOREM WholeFiles == Spec => []FilesWhole
<1>1. WholeInv => FilesWhole
  BY DEF WholeInv
<1> QED BY <1>1, TypeInit, TypeStep, WholeInit, WholeStep, PTL DEF Spec

(***************************************************************************)
(* The baseline comes first                                                *)
(***************************************************************************)

\* A goroutine that will write another file than the baseline knows that there
\* is one: it has written it, or it has found a current document.
BaselineInv ==
  /\ BaselineFirst
  /\ \A x \in Writer :
       (w[x].pc = "render" /\ ~Baseline(x)) \/ (w[x].pc = "write" /\ w[x].at # BaselineJSON)
         => file[BaselineJSON] # Missing

\* No step takes a baseline away, and current appears by a write of it only.
LEMMA FilesStay ==
  ASSUME TypeInv, [Next]_vars
  PROVE  /\ file[BaselineJSON] # Missing => file'[BaselineJSON] # Missing
         /\ file'[CurrentJSON] # Missing =>
              \/ file[CurrentJSON] # Missing
              \/ \E x \in Writer : w[x].pc = "write" /\ w[x].at = CurrentJSON
<1> DEFINE Goal ==
      /\ file[BaselineJSON] # Missing => file'[BaselineJSON] # Missing
      /\ file'[CurrentJSON] # Missing =>
           \/ file[CurrentJSON] # Missing
           \/ \E x \in Writer : w[x].pc = "write" /\ w[x].at = CurrentJSON
<1>1. CASE UNCHANGED file
  BY <1>1
<1>2. ASSUME NEW x \in Writer, FillTmp(x) PROVE Goal
  <2>1. w[x].doc \in Doc
    BY <1>2 DEF FillTmp, TypeInv, HasDoc
  <2>2. \A c : Missing \notin Written(c, w[x].doc)
    BY <2>1, DocFacts DEF Written
  <2>3. CASE file' = file
    BY <2>3
  <2>4. CASE \E c \in Written(file[w[x].at], w[x].doc) : file' = [file EXCEPT ![w[x].at] = c]
    <3>1. PICK c : c # Missing /\ file' = [file EXCEPT ![w[x].at] = c]
      BY <2>2, <2>4
    <3>2. \A f \in File : file'[f] = IF f = w[x].at THEN c ELSE file[f]
      BY <3>1 DEF TypeInv, TypeOK
    <3> QED BY <3>1, <3>2, <1>2, FileFacts DEF FillTmp
  <2> QED BY <1>2, <2>3, <2>4 DEF FillTmp
<1>3. ASSUME NEW x \in Writer, Rename(x) PROVE Goal
  <2>1. \A f \in File : file'[f] = IF f = w[x].at THEN tmp[f] ELSE file[f]
    BY <1>3 DEF Rename, TypeInv, TypeOK
  <2>2. tmp[w[x].at] # Missing /\ w[x].pc = "write"
    BY <1>3 DEF Rename
  <2> QED BY <2>1, <2>2, FileFacts
<1>4. ASSUME NEW x \in Writer, RemoveSnapshot(x) PROVE Goal
  <2>1. PICK e \in Entries : file' = [file EXCEPT ![e[1]] = Missing] \/ file' = file
    BY <1>4 DEF RemoveSnapshot
  <2>2. e[1] \in Snap
    BY DEF Entries
  <2>3. file'[BaselineJSON] = file[BaselineJSON] /\ file'[CurrentJSON] = file[CurrentJSON]
    BY <2>1, <2>2, FileFacts DEF TypeInv, TypeOK
  <2> QED BY <2>3
<1>5. CASE Next
  <2>1. ASSUME NEW x \in Writer, Step(x), ~FillTmp(x), ~Rename(x), ~RemoveSnapshot(x)
        PROVE  UNCHANGED file
    BY <2>1 DEF Step, Begin, Retry, GiveUp, ReadCurrent, ReadFails, Render, RenderFails,
                OpenTmp, WriteFails, ListSnapshots, PruneFails, Succeed
  <2>2. CASE Crash
    BY <2>2, <1>1 DEF Crash
  <2> QED BY <1>1, <1>2, <1>3, <1>4, <1>5, <2>1, <2>2 DEF Next
<1> QED BY <1>1, <1>5 DEF vars

\* Where a goroutine can come to write another file than the baseline.
LEMMA ReachesWrite ==
  ASSUME TypeInv, NEW x \in Writer, NEW y \in Writer, Step(x)
  PROVE  /\ w'[y].pc = "render" =>
              \/ w[y].pc = "render" /\ w'[y].previous = w[y].previous
              \/ w'[y].previous = file[CurrentJSON]
         /\ w'[y].pc = "write" /\ w'[y].at # BaselineJSON =>
              \/ w[y].pc = "write" /\ w[y].at # BaselineJSON
              \/ w[y].pc = "render" /\ ~Baseline(y)
              \/ w[y].pc = "write" /\ w[y].at = BaselineJSON /\ y = x /\ Rename(x)
<1>0. w[x] \in WriterState /\ w[y] \in WriterState
  BY WriterFacts DEF TypeInv
<1>1. CASE y # x
  <2>1. CASE w'[y] = w[y]
    BY <2>1
  <2>2. CASE Rename(x)
    BY <2>2, <1>1, RenamedFacts DEF Rename, Renamed
  <2>3. CASE RemoveSnapshot(x)
    BY <2>3, RemoveFacts
  <2>4. ASSUME ~Rename(x), ~RemoveSnapshot(x) PROVE w'[y] = w[y]
    BY <1>1, <2>4 DEF Step, Begin, Retry, GiveUp, ReadCurrent, ReadFails, Render,
         RenderFails, OpenTmp, FillTmp, WriteFails, ListSnapshots, PruneFails, Succeed,
         Fail, TypeInv, TypeOK
  <2> QED BY <2>1, <2>2, <2>3, <2>4
<1>2. CASE y = x
  <2>1. CASE Rename(x)
    <3>1. w'[x] = NextFile(w[x]) /\ w[x].pc = "write" /\ w[x].at \in File
      BY <2>1, WriterFacts DEF Rename, Renamed, TypeInv
    <3>2. w'[x].pc # "render"
      BY <2>1, <3>1, NextFileFacts DEF Rename
    <3> QED BY <1>2, <2>1, <3>1, <3>2
  <2>2. CASE Render(x)
    <3>1. w'[x] = [w[x] EXCEPT !.pc = "write", !.at = FirstFile(x), !.before = <<>>]
      BY <2>2 DEF Render, TypeInv, TypeOK
    <3>2. w'[x].pc = "write" /\ w'[x].at = FirstFile(x)
      BY <3>1, <1>0 DEF WriterState
    <3> QED BY <1>2, <2>2, <3>2 DEF Render, FirstFile
  <2>3. CASE ReadCurrent(x)
    <3>1. PICK c, b : w'[x] =
            [w[x] EXCEPT !.pc = "render", !.previous = file[CurrentJSON], !.diff = c, !.before = b]
      BY <2>3 DEF ReadCurrent, TypeInv, TypeOK
    <3> QED BY <1>0, <1>2, <3>1 DEF WriterState
  <2>4. CASE OpenTmp(x) \/ FillTmp(x)
    <3>1. PICK o : w'[x] = [w[x] EXCEPT !.open = o]
      BY <2>4 DEF OpenTmp, FillTmp, TypeInv, TypeOK
    <3>2. w'[x].pc = "write" /\ w'[x].at = w[x].at /\ w[x].pc = "write"
      BY <2>4, <3>1, <1>0 DEF OpenTmp, FillTmp, WriterState
    <3> QED BY <1>2, <3>2
  <2>5. CASE \E d \in Doc : Begin(x, d) \/ Retry(x, d)
    <3>1. PICK n, d : w' = [w EXCEPT ![x] = [Idle EXCEPT !.pc = "read", !.attempt = n, !.doc = d]]
      BY <2>5 DEF Begin, Retry
    <3>2. w'[x].pc = "read"
      BY <3>1 DEF Idle, TypeInv, TypeOK
    <3> QED BY <1>2, <3>2
  <2>6. CASE GiveUp(x) \/ Succeed(x)
    <3>1. w'[x].pc = "idle"
      BY <2>6 DEF GiveUp, Succeed, Idle, TypeInv, TypeOK
    <3> QED BY <1>2, <3>1
  <2>7. CASE ReadFails(x) \/ RenderFails(x) \/ WriteFails(x) \/ PruneFails(x)
    <3> DEFINE a == [[w[x] EXCEPT !.error = TRUE] EXCEPT !.pc = "failed"]
               b == [w[x] EXCEPT !.pc = "failed"]
    <3>1. a.pc = "failed" /\ b.pc = "failed"
      BY <1>0 DEF WriterState
    <3>2. w'[x] = a \/ w'[x] = b
      BY <2>7 DEF ReadFails, RenderFails, WriteFails, PruneFails, Fail, TypeInv, TypeOK
    <3> HIDE DEF a, b
    <3> QED BY <1>2, <3>1, <3>2
  <2>8. CASE ListSnapshots(x)
    <3>1. w'[x] = [w[x] EXCEPT !.pc = "prune", !.list = Outdated(Entries)]
      BY <2>8 DEF ListSnapshots, TypeInv, TypeOK
    <3>2. w'[x].pc = "prune"
      BY <3>1, <1>0 DEF WriterState
    <3> QED BY <1>2, <3>2
  <2>9. CASE RemoveSnapshot(x)
    BY <2>9, RemoveFacts
  <2> QED BY <2>1, <2>2, <2>3, <2>4, <2>5, <2>6, <2>7, <2>8, <2>9 DEF Step
<1> QED BY <1>1, <1>2

LEMMA BaselineInit == Init => BaselineInv
<1> SUFFICES ASSUME Init PROVE BaselineInv
  OBVIOUS
<1>1. \A x \in Writer : w[x].pc = "idle"
  BY DEF Init, Idle
<1>2. file[CurrentJSON] = Missing
  BY FileFacts DEF Init
<1> QED BY <1>1, <1>2 DEF BaselineInv, BaselineFirst

LEMMA BaselineStep == TypeInv /\ BaselineInv /\ [Next]_vars => BaselineInv'
<1> SUFFICES ASSUME TypeInv, BaselineInv, [Next]_vars PROVE BaselineInv'
  OBVIOUS
<1>1. BaselineFirst'
  BY FilesStay, FileFacts DEF BaselineInv, BaselineFirst
<1>2. ASSUME NEW y \in Writer,
             \/ w'[y].pc = "render" /\ w'[y].previous # Missing
             \/ w'[y].pc = "write" /\ w'[y].at # BaselineJSON
      PROVE  file'[BaselineJSON] # Missing
  <2>1. CASE UNCHANGED vars
    <3>1. UNCHANGED <<w, file>>
      BY <2>1 DEF vars
    <3> QED BY <1>2, <3>1 DEF BaselineInv, Baseline
  <2>2. CASE Crash
    BY <1>2, <2>2 DEF Crash, Idle
  <2>3. ASSUME NEW x \in Writer, Step(x) PROVE file'[BaselineJSON] # Missing
    <3>1. CASE y = x /\ Rename(x) /\ w[x].at = BaselineJSON
      BY <3>1, FileFacts DEF Rename, TypeInv, TypeOK
    <3>2. CASE file[BaselineJSON] # Missing
      BY <3>2, FilesStay
    <3>3. CASE file[BaselineJSON] = Missing /\ ~(y = x /\ Rename(x) /\ w[x].at = BaselineJSON)
      <4>1. file[CurrentJSON] = Missing
        BY <3>3 DEF BaselineInv, BaselineFirst
      <4>2. /\ ~(w[y].pc = "render" /\ w[y].previous # Missing)
            /\ ~(w[y].pc = "write" /\ w[y].at # BaselineJSON)
        BY <3>3 DEF BaselineInv, Baseline
      <4>3. /\ w'[y].pc = "render" =>
                 \/ w[y].pc = "render" /\ w'[y].previous = w[y].previous
                 \/ w'[y].previous = Missing
            /\ w'[y].pc = "write" /\ w'[y].at # BaselineJSON =>
                 \/ w[y].pc = "write" /\ w[y].at # BaselineJSON
                 \/ w[y].pc = "render" /\ w[y].previous # Missing
        BY <2>3, <3>3, <4>1, ReachesWrite DEF Baseline
      <4> QED BY <1>2, <4>2, <4>3
    <3> QED BY <3>1, <3>2, <3>3
  <2> QED BY <2>1, <2>2, <2>3 DEF Next
<1> QED BY <1>1, <1>2 DEF BaselineInv, Baseline

\* There is never a current document without a baseline, whatever fails or
\* crashes between the two writes and however runs overlap (persistDocument).
THEOREM BaselineComesFirst == Spec => []BaselineFirst
<1>1. BaselineInv => BaselineFirst
  BY DEF BaselineInv
<1> QED BY <1>1, TypeInit, TypeStep, BaselineInit, BaselineStep, PTL DEF Spec
(***************************************************************************)
(* What an attempt has done                                                *)
(*                                                                         *)
(* While the runs do not overlap only one goroutine works on the           *)
(* directory, so what it has found and written is still there.             *)
(***************************************************************************)

\* A snapshot is in place or being written, not both: its name is used once.
SnapInv ==
  /\ \A s \in Snap : file[s] = Missing \/ tmp[s] = Missing
  /\ \A x \in Writer : w[x].pc = "write" /\ w[x].at \in Snap => file[w[x].at] = Missing

\* The difference that is reported for a document, given what was current.
Difference(previous, doc) ==
  CompareValues(IF previous = Missing THEN Null ELSE previous, doc, Config)

\* The entries that pruning leaves, and what it may remove.
Pruning(x) ==
  /\ w[x].list \subseteq Entries
  /\ \A e \in w[x].list : e[1][2] < clock
  /\ Cardinality(Entries \ w[x].list) <= Keep

WroteMD(x) == w[x].pc \in {"list", "prune"} \/ (w[x].pc = "write" /\ w[x].at \in Snap)

\* How far an attempt has come, and what it has left in the directory.
Attempt(x) ==
  /\ w[x].error => w[x].pc = "failed" /\ Files = w[x].before
  /\ w[x].pc \in {"render", "write", "list", "prune"} =>
       w[x].diff = Difference(w[x].previous, w[x].doc)
  /\ w[x].pc = "render" => w[x].before = Files
  /\ w[x].pc = "render" \/ (w[x].pc = "write" /\ w[x].at \in {BaselineJSON, CurrentJSON}) =>
       w[x].previous = file[CurrentJSON]
  /\ w[x].pc = "write" /\ w[x].at = BaselineJSON => file[CurrentJSON] = Missing
  /\ ReplacedCurrent(x) => file[CurrentJSON] = w[x].doc
  /\ WroteMD(x) => file[CurrentMD] = w[x].doc /\ clock > 0
  /\ w[x].pc = "write" /\ w[x].at \in Snap => w[x].at = Snapshot(clock)
  /\ w[x].pc \in {"list", "prune"} => file[Snapshot(clock)] = w[x].doc
  /\ w[x].pc = "prune" => Pruning(x)

\* The last successful document is current until an attempt replaces it, and
\* that attempt has found it there.
LastInv ==
  ~partial =>
    /\ (\A x \in Writer : ~ReplacedCurrent(x)) => file[CurrentJSON] = last
    /\ \A x \in Writer : ReplacedCurrent(x) => w[x].previous = last

AttemptInv ==
  /\ SnapInv
  /\ ~shared => (\A x \in Writer : Attempt(x)) /\ LastInv

\* Every nonempty set of numbers has a smallest one.
LEMMA Smallest ==
  ASSUME NEW T, T \subseteq Nat, T # {}
  PROVE  \E m \in T : \A n \in T : m <= n
<1>1. \A m, n \in Nat : <<m, n>> \in OpToRel(<, Nat) <=> m < n
  BY DEF OpToRel
<1>2. PICK m \in T : \A n \in T : <<n, m>> \notin OpToRel(<, Nat)
  BY NatLessThanWellFounded, WFMin
<1>3. \A n \in T : ~(n < m)
  BY <1>1, <1>2
<1>4. m \in T
  BY <1>2
<1> QED BY <1>3, <1>4

LEMMA EntryFacts ==
  /\ IsFiniteSet(Entries)
  /\ \A e \in Entries : /\ e \in Snap \X {"json", "tmp"}
                        /\ e[1] \in Snap /\ e[1] \in File /\ e[1][2] \in Nat
                        /\ e = <<e[1], e[2]>> /\ e[2] \in {"json", "tmp"}
                        /\ e[2] = "json" => file[e[1]] # Missing
                        /\ e[2] = "tmp" => tmp[e[1]] # Missing
  /\ \A s \in Snap : /\ <<s, "json">> \in Entries <=> file[s] # Missing
                     /\ <<s, "tmp">> \in Entries <=> tmp[s] # Missing
<1>1. \A e \in Entries : /\ e \in Snap \X {"json", "tmp"}
                         /\ e[2] = "json" => file[e[1]] # Missing
                         /\ e[2] = "tmp" => tmp[e[1]] # Missing
  BY DEF Entries
<1>2. IsFiniteSet(Snap)
  <2>1. IsFiniteSet(1 .. MaxWrites)
    BY StoreAssumption, FS_Interval
  <2> DEFINE f == [n \in 1 .. MaxWrites |-> Snapshot(n)]
  <2>2. f \in Surjection(1 .. MaxWrites, Snap)
    BY DEF Surjection, Snap
  <2> QED BY <2>1, <2>2, FS_Surjection
<1>3. IsFiniteSet({"json", "tmp"})
  <2>1. {"json", "tmp"} = {"json"} \cup {"tmp"}
    OBVIOUS
  <2>2. IsFiniteSet({"json"})
    BY FS_Singleton
  <2>3. IsFiniteSet({"json"} \cup {"tmp"})
    BY <2>2, FS_AddElement
  <2> QED BY <2>1, <2>3
<1>4. IsFiniteSet(Snap \X {"json", "tmp"})
  BY <1>2, <1>3, FS_Product
<1>5. IsFiniteSet(Entries)
  BY <1>1, <1>4, FS_Subset
<1>6. \A e \in Entries : e[1] \in Snap /\ e = <<e[1], e[2]>> /\ e[2] \in {"json", "tmp"}
  BY <1>1
<1>7. \A s \in Snap : s \in File /\ s[2] \in Nat
  BY SnapFacts, FileFacts
<1>8. \A s \in Snap : /\ <<s, "json">> \in Entries <=> file[s] # Missing
                      /\ <<s, "tmp">> \in Entries <=> tmp[s] # Missing
  BY DEF Entries
<1> QED BY <1>1, <1>5, <1>6, <1>7, <1>8

\* Pruning leaves at most Keep entries of a directory whose entries have
\* different names (pruneSnapshots).
LEMMA KeptAreFew ==
  ASSUME NEW E, IsFiniteSet(E), \A e \in E : e[1][2] \in Nat,
         \A e, g \in E : e[1][2] = g[1][2] => e = g
  PROVE  Cardinality(E \ Outdated(E)) <= Keep
<1> DEFINE R == E \ Outdated(E)
           Newer(e) == {g \in E : g[1][2] > e[1][2]}
           N == {e[1][2] : e \in R}
<1>0. Keep \in Nat /\ Keep > 0
  BY StoreAssumption
<1>1. IsFiniteSet(R) /\ Cardinality(R) \in Nat
  BY FS_Difference, FS_CardinalityType
<1>2. \A e \in E : IsFiniteSet(Newer(e)) /\ Cardinality(Newer(e)) \in Nat
  BY FS_Subset, FS_CardinalityType
<1>3. CASE R = {}
  <2>1. Cardinality(R) = 0
    BY <1>1, <1>3, FS_EmptySet
  <2> QED BY <2>1, StoreAssumption
<1>4. CASE R # {}
  <2>1. N \subseteq Nat /\ N # {}
    BY <1>4
  <2>2. PICK m \in N : \A n \in N : m <= n
    BY <2>1, Smallest
  <2>3. PICK e \in R : e[1][2] = m
    BY <2>2
  <2>4. \A g \in R : m <= g[1][2]
    BY <2>2
  <2>5. R \ {e} \subseteq Newer(e)
    <3> SUFFICES ASSUME NEW g \in R, g # e PROVE g[1][2] > e[1][2]
      OBVIOUS
    <3>1. g[1][2] # e[1][2] /\ g[1][2] \in Nat /\ e[1][2] \in Nat
      BY <2>3
    <3> QED BY <2>3, <2>4, <3>1
  <2>6. Cardinality(Newer(e)) < Keep
    <3>1. ~(Cardinality(Newer(e)) >= Keep)
      BY <2>3 DEF Outdated
    <3>2. Cardinality(Newer(e)) \in Nat
      BY <2>3, <1>2
    <3> HIDE DEF Newer
    <3> QED BY <3>1, <3>2, <1>0
  <2>7. Cardinality(R \ {e}) <= Cardinality(Newer(e))
    BY <2>3, <2>5, <1>2, FS_Subset
  <2>8. Cardinality(R \ {e}) = Cardinality(R) - 1
    BY <2>3, <1>1, FS_RemoveElement
  <2>9. Cardinality(R \ {e}) \in Nat /\ Cardinality(Newer(e)) \in Nat
    BY <2>3, <1>1, <1>2, FS_RemoveElement, FS_CardinalityType
  <2>10. Cardinality(R) \in Nat
    BY <1>1
  <2>11. Cardinality(R) <= Keep
    <3> HIDE DEF R, Newer
    <3> QED BY <2>6, <2>7, <2>8, <2>9, <2>10, <1>0
  <2> QED BY <2>11
<1> QED BY <1>3, <1>4

\* Half of what follows is about the goroutine that makes the step alone.
Last1(x) ==
  ~partial => /\ ~ReplacedCurrent(x) => file[CurrentJSON] = last
              /\ ReplacedCurrent(x) => w[x].previous = last

\* While the runs do not overlap the others are idle.
LEMMA OthersIdle ==
  ASSUME TypeInv, WholeInv, NEW x \in Writer, Step(x), ~shared', NEW y \in Writer, y # x
  PROVE  /\ ~shared /\ w[y].pc = "idle" /\ w'[y].pc = "idle"
         /\ w'[y].error = w[y].error
<1>1. ~shared /\ w[y].pc = "idle"
  <2>1. CASE \E d \in Doc : Begin(x, d)
    <3>1. shared' = (shared \/ \E z \in Writer : Active(z))
      BY <2>1 DEF Begin
    <3> QED BY <3>1 DEF Active
  <2>2. CASE Active(x) /\ UNCHANGED shared
    BY <2>2 DEF WholeInv, Alone, Active
  <2>3. \/ \E d \in Doc : Begin(x, d)
        \/ Active(x) /\ UNCHANGED shared
    <3>1. CASE GiveUp(x) \/ (\E d \in Doc : Retry(x, d)) \/ ReadCurrent(x) \/ Render(x)
      BY <3>1 DEF GiveUp, Retry, ReadCurrent, Render, Active
    <3>2. CASE ReadFails(x) \/ RenderFails(x) \/ WriteFails(x) \/ PruneFails(x)
      BY <3>2 DEF ReadFails, RenderFails, WriteFails, PruneFails, Fail, Active
    <3>3. CASE OpenTmp(x) \/ FillTmp(x) \/ Rename(x)
      BY <3>3 DEF OpenTmp, FillTmp, Rename, Active
    <3>4. CASE ListSnapshots(x) \/ RemoveSnapshot(x) \/ Succeed(x)
      BY <3>4 DEF ListSnapshots, RemoveSnapshot, Succeed, Active
    <3> QED BY <3>1, <3>2, <3>3, <3>4 DEF Step
  <2> QED BY <2>1, <2>2, <2>3
<1>2. w'[y].pc = "idle" /\ w'[y].error = w[y].error
  <2>1. CASE Rename(x)
    <3>1. w'[y] = Renamed(w[x].at)[y]
      BY <2>1 DEF Rename, Renamed
    <3> QED BY <3>1, <1>1, RenamedFacts
  <2>2. CASE RemoveSnapshot(x)
    BY <2>2, <1>1, RemoveFacts
  <2>3. CASE ~Rename(x) /\ ~RemoveSnapshot(x)
    <3>1. PICK r : w' = [w EXCEPT ![x] = r]
      BY <2>3 DEF Step, Begin, Retry, GiveUp, ReadCurrent, ReadFails, Render, RenderFails,
           OpenTmp, FillTmp, WriteFails, ListSnapshots, PruneFails, Succeed, Fail
    <3> QED BY <3>1, <1>1 DEF TypeInv, TypeOK
  <2> QED BY <2>1, <2>2, <2>3
<1> QED BY <1>1, <1>2

LEMMA IdleAttempt ==
  ASSUME NEW y, w[y].pc = "idle", ~w[y].error  PROVE Attempt(y) /\ ~ReplacedCurrent(y)
  BY DEF Attempt, ReplacedCurrent, WroteMD

LEMMA AloneSteps ==
  ASSUME TypeInv, WholeInv, AttemptInv, NEW x \in Writer, Step(x), ~shared'
  PROVE  ~shared /\ Attempt(x) /\ Last1(x)
<1>1. ~shared
  BY DEF Step, Begin, Retry, GiveUp, ReadCurrent, ReadFails, Render, RenderFails,
         OpenTmp, FillTmp, Rename, WriteFails, ListSnapshots, RemoveSnapshot, PruneFails,
         Succeed, Fail
<1>2. Attempt(x) /\ LastInv
  BY <1>1 DEF AttemptInv
<1>3. \A y \in Writer : y # x => ~ReplacedCurrent(y)
  BY OthersIdle DEF ReplacedCurrent
<1>4. Last1(x)
  BY <1>2, <1>3 DEF LastInv, Last1
<1> QED BY <1>1, <1>2, <1>4

LEMMA OneAttempt ==
  ASSUME TypeInv, WholeInv, AttemptInv, NEW x \in Writer, Step(x), SnapInv',
         ~shared' => Attempt(x)' /\ Last1(x)'
  PROVE  AttemptInv'
<1> SUFFICES ASSUME ~shared' PROVE (\A y \in Writer : Attempt(y)') /\ LastInv'
  BY DEF AttemptInv
<1>1. Attempt(x)' /\ Last1(x)'
  OBVIOUS
<1>2. ASSUME NEW y \in Writer, y # x PROVE Attempt(y)' /\ ~ReplacedCurrent(y)'
  <2>1. ~shared /\ w[y].pc = "idle" /\ w'[y].pc = "idle" /\ w'[y].error = w[y].error
    BY <1>2, OthersIdle
  <2>2. Attempt(y)
    BY <2>1 DEF AttemptInv
  <2>3. ~w[y].error
    BY <2>1, <2>2 DEF Attempt
  <2> QED BY <2>1, <2>3 DEF Attempt, ReplacedCurrent, WroteMD
<1>3. LastInv'
  BY <1>1, <1>2 DEF LastInv, Last1
<1> QED BY <1>1, <1>2, <1>3

\* A step that touches no file.
LEMMA SameFiles ==
  ASSUME UNCHANGED <<file, tmp>>  PROVE Entries' = Entries /\ Files' = Files
  BY DEF Entries, Files

LEMMA SnapStays ==
  ASSUME TypeInv, SnapInv, UNCHANGED <<file, tmp>>, NEW x \in Writer, NEW r,
         w' = [w EXCEPT ![x] = r],
         r.pc = "write" => r.at \notin Snap \/ (w[x].pc = "write" /\ r.at = w[x].at)
  PROVE  SnapInv'
<1>1. \A y \in Writer : w'[y] = IF y = x THEN r ELSE w[y]
  BY DEF TypeInv, TypeOK
<1> QED BY <1>1 DEF SnapInv

LEMMA AttemptStarts ==
  ASSUME TypeInv, WholeInv, AttemptInv, NEW x \in Writer,
         GiveUp(x) \/ \E d \in Doc : Begin(x, d) \/ Retry(x, d)
  PROVE  AttemptInv'
<1>1. Step(x)
  BY DEF Step
<1>2. PICK r : /\ w' = [w EXCEPT ![x] = r]
               /\ r.pc \in {"idle", "read"} /\ r.error = FALSE
  <2>1. CASE GiveUp(x)
    <3>1. w' = [w EXCEPT ![x] = Idle]
      BY <2>1 DEF GiveUp
    <3>2. Idle.pc = "idle" /\ Idle.error = FALSE
      BY DEF Idle
    <3> QED BY <3>1, <3>2
  <2>2. ASSUME NEW d \in Doc, Begin(x, d) \/ Retry(x, d)
        PROVE  \E r : /\ w' = [w EXCEPT ![x] = r]
                      /\ r.pc \in {"idle", "read"} /\ r.error = FALSE
    <3>1. PICK n : w' = [w EXCEPT ![x] = [Idle EXCEPT !.pc = "read", !.attempt = n, !.doc = d]]
      BY <2>2 DEF Begin, Retry
    <3> DEFINE r == [Idle EXCEPT !.pc = "read", !.attempt = n, !.doc = d]
    <3>2. r.pc = "read" /\ r.error = FALSE
      BY DEF Idle
    <3> QED BY <3>1, <3>2
  <2> QED BY <2>1, <2>2
<1>3. w'[x] = r
  BY <1>2 DEF TypeInv, TypeOK
<1>4. UNCHANGED <<file, tmp, last, partial>> /\ w[x].pc \in {"idle", "failed"}
  BY DEF GiveUp, Begin, Retry
<1>5. SnapInv'
  BY <1>2, <1>4, SnapStays DEF AttemptInv
<1>6. ASSUME ~shared' PROVE Attempt(x)' /\ Last1(x)'
  <2>1. Last1(x)
    BY <1>1, <1>6, AloneSteps
  <2>2. ~ReplacedCurrent(x) /\ ~ReplacedCurrent(x)'
    BY <1>2, <1>3, <1>4 DEF ReplacedCurrent
  <2>3. Attempt(x)'
    BY <1>2, <1>3, <2>2 DEF Attempt, WroteMD
  <2> QED BY <2>1, <2>2, <2>3, <1>4 DEF Last1
<1> QED BY <1>1, <1>5, <1>6, OneAttempt

LEMMA AttemptReads ==
  ASSUME TypeInv, WholeInv, AttemptInv, NEW x \in Writer, ReadCurrent(x)  PROVE AttemptInv'
<1>1. Step(x)
  BY DEF Step
<1>2. PICK c, b : /\ c = Difference(file[CurrentJSON], w[x].doc) /\ b = Files
                  /\ w' = [w EXCEPT ![x] = [w[x] EXCEPT !.pc = "render",
                             !.previous = file[CurrentJSON], !.diff = c, !.before = b]]
  BY DEF ReadCurrent, Difference
<1> DEFINE r == [w[x] EXCEPT !.pc = "render", !.previous = file[CurrentJSON], !.diff = c,
                             !.before = b]
<1>3. w'[x] = r
  BY <1>2 DEF TypeInv, TypeOK
<1>4. w[x] \in WriterState /\ w[x].pc = "read" /\ UNCHANGED <<file, tmp, last, partial>>
  BY WriterFacts DEF ReadCurrent, TypeInv
<1>5. /\ r.pc = "render" /\ r.previous = file[CurrentJSON] /\ r.diff = c /\ r.before = b
      /\ r.doc = w[x].doc /\ r.error = w[x].error
  BY <1>4 DEF WriterState
<1> HIDE DEF r
<1>6. SnapInv'
  <2>1. w' = [w EXCEPT ![x] = r]
    BY <1>2 DEF r
  <2> QED BY <2>1, <1>4, <1>5, SnapStays DEF AttemptInv
<1>7. ASSUME ~shared' PROVE Attempt(x)' /\ Last1(x)'
  <2>1. Attempt(x) /\ Last1(x)
    BY <1>1, <1>7, AloneSteps
  <2>2. ~ReplacedCurrent(x) /\ ~ReplacedCurrent(x)'
    BY <1>3, <1>4, <1>5 DEF ReplacedCurrent
  <2>3. ~w[x].error
    BY <2>1, <1>4 DEF Attempt
  <2>4. Files' = Files
    BY <1>4, SameFiles
  <2>5. Attempt(x)'
    BY <1>2, <1>3, <1>4, <1>5, <2>2, <2>3, <2>4 DEF Attempt, WroteMD, Difference
  <2> QED BY <2>1, <2>2, <2>5, <1>4 DEF Last1
<1> QED BY <1>1, <1>6, <1>7, OneAttempt

LEMMA AttemptRenders ==
  ASSUME TypeInv, WholeInv, AttemptInv, NEW x \in Writer, Render(x)  PROVE AttemptInv'
<1> DEFINE r == [w[x] EXCEPT !.pc = "write", !.at = FirstFile(x), !.before = <<>>]
<1>1. Step(x)
  BY DEF Step
<1>2. w' = [w EXCEPT ![x] = r] /\ w'[x] = r
  BY DEF Render, TypeInv, TypeOK
<1>3. w[x] \in WriterState /\ w[x].pc = "render" /\ UNCHANGED <<file, tmp, last, partial>>
  BY WriterFacts DEF Render, TypeInv
<1>4. /\ r.pc = "write" /\ r.at = FirstFile(x) /\ r.previous = w[x].previous
      /\ r.diff = w[x].diff /\ r.doc = w[x].doc /\ r.error = w[x].error
  BY <1>3 DEF WriterState
<1>5. /\ FirstFile(x) \in {BaselineJSON, CurrentJSON}
      /\ FirstFile(x) \notin Snap /\ FirstFile(x) # CurrentMD
      /\ FirstFile(x) = BaselineJSON => w[x].previous = Missing
  BY FileFacts DEF FirstFile, Baseline
<1> HIDE DEF r
<1>6. SnapInv'
  BY <1>2, <1>3, <1>4, <1>5, SnapStays DEF AttemptInv
<1>7. ASSUME ~shared' PROVE Attempt(x)' /\ Last1(x)'
  <2>1. Attempt(x) /\ Last1(x)
    BY <1>1, <1>7, AloneSteps
  <2>2. ~ReplacedCurrent(x) /\ ~ReplacedCurrent(x)' /\ ~WroteMD(x)'
    BY <1>2, <1>3, <1>4, <1>5 DEF ReplacedCurrent, WroteMD
  <2>3. /\ ~w[x].error /\ w[x].previous = file[CurrentJSON]
        /\ w[x].diff = Difference(w[x].previous, w[x].doc)
    BY <2>1, <1>3 DEF Attempt
  <2>4. Attempt(x)'
    BY <1>2, <1>3, <1>4, <1>5, <2>2, <2>3 DEF Attempt, Difference
  <2> QED BY <2>1, <2>2, <2>4, <1>3 DEF Last1
<1> QED BY <1>1, <1>6, <1>7, OneAttempt

LEMMA AttemptFails ==
  ASSUME TypeInv, WholeInv, AttemptInv, NEW x \in Writer,
         ReadFails(x) \/ RenderFails(x) \/ WriteFails(x) \/ PruneFails(x)
  PROVE  AttemptInv'
<1>1. Step(x)
  BY DEF Step
<1>2. w[x] \in WriterState
  BY WriterFacts DEF TypeInv
<1>3. PICK r : /\ w' = [w EXCEPT ![x] = r] /\ r.pc = "failed" /\ r.before = w[x].before
               /\ r.error = w[x].error \/ w[x].pc = "render"
  <2> DEFINE a == [[w[x] EXCEPT !.error = TRUE] EXCEPT !.pc = "failed"]
             b == [w[x] EXCEPT !.pc = "failed"]
  <2>1. /\ a.pc = "failed" /\ a.before = w[x].before
        /\ b.pc = "failed" /\ b.before = w[x].before /\ b.error = w[x].error
    BY <1>2 DEF WriterState
  <2>2. \/ w' = [w EXCEPT ![x] = a] /\ w[x].pc = "render"
        \/ w' = [w EXCEPT ![x] = b]
    BY DEF ReadFails, RenderFails, WriteFails, PruneFails, Fail
  <2> HIDE DEF a, b
  <2> QED BY <2>1, <2>2
<1>4. w'[x] = r
  BY <1>3 DEF TypeInv, TypeOK
<1>5. /\ UNCHANGED <<file, tmp, last>> /\ w[x].pc # "failed"
      /\ partial' = (partial \/ ReplacedCurrent(x))
  BY DEF ReadFails, RenderFails, WriteFails, PruneFails, Fail
<1>6. SnapInv'
  BY <1>3, <1>5, SnapStays DEF AttemptInv
<1>7. ASSUME ~shared' PROVE Attempt(x)' /\ Last1(x)'
  <2>1. Attempt(x) /\ Last1(x)
    BY <1>1, <1>7, AloneSteps
  <2>2. ~ReplacedCurrent(x)'
    BY <1>3, <1>4 DEF ReplacedCurrent
  <2>3. Files' = Files
    BY <1>5, SameFiles
  <2>4. ~w[x].error /\ (w[x].pc = "render" => w[x].before = Files)
    BY <2>1, <1>5 DEF Attempt
  <2>5. r.error => r.before = Files
    BY <1>3, <2>4
  <2>6. Attempt(x)'
    BY <1>3, <1>4, <2>2, <2>3, <2>5 DEF Attempt, WroteMD
  <2> QED BY <2>1, <2>2, <2>6, <1>5 DEF Last1
<1> QED BY <1>1, <1>6, <1>7, OneAttempt

LEMMA AttemptSucceeds ==
  ASSUME TypeInv, WholeInv, AttemptInv, NEW x \in Writer, Succeed(x)  PROVE AttemptInv'
<1>1. Step(x)
  BY DEF Step
<1>2. /\ w' = [w EXCEPT ![x] = Idle] /\ w'[x] = Idle /\ w[x].pc = "prune"
      /\ last' = w[x].doc /\ UNCHANGED <<file, tmp>>
  BY DEF Succeed, TypeInv, TypeOK
<1>3. Idle.pc = "idle" /\ Idle.error = FALSE
  BY DEF Idle
<1>4. SnapInv'
  BY <1>2, <1>3, SnapStays DEF AttemptInv
<1>5. ASSUME ~shared' PROVE Attempt(x)' /\ Last1(x)'
  <2>1. Attempt(x)
    BY <1>1, <1>5, AloneSteps
  <2>2. file[CurrentJSON] = w[x].doc
    BY <2>1, <1>2 DEF Attempt, ReplacedCurrent
  <2>3. ~ReplacedCurrent(x)' /\ Attempt(x)'
    BY <1>2, <1>3 DEF ReplacedCurrent, Attempt, WroteMD
  <2> QED BY <2>2, <2>3, <1>2 DEF Last1
<1> QED BY <1>1, <1>4, <1>5, OneAttempt

LEMMA AttemptOpens ==
  ASSUME TypeInv, WholeInv, AttemptInv, NEW x \in Writer, OpenTmp(x)  PROVE AttemptInv'
<1> DEFINE r == [w[x] EXCEPT !.open = "tmp"]
<1>1. Step(x)
  BY DEF Step
<1>2. \A y \in Writer : w'[y] = IF y = x THEN r ELSE w[y]
  BY DEF OpenTmp, TypeInv, TypeOK
<1>3. /\ w[x] \in WriterState /\ w[x].pc = "write" /\ w[x].at \in File
      /\ UNCHANGED <<file, clock, last, partial>>
  BY WriterFacts DEF OpenTmp, TypeInv
<1>4. /\ r.pc = "write" /\ r.at = w[x].at /\ r.previous = w[x].previous
      /\ r.diff = w[x].diff /\ r.doc = w[x].doc /\ r.error = w[x].error
  BY <1>3 DEF WriterState
<1> HIDE DEF r
<1>5. \A f \in File : f # w[x].at => tmp'[f] = tmp[f]
  BY DEF OpenTmp, TypeInv, TypeOK
<1>6. SnapInv'
  <2>1. \A s \in Snap : file'[s] = Missing \/ tmp'[s] = Missing
    BY <1>3, <1>5, FileFacts DEF AttemptInv, SnapInv
  <2> QED BY <2>1, <1>2, <1>3, <1>4 DEF AttemptInv, SnapInv
<1>7. ASSUME ~shared' PROVE Attempt(x)' /\ Last1(x)'
  <2>1. Attempt(x) /\ Last1(x)
    BY <1>1, <1>7, AloneSteps
  <2>2. /\ ReplacedCurrent(x)' <=> ReplacedCurrent(x)
        /\ WroteMD(x)' <=> WroteMD(x)
    BY <1>2, <1>3, <1>4 DEF ReplacedCurrent, WroteMD
  <2>3. ~w[x].error
    BY <2>1, <1>3 DEF Attempt
  <2>4. Attempt(x)'
    BY <1>2, <1>3, <1>4, <2>1, <2>2, <2>3 DEF Attempt
  <2>5. Last1(x)'
    BY <1>2, <1>3, <1>4, <2>1, <2>2 DEF Last1
  <2> QED BY <2>4, <2>5
<1> QED BY <1>1, <1>6, <1>7, OneAttempt

\* A goroutine that nobody disturbs fills its own .tmp file.
LEMMA FillsOwn ==
  ASSUME TypeInv, WholeInv, NEW x \in Writer, FillTmp(x), Private(w[x].at)
  PROVE  file' = file
<1>1. w[x].open # "target"
  BY DEF WholeInv, Progress, FillTmp
<1> QED BY <1>1 DEF FillTmp

LEMMA AttemptFills ==
  ASSUME TypeInv, WholeInv, AttemptInv, NEW x \in Writer, FillTmp(x)  PROVE AttemptInv'
<1> DEFINE r == [w[x] EXCEPT !.open = "filled"]
<1>1. Step(x)
  BY DEF Step
<1>2. \A y \in Writer : w'[y] = IF y = x THEN r ELSE w[y]
  BY DEF FillTmp, TypeInv, TypeOK
<1>3. /\ w[x] \in WriterState /\ w[x].pc = "write" /\ w[x].at \in File
      /\ UNCHANGED <<clock, last, partial, shared>>
  BY WriterFacts DEF FillTmp, TypeInv
<1>4. /\ r.pc = "write" /\ r.at = w[x].at /\ r.previous = w[x].previous
      /\ r.diff = w[x].diff /\ r.doc = w[x].doc /\ r.error = w[x].error
  BY <1>3 DEF WriterState
<1> HIDE DEF r
<1>5. \A f \in File : f # w[x].at => tmp'[f] = tmp[f] /\ file'[f] = file[f]
  BY DEF FillTmp, TypeInv, TypeOK
<1>6. SnapInv'
  <2>1. \A s \in Snap : file'[s] = file[s]
    <3> SUFFICES ASSUME NEW s \in Snap PROVE file'[s] = file[s]
      OBVIOUS
    <3>1. CASE s = w[x].at
      BY <3>1, FillsOwn DEF Private
    <3>2. CASE s # w[x].at
      BY <3>2, <1>5, FileFacts
    <3> QED BY <3>1, <3>2
  <2>2. \A s \in Snap : file'[s] = Missing \/ tmp'[s] = Missing
    BY <2>1, <1>3, <1>5, FileFacts DEF AttemptInv, SnapInv
  <2> QED BY <2>1, <2>2, <1>2, <1>3, <1>4 DEF AttemptInv, SnapInv
<1>7. ASSUME ~shared' PROVE Attempt(x)' /\ Last1(x)'
  <2>1. Attempt(x) /\ Last1(x) /\ ~shared
    BY <1>1, <1>7, AloneSteps
  <2>2. /\ ReplacedCurrent(x)' <=> ReplacedCurrent(x)
        /\ WroteMD(x)' <=> WroteMD(x)
    BY <1>2, <1>3, <1>4 DEF ReplacedCurrent, WroteMD
  <2>3. ~w[x].error
    BY <2>1, <1>3 DEF Attempt
  <2>4. file' = file
    BY <2>1, FillsOwn DEF Private
  <2>5. Attempt(x)'
    BY <1>2, <1>3, <1>4, <2>1, <2>2, <2>3, <2>4 DEF Attempt
  <2>6. Last1(x)'
    BY <1>2, <1>3, <1>4, <2>1, <2>2, <2>4 DEF Last1
  <2> QED BY <2>5, <2>6
<1> QED BY <1>1, <1>6, <1>7, OneAttempt

LEMMA AttemptLists ==
  ASSUME TypeInv, WholeInv, AttemptInv, NEW x \in Writer, ListSnapshots(x)
  PROVE  AttemptInv'
<1> DEFINE r == [w[x] EXCEPT !.pc = "prune", !.list = Outdated(Entries)]
<1>1. Step(x)
  BY DEF Step
<1>2. w' = [w EXCEPT ![x] = r] /\ w'[x] = r
  BY DEF ListSnapshots, TypeInv, TypeOK
<1>3. /\ w[x] \in WriterState /\ w[x].pc = "list"
      /\ UNCHANGED <<file, tmp, clock, last, partial>>
  BY WriterFacts DEF ListSnapshots, TypeInv
<1>4. /\ r.pc = "prune" /\ r.list = Outdated(Entries) /\ r.previous = w[x].previous
      /\ r.diff = w[x].diff /\ r.doc = w[x].doc /\ r.error = w[x].error
  BY <1>3 DEF WriterState
<1> HIDE DEF r
<1>5. SnapInv'
  BY <1>2, <1>3, <1>4, SnapStays DEF AttemptInv
<1>6. ASSUME ~shared' PROVE Attempt(x)' /\ Last1(x)'
  <2>1. Attempt(x) /\ Last1(x)
    BY <1>1, <1>6, AloneSteps
  <2>2. ReplacedCurrent(x) /\ ReplacedCurrent(x)' /\ WroteMD(x) /\ WroteMD(x)'
    BY <1>2, <1>3, <1>4 DEF ReplacedCurrent, WroteMD
  <2>3. /\ ~w[x].error /\ w[x].diff = Difference(w[x].previous, w[x].doc)
        /\ file[CurrentJSON] = w[x].doc /\ file[CurrentMD] = w[x].doc /\ clock > 0
        /\ file[Snapshot(clock)] = w[x].doc
    BY <2>1, <2>2, <1>3 DEF Attempt
  <2>4. \A e \in Entries : e[1][2] <= clock
    <3> SUFFICES ASSUME NEW e \in Entries PROVE e[1][2] <= clock
      OBVIOUS
    <3>1. file[e[1]] # Missing \/ tmp[e[1]] # Missing
      BY EntryFacts
    <3>2. e[1] \in Snap /\ e[1][2] \in Nat /\ clock \in Nat
      BY EntryFacts, StoreAssumption DEF TypeInv, TypeOK
    <3> QED BY <3>1, <3>2 DEF TypeInv, TypeOK
  <2>5. \A e \in Outdated(Entries) : e[1][2] < clock
    <3> SUFFICES ASSUME NEW e \in Entries, e[1][2] = clock PROVE e \notin Outdated(Entries)
      <4>1. \A e \in Entries : e[1][2] \in Nat
        BY EntryFacts
      <4>2. clock \in Nat /\ Outdated(Entries) \subseteq Entries
        BY StoreAssumption DEF TypeInv, TypeOK, Outdated
      <4> QED BY <4>1, <4>2, <2>4
    <3> DEFINE Newer == {g \in Entries : g[1][2] > e[1][2]}
    <3>1. Newer = {}
      <4>1. \A g \in Entries : g[1][2] \in Nat /\ g[1][2] <= e[1][2]
        BY <2>4, EntryFacts
      <4>2. e[1][2] \in Nat
        BY EntryFacts
      <4> QED BY <4>1, <4>2
    <3>2. Cardinality(Newer) = 0
      BY <3>1, FS_EmptySet
    <3>3. Keep \in Nat /\ Keep > 0
      BY StoreAssumption
    <3>4. ~(Cardinality(Newer) >= Keep)
      <4> HIDE DEF Newer
      <4> QED BY <3>2, <3>3
    <3> QED BY <3>4 DEF Outdated
  <2>6. Cardinality(Entries \ Outdated(Entries)) <= Keep
    <3>1. \A e, g \in Entries : e[1][2] = g[1][2] => e = g
      <4> SUFFICES ASSUME NEW e \in Entries, NEW g \in Entries, e[1][2] = g[1][2]
                   PROVE  e = g
        OBVIOUS
      <4>1. /\ e[1] \in Snap /\ e = <<e[1], e[2]>> /\ e[2] \in {"json", "tmp"}
            /\ g[1] \in Snap /\ g = <<g[1], g[2]>> /\ g[2] \in {"json", "tmp"}
        BY EntryFacts
      <4>2. e[1] = g[1]
        BY <4>1, SnapFacts
      <4>3. file[e[1]] = Missing \/ tmp[e[1]] = Missing
        BY <4>1 DEF AttemptInv, SnapInv
      <4>4. e[2] = g[2]
        BY <4>1, <4>2, <4>3, EntryFacts
      <4> QED BY <4>1, <4>2, <4>4
    <3> QED BY <3>1, EntryFacts, KeptAreFew
  <2>7. Entries' = Entries
    BY <1>3, SameFiles
  <2>8. Pruning(x)'
    <3>1. Outdated(Entries) \subseteq Entries
      BY DEF Outdated
    <3> QED BY <3>1, <1>2, <1>3, <1>4, <2>5, <2>6, <2>7 DEF Pruning
  <2>9. Attempt(x)'
    BY <1>2, <1>3, <1>4, <2>2, <2>3, <2>8 DEF Attempt
  <2>10. Last1(x)'
    BY <1>2, <1>3, <1>4, <2>1, <2>2 DEF Last1
  <2> QED BY <2>9, <2>10
<1> QED BY <1>1, <1>5, <1>6, OneAttempt

LEMMA AttemptRenames ==
  ASSUME TypeInv, WholeInv, AttemptInv, NEW x \in Writer, Rename(x)  PROVE AttemptInv'
<1> DEFINE f == w[x].at
           r == NextFile(w[x])
<1>1. Step(x)
  BY DEF Step
<1>2. \A y \in Writer : w'[y] = IF y = x THEN r ELSE Renamed(f)[y]
  BY DEF Rename, Renamed
<1>3. /\ w[x].pc = "write" /\ w[x].open = "filled" /\ f \in File /\ tmp[f] # Missing
      /\ f = CurrentMD => clock < MaxWrites
      /\ clock' = IF f = CurrentMD THEN clock + 1 ELSE clock
      /\ UNCHANGED <<last, partial>> /\ clock \in 0 .. MaxWrites
  BY WriterFacts DEF Rename, TypeInv, TypeOK
<1>4. /\ \A g \in File : g # f => tmp'[g] = tmp[g] /\ file'[g] = file[g]
      /\ file'[f] = tmp[f] /\ tmp'[f] = Missing
  BY <1>3 DEF Rename, TypeInv, TypeOK
<1>5. /\ r.doc = w[x].doc /\ r.diff = w[x].diff /\ r.previous = w[x].previous
      /\ r.error = w[x].error
      /\ f = BaselineJSON => r.at = CurrentJSON /\ r.pc = "write"
      /\ f = CurrentJSON => r.at = CurrentMD /\ r.pc = "write"
      /\ f = CurrentMD => r.at = Snapshot(clock + 1) /\ r.pc = "write"
      /\ f \in Snap => r.pc = "list" /\ r.at = f
  BY <1>3, NextFileFacts, FileFacts
<1>6. f = CurrentMD => /\ Snapshot(clock + 1) \in Snap /\ Snapshot(clock + 1)[2] = clock + 1
                       /\ clock' = clock + 1 /\ clock' > 0 /\ clock + 1 > clock
  <2> SUFFICES ASSUME f = CurrentMD
               PROVE  /\ Snapshot(clock + 1) \in Snap /\ Snapshot(clock + 1)[2] = clock + 1
                      /\ clock' = clock + 1 /\ clock' > 0 /\ clock + 1 > clock
    OBVIOUS
  <2>1. clock + 1 \in 1 .. MaxWrites /\ clock' = clock + 1 /\ clock' > 0 /\ clock + 1 > clock
    BY <1>3, StoreAssumption
  <2> QED BY <2>1, SnapFacts
<1> HIDE DEF r, f
<1>7. SnapInv'
  <2>1. \A s \in Snap : file'[s] = Missing \/ tmp'[s] = Missing
    BY <1>4, FileFacts DEF AttemptInv, SnapInv
  <2>2. ASSUME NEW y \in Writer, w'[y].pc = "write", w'[y].at \in Snap
        PROVE  file'[w'[y].at] = Missing
    <3>1. CASE y = x
      <4>1. f = CurrentMD
        BY <2>2, <3>1, <1>2, <1>3, <1>5, FileFacts
      <4>2. w'[y].at = Snapshot(clock + 1)
        BY <3>1, <4>1, <1>2, <1>5
      <4>3. file[Snapshot(clock + 1)] = Missing
        BY <4>1, <1>6 DEF TypeInv, TypeOK
      <4> QED BY <4>1, <4>2, <4>3, <1>4, <1>6, FileFacts
    <3>2. CASE y # x
      <4>1. w'[y].pc = w[y].pc /\ w'[y].at = w[y].at
        BY <3>2, <1>2, RenamedFacts
      <4>2. w[y].at # f
        BY <2>2, <3>2, <4>1, <1>3 DEF WholeInv, Exclusive, f
      <4>3. file[w[y].at] = Missing
        BY <2>2, <4>1 DEF AttemptInv, SnapInv
      <4> QED BY <2>2, <4>1, <4>2, <4>3, <1>4, FileFacts
    <3> QED BY <3>1, <3>2
  <2> QED BY <2>1, <2>2 DEF SnapInv
<1>8. ASSUME ~shared' PROVE Attempt(x)' /\ Last1(x)'
  <2>1. Attempt(x) /\ Last1(x) /\ ~shared /\ w'[x] = r
    BY <1>1, <1>2, <1>8, AloneSteps
  <2>2. file'[f] = w[x].doc
    <3>1. Progress(x) /\ Private(f)
      BY <2>1 DEF WholeInv, Private
    <3> QED BY <3>1, <1>3, <1>4 DEF Progress, f
  <2>3. /\ ~w[x].error /\ w[x].diff = Difference(w[x].previous, w[x].doc)
    BY <2>1, <1>3 DEF Attempt
  <2>4. /\ CurrentJSON \in File /\ CurrentMD \in File /\ BaselineJSON \in File
        /\ BaselineJSON # CurrentJSON /\ BaselineJSON # CurrentMD /\ CurrentJSON # CurrentMD
        /\ BaselineJSON \notin Snap /\ CurrentJSON \notin Snap /\ CurrentMD \notin Snap
    BY FileFacts
  <2>5. CASE f = BaselineJSON
    <3>1. ~ReplacedCurrent(x) /\ w[x].previous = file[CurrentJSON]
      BY <2>1, <2>4, <2>5, <1>3 DEF Attempt, ReplacedCurrent, f
    <3>2. ~ReplacedCurrent(x)' /\ ~WroteMD(x)'
      BY <2>1, <2>4, <2>5, <1>5 DEF ReplacedCurrent, WroteMD
    <3>3. file'[CurrentJSON] = file[CurrentJSON]
      BY <2>4, <2>5, <1>4
    <3>4. Attempt(x)'
      BY <2>1, <2>3, <2>4, <2>5, <3>1, <3>2, <3>3, <1>5 DEF Attempt, Difference
    <3> QED BY <2>1, <3>1, <3>2, <3>3, <3>4, <1>3 DEF Last1
  <2>6. CASE f = CurrentJSON
    <3>1. ~ReplacedCurrent(x) /\ w[x].previous = file[CurrentJSON]
      BY <2>1, <2>4, <2>6, <1>3 DEF Attempt, ReplacedCurrent, f
    <3>2. ReplacedCurrent(x)' /\ ~WroteMD(x)'
      BY <2>1, <2>4, <2>6, <1>5 DEF ReplacedCurrent, WroteMD
    <3>3. Attempt(x)'
      BY <2>1, <2>2, <2>3, <2>4, <2>6, <3>2, <1>5 DEF Attempt, Difference
    <3>4. Last1(x)'
      BY <2>1, <3>1, <3>2, <1>3, <1>5 DEF Last1
    <3> QED BY <3>3, <3>4
  <2>7. CASE f = CurrentMD
    <3>1. ReplacedCurrent(x) /\ file[CurrentJSON] = w[x].doc
      BY <2>1, <2>4, <2>7, <1>3 DEF Attempt, ReplacedCurrent, f
    <3>2. ReplacedCurrent(x)' /\ WroteMD(x)'
      BY <2>1, <2>4, <2>7, <1>5, <1>6 DEF ReplacedCurrent, WroteMD
    <3>3. file'[CurrentJSON] = file[CurrentJSON]
      BY <2>4, <2>7, <1>4
    <3>4. Attempt(x)'
      <4>1. r.at = Snapshot(clock') /\ r.at \in Snap /\ clock' > 0 /\ r.pc = "write"
        BY <2>7, <1>5, <1>6
      <4> QED BY <2>1, <2>2, <2>3, <2>4, <2>7, <3>1, <3>2, <3>3, <4>1, <1>5
              DEF Attempt, Difference
    <3>5. Last1(x)'
      BY <2>1, <3>1, <3>2, <1>3, <1>5 DEF Last1
    <3> QED BY <3>4, <3>5
  <2>8. CASE f \in Snap
    <3>1. /\ ReplacedCurrent(x) /\ WroteMD(x) /\ f = Snapshot(clock)
          /\ file[CurrentJSON] = w[x].doc /\ file[CurrentMD] = w[x].doc /\ clock > 0
      BY <2>1, <2>8, <1>3 DEF Attempt, ReplacedCurrent, WroteMD, f
    <3>2. ReplacedCurrent(x)' /\ WroteMD(x)'
      BY <2>1, <2>8, <1>5 DEF ReplacedCurrent, WroteMD
    <3>3. /\ file'[CurrentJSON] = file[CurrentJSON] /\ file'[CurrentMD] = file[CurrentMD]
          /\ clock' = clock
      BY <2>4, <2>8, <1>3, <1>4
    <3>4. Attempt(x)'
      <4>1. r.pc = "list" /\ file'[Snapshot(clock')] = w[x].doc
        BY <2>2, <2>8, <3>1, <3>3, <1>5
      <4> QED BY <2>1, <2>3, <3>1, <3>2, <3>3, <4>1, <1>5 DEF Attempt, Difference
    <3>5. Last1(x)'
      BY <2>1, <3>1, <3>2, <1>3, <1>5 DEF Last1
    <3> QED BY <3>4, <3>5
  <2> QED BY <2>5, <2>6, <2>7, <2>8, <1>3, FileFacts
<1> QED BY <1>1, <1>7, <1>8, OneAttempt

LEMMA AttemptRemoves ==
  ASSUME TypeInv, WholeInv, AttemptInv, NEW x \in Writer, RemoveSnapshot(x)
  PROVE  AttemptInv'
<1>1. Step(x)
  BY DEF Step
<1>2. PICK e \in w[x].list \cap Entries :
        /\ IF e[2] = "json"
           THEN file' = [file EXCEPT ![e[1]] = Missing] /\ UNCHANGED tmp
           ELSE tmp' = [tmp EXCEPT ![e[1]] = Missing] /\ UNCHANGED file
        /\ w'[x] = [w[x] EXCEPT !.list = w[x].list \ {e}]
  BY DEF RemoveSnapshot
<1>3. /\ e[1] \in Snap /\ e[1] \in File /\ e = <<e[1], e[2]>> /\ e[2] \in {"json", "tmp"}
  BY EntryFacts
<1>4. /\ \A f \in File : file'[f] = IF f = e[1] /\ e[2] = "json" THEN Missing ELSE file[f]
      /\ \A f \in File : tmp'[f] = IF f = e[1] /\ e[2] = "tmp" THEN Missing ELSE tmp[f]
  BY <1>2, <1>3 DEF TypeInv, TypeOK
<1>5. /\ \A y \in Writer : w'[y].pc = w[y].pc /\ w'[y].at = w[y].at
      /\ w'[x].doc = w[x].doc /\ w'[x].diff = w[x].diff
      /\ w'[x].previous = w[x].previous /\ w'[x].error = w[x].error
  BY RemoveFacts
<1>6. w[x].pc = "prune" /\ UNCHANGED <<clock, last, partial>>
  BY DEF RemoveSnapshot
<1>7. w'[x].list = w[x].list \ {e}
  BY <1>2, WriterFacts DEF TypeInv, WriterState
<1>8. SnapInv'
  <2>1. \A s \in Snap : file'[s] \in {file[s], Missing} /\ tmp'[s] \in {tmp[s], Missing}
    BY <1>4, FileFacts
  <2> QED BY <2>1, <1>5 DEF AttemptInv, SnapInv
<1>9. Entries' = Entries \ {e}
  <2>1. \A s \in Snap :
          /\ file'[s] # Missing <=> file[s] # Missing /\ <<s, "json">> # e
          /\ tmp'[s] # Missing <=> tmp[s] # Missing /\ <<s, "tmp">> # e
    BY <1>3, <1>4, FileFacts
  <2>2. \A p : p \in Entries' <=>
          \E s \in Snap : \/ p = <<s, "json">> /\ file'[s] # Missing
                          \/ p = <<s, "tmp">> /\ tmp'[s] # Missing
    BY DEF Entries
  <2>3. \A p : p \in Entries <=>
          \E s \in Snap : \/ p = <<s, "json">> /\ file[s] # Missing
                          \/ p = <<s, "tmp">> /\ tmp[s] # Missing
    BY DEF Entries
  <2>4. \A p : p \in Entries' <=> p \in Entries /\ p # e
    BY <2>1, <2>2, <2>3
  <2> QED BY <2>4
<1>10. ASSUME ~shared' PROVE Attempt(x)' /\ Last1(x)'
  <2>1. Attempt(x) /\ Last1(x)
    BY <1>1, <1>10, AloneSteps
  <2>2. /\ ReplacedCurrent(x) /\ ReplacedCurrent(x)' /\ WroteMD(x) /\ WroteMD(x)'
    BY <1>5, <1>6 DEF ReplacedCurrent, WroteMD
  <2>3. /\ ~w[x].error /\ w[x].diff = Difference(w[x].previous, w[x].doc)
        /\ file[CurrentJSON] = w[x].doc /\ file[CurrentMD] = w[x].doc /\ clock > 0
        /\ file[Snapshot(clock)] = w[x].doc /\ Pruning(x)
    BY <2>1, <2>2, <1>6 DEF Attempt
  <2>4. /\ file'[CurrentJSON] = file[CurrentJSON] /\ file'[CurrentMD] = file[CurrentMD]
    BY <1>3, <1>4, FileFacts
  <2>5. file'[Snapshot(clock)] = file[Snapshot(clock)]
    <3>1. clock \in 1 .. MaxWrites
      BY <2>3, StoreAssumption DEF TypeInv, TypeOK
    <3>2. Snapshot(clock) \in File /\ Snapshot(clock)[2] = clock
      BY <3>1, SnapFacts, FileFacts
    <3>3. e[1][2] < clock /\ e[1][2] \in Nat
      BY <2>3, EntryFacts DEF Pruning
    <3>4. Snapshot(clock) # e[1]
      BY <3>1, <3>2, <3>3
    <3> QED BY <3>2, <3>4, <1>4
  <2>6. Pruning(x)'
    <3>1. (Entries \ {e}) \ (w[x].list \ {e}) = Entries \ w[x].list
      BY <1>2
    <3>2. /\ w[x].list \ {e} \subseteq Entries \ {e}
          /\ \A g \in w[x].list \ {e} : g[1][2] < clock
      BY <2>3 DEF Pruning
    <3> QED BY <2>3, <3>1, <3>2, <1>6, <1>7, <1>9 DEF Pruning
  <2>7. Attempt(x)'
    BY <2>2, <2>3, <2>4, <2>5, <2>6, <1>5, <1>6 DEF Attempt, Difference
  <2>8. Last1(x)'
    BY <2>1, <2>2, <1>5, <1>6 DEF Last1
  <2> QED BY <2>7, <2>8
<1> QED BY <1>1, <1>8, <1>10, OneAttempt

LEMMA AttemptCrashes ==
  ASSUME TypeInv, AttemptInv, Crash  PROVE AttemptInv'
<1>1. \A x \in Writer : w'[x].pc = "idle" /\ w'[x].error = FALSE
  BY DEF Crash, Idle
<1>2. /\ UNCHANGED <<file, tmp, clock, last, shared>>
      /\ partial' = (partial \/ \E x \in Writer : ReplacedCurrent(x))
  BY DEF Crash
<1>3. SnapInv'
  BY <1>1, <1>2 DEF AttemptInv, SnapInv
<1>4. \A x \in Writer : Attempt(x)' /\ ~ReplacedCurrent(x)'
  BY <1>1 DEF Attempt, ReplacedCurrent, WroteMD
<1>5. LastInv => LastInv'
  BY <1>2, <1>4 DEF LastInv
<1> QED BY <1>2, <1>3, <1>4, <1>5 DEF AttemptInv

StoreInv == TypeInv /\ WholeInv /\ AttemptInv

LEMMA StoreInit == Init => StoreInv
<1> SUFFICES ASSUME Init PROVE AttemptInv
  BY TypeInit, WholeInit DEF StoreInv
<1>1. \A x \in Writer : w[x].pc = "idle" /\ w[x].error = FALSE
  BY DEF Init, Idle
<1>2. \A f \in File : file[f] = Missing /\ tmp[f] = Missing
  BY DEF Init
<1>3. SnapInv
  BY <1>1, <1>2, FileFacts DEF SnapInv
<1>4. \A x \in Writer : Attempt(x) /\ ~ReplacedCurrent(x)
  BY <1>1 DEF Attempt, ReplacedCurrent, WroteMD
<1>5. LastInv
  BY <1>2, <1>4, FileFacts DEF Init, LastInv
<1> QED BY <1>3, <1>4, <1>5 DEF AttemptInv

LEMMA StoreStep == StoreInv /\ [Next]_vars => StoreInv'
<1> SUFFICES ASSUME StoreInv, [Next]_vars PROVE StoreInv'
  OBVIOUS
<1>1. TypeInv' /\ WholeInv'
  BY TypeStep, WholeStep DEF StoreInv
<1>2. CASE Crash
  BY <1>1, <1>2, AttemptCrashes DEF StoreInv
<1>3. ASSUME NEW x \in Writer, Step(x) PROVE AttemptInv'
  <2>1. CASE GiveUp(x) \/ \E d \in Doc : Begin(x, d) \/ Retry(x, d)
    BY <2>1, AttemptStarts DEF StoreInv
  <2>2. CASE ReadCurrent(x) \/ Render(x)
    BY <2>2, AttemptReads, AttemptRenders DEF StoreInv
  <2>3. CASE ReadFails(x) \/ RenderFails(x) \/ WriteFails(x) \/ PruneFails(x)
    BY <2>3, AttemptFails DEF StoreInv
  <2>4. CASE OpenTmp(x) \/ FillTmp(x) \/ Rename(x)
    BY <2>4, AttemptOpens, AttemptFills, AttemptRenames DEF StoreInv
  <2>5. CASE ListSnapshots(x) \/ RemoveSnapshot(x) \/ Succeed(x)
    BY <2>5, AttemptLists, AttemptRemoves, AttemptSucceeds DEF StoreInv
  <2> QED BY <1>3, <2>1, <2>2, <2>3, <2>4, <2>5 DEF Step
<1>4. CASE UNCHANGED vars
  <2>1. Entries' = Entries /\ Files' = Files
    BY <1>4, SameFiles DEF vars
  <2> QED BY <1>1, <1>4, <2>1 DEF vars, StoreInv, AttemptInv, SnapInv, Attempt, LastInv, Pruning,
               ReplacedCurrent, WroteMD
<1> QED BY <1>1, <1>2, <1>3, <1>4 DEF Next, StoreInv

\* Once there is a current document no run replaces the baseline, unless two
\* runs establish it together: nobody else has the baseline's .tmp file open,
\* and a goroutine renames it only after it has found no current document
\* (persistDocument).
THEOREM BaselineIsKept == Spec => BaselineKept
<1> DEFINE Kept == file[CurrentJSON] # Missing /\ ~shared' =>
                     file'[BaselineJSON] = file[BaselineJSON]
<1>1. ASSUME StoreInv, [Next]_vars PROVE [Kept]_vars
  <2> SUFFICES ASSUME file[CurrentJSON] # Missing, ~shared', UNCHANGED file => FALSE
               PROVE  file'[BaselineJSON] = file[BaselineJSON]
    OBVIOUS
  <2>1. PICK x \in Writer : Step(x)
    BY <1>1 DEF Next, vars, Crash
  <2>2. ~shared /\ Attempt(x)
    BY <1>1, <2>1, AloneSteps DEF StoreInv
  <2>3. CASE FillTmp(x)
    <3>1. file' = file
      BY <1>1, <2>2, <2>3, FillsOwn DEF Private, StoreInv
    <3> QED BY <3>1
  <2>4. CASE Rename(x)
    <3>1. \A f \in File : f # w[x].at => file'[f] = file[f]
      BY <1>1, <2>4 DEF Rename, StoreInv, TypeInv, TypeOK
    <3>2. w[x].at # BaselineJSON
      BY <2>2, <2>4 DEF Attempt, Rename
    <3> QED BY <3>1, <3>2, FileFacts
  <2>5. CASE RemoveSnapshot(x)
    <3>1. PICK e \in Entries : file' = [file EXCEPT ![e[1]] = Missing] \/ file' = file
      BY <2>5 DEF RemoveSnapshot
    <3>2. e[1] \in Snap
      BY EntryFacts
    <3> QED BY <1>1, <3>1, <3>2, FileFacts DEF StoreInv, TypeInv, TypeOK
  <2>6. CASE ~FillTmp(x) /\ ~Rename(x) /\ ~RemoveSnapshot(x)
    BY <2>1, <2>6 DEF Step, Begin, Retry, GiveUp, ReadCurrent, ReadFails, Render, RenderFails,
                OpenTmp, WriteFails, ListSnapshots, PruneFails, Succeed
  <2> QED BY <2>3, <2>4, <2>5, <2>6
<1> QED BY <1>1, StoreInit, StoreStep, PTL DEF Spec, BaselineKept

\* A template that does not parse or does not fit leaves the directory as the
\* attempt found it, while the runs do not overlap (persistDocument renders
\* before it writes).
THEOREM TemplateFailsFirst == Spec => []TemplateFailureHarmless
<1>1. StoreInv => TemplateFailureHarmless
  BY DEF StoreInv, AttemptInv, Attempt, TemplateFailureHarmless
<1> QED BY <1>1, StoreInit, StoreStep, PTL DEF Spec

\* A run that has pruned leaves its document in current, Markdown and the
\* newest snapshot, and at most Keep snapshots, whatever earlier attempts and
\* crashes left behind (persistDocument, pruneSnapshots).
THEOREM SuccessLeavesAll == Spec => []SuccessIsComplete
<1>1. ASSUME StoreInv PROVE SuccessIsComplete
  <2> SUFFICES ASSUME ~shared, NEW x \in Writer, w[x].pc = "prune", w[x].list = {}
               PROVE  /\ file[CurrentJSON] = w[x].doc
                      /\ file[CurrentMD] = w[x].doc
                      /\ file[Snapshot(clock)] = w[x].doc
                      /\ Cardinality(Entries) <= Keep
    BY DEF SuccessIsComplete
  <2>1. Attempt(x) /\ ReplacedCurrent(x) /\ WroteMD(x)
    BY <1>1 DEF StoreInv, AttemptInv, ReplacedCurrent, WroteMD
  <2>2. Pruning(x) /\ Entries \ w[x].list = Entries
    BY <2>1 DEF Attempt
  <2> QED BY <2>1, <2>2 DEF Attempt, Pruning
<1> QED BY <1>1, StoreInit, StoreStep, PTL DEF Spec

\* The run that is about to succeed is the baseline exactly when no run has
\* succeeded before it, and otherwise reports the difference to the last one
\* that did, if no attempt in between failed after it had replaced current and
\* the runs do not overlap (persistDocument, compareValues).
THEOREM ChangeIsReported == Spec => []ReportsChange
<1>1. ASSUME StoreInv PROVE ReportsChange
  <2> SUFFICES ASSUME ~shared, ~partial, NEW x \in Writer, w[x].pc = "prune"
               PROVE  /\ Baseline(x) = (last = Missing)
                      /\ ~Baseline(x) => w[x].diff = CompareValues(last, w[x].doc, Config)
    BY DEF ReportsChange
  <2>1. Attempt(x) /\ LastInv /\ ReplacedCurrent(x)
    BY <1>1 DEF StoreInv, AttemptInv, ReplacedCurrent
  <2>2. w[x].previous = last
    BY <2>1 DEF LastInv
  <2>3. w[x].diff = Difference(w[x].previous, w[x].doc)
    BY <2>1 DEF Attempt
  <2> QED BY <2>2, <2>3 DEF Baseline, Difference
<1> QED BY <1>1, StoreInit, StoreStep, PTL DEF Spec
=============================================================================
