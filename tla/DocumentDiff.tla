----------------------------- MODULE DocumentDiff -----------------------------
(***************************************************************************)
(* How two versions of a task's document are compared (compareValues in    *)
(* web_supervisor-manager/app/app.go).  A document is a JSON array of      *)
(* items, or null; an item is the value found under the identity path (or  *)
(* NoKey if there is none), the fields listed in document.compare, and the *)
(* rest of it.                                                             *)
(***************************************************************************)
EXTENDS Integers, Sequences, FiniteSets

CONSTANTS
  Key,      \* values of the identity field
  NoKey,    \* the item has no such field
  Field,    \* what the compared fields of an item can hold
  Rest,     \* what its other fields can hold
  Null      \* the JSON document null; also `previous' when there is no file

ASSUME DiffAssumption == NoKey \notin Key

Item == [key : Key \cup {NoKey}, field : Field, rest : Rest]

\* What configuration of the task matters: `identity' and `compare' are set.
DocumentConfig == [identity : BOOLEAN, compare : BOOLEAN]

NoDiff == [added |-> 0, updated |-> 0, deleted |-> 0, unchanged |-> 0]

Keys(doc) == {doc[i].key : i \in DOMAIN doc}

\* Every item has an identity and no two have the same; null is one item
\* without fields.
RecordsByIdentity(doc) ==
  doc # Null /\ NoKey \notin Keys(doc) /\ Cardinality(Keys(doc)) = Len(doc)

ItemOf(doc, k) == doc[CHOOSE i \in DOMAIN doc : doc[i].key = k]

\* The fields of an item that count.
ProjectFields(item, cfg) ==
  IF cfg.compare THEN <<item.field>> ELSE <<item.field, item.rest>>

\* Keys in both documents whose items differ.
Differing(b, a, cfg) ==
  {k \in Keys(b) \cap Keys(a) :
     ProjectFields(ItemOf(b, k), cfg) # ProjectFields(ItemOf(a, k), cfg)}

\* Bug: updated items are also counted as unchanged.
BugDiffByIdentity(b, a, cfg) ==
  [added     |-> Cardinality(Keys(a) \ Keys(b)),
   updated   |-> Cardinality(Differing(b, a, cfg)),
   deleted   |-> Cardinality(Keys(b) \ Keys(a)),
   unchanged |-> Cardinality(Keys(b) \cap Keys(a))]

\* Bug: the deleted items are those that the new document has.
BugDeletedByIdentity(b, a, cfg) ==
  [added     |-> Cardinality(Keys(a) \ Keys(b)),
   updated   |-> Cardinality(Differing(b, a, cfg)),
   deleted   |-> 0,
   unchanged |-> Cardinality((Keys(b) \cap Keys(a)) \ Differing(b, a, cfg))]

DiffByIdentity(b, a, cfg) ==
  [added     |-> Cardinality(Keys(a) \ Keys(b)),
   updated   |-> Cardinality(Differing(b, a, cfg)),
   deleted   |-> Cardinality(Keys(b) \ Keys(a)),
   unchanged |-> Cardinality((Keys(b) \cap Keys(a)) \ Differing(b, a, cfg))]

\* A null document counts as missing even when it was stored.
CompareValues(before, after, cfg) ==
  IF before = Null THEN [NoDiff EXCEPT !.added = 1]
  ELSE IF before = after THEN [NoDiff EXCEPT !.unchanged = 1]
  ELSE IF cfg.identity /\ RecordsByIdentity(before) /\ RecordsByIdentity(after)
    THEN DiffByIdentity(before, after, cfg)
  ELSE [NoDiff EXCEPT !.updated = 1]

\* What runTask takes for a change worth a notification.
IsChange(diff) == diff.added > 0 \/ diff.updated > 0 \/ diff.deleted > 0
=============================================================================
