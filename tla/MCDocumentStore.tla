--------------------------- MODULE MCDocumentStore ---------------------------
(* Small instances of DocumentStore.                                        *)
EXTENDS DocumentStore, TLC

DocA == <<[key |-> "k1", field |-> "f", rest |-> "r"]>>
DocB == <<[key |-> "k1", field |-> "g", rest |-> "r"]>>

MCDoc == {DocA, DocB}
MCConfig == [identity |-> TRUE, compare |-> TRUE]

WriterSymmetry == Permutations(Writer)
=============================================================================
