----------------------------- MODULE MCMetadata -----------------------------
(* Small instances of Metadata.                                            *)
EXTENDS Metadata, TLC

\* Requests, row ids and contents are interchangeable.
Symmetry == Permutations(Requests) \cup Permutations(Ids) \cup Permutations(Contents)
=============================================================================
