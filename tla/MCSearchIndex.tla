---------------------------- MODULE MCSearchIndex ----------------------------
(* Small instances of SearchIndex.                                         *)
EXTENDS SearchIndex, TLC

\* Ids of one kind are interchangeable.
Symmetry == Permutations(ProgramIds) \cup Permutations(EpisodeIds)
=============================================================================
