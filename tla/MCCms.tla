------------------------------- MODULE MCCms -------------------------------
(* Small instances of Cms.                                                 *)
EXTENDS Cms, TLC

\* Requests, ids and titles are interchangeable.
Symmetry == Permutations(Requests) \cup Permutations(ProgramIds)
            \cup Permutations(EpisodeIds) \cup Permutations(Titles)
=============================================================================
