------------------------------- MODULE MCMedia -------------------------------
(* Small instances of Media.                                               *)
EXTENDS Media, TLC

\* Requests, row ids, contents and names are interchangeable.
Symmetry == Permutations(Requests) \cup Permutations(Ids)
            \cup Permutations(Contents) \cup Permutations(Names)
=============================================================================
