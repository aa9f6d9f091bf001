--------------------------- MODULE MCDiscoveryCache ---------------------------
(* Small instances of DiscoveryCache.                                      *)
EXTENDS DiscoveryCache, TLC

\* Requests are interchangeable.
Symmetry == Permutations(Readers)
=============================================================================
