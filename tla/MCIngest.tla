------------------------------ MODULE MCIngest ------------------------------
(* Small instances of Ingest.                                              *)
EXTENDS Ingest, TLC

\* The invocations of one job are interchangeable.
Symmetry == Permutations(Slots)
=============================================================================
