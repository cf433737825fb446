------------------------------- MODULE MCOSHeap -------------------------------
(* The elements of a heap are interchangeable, but for Remove.             *)
EXTENDS OSHeap, TLC

Symmetry == Permutations(Elems \ Removable) \union Permutations(Removable)
=============================================================================
