------------------------- MODULE MCIncrementalSync -------------------------
(***************************************************************************)
(* Model checking of IncrementalSync.  Two contents match the client's     *)
(* filters and one does not.  Objects, writers and matching contents are   *)
(* interchangeable.                                                        *)
(***************************************************************************)
EXTENDS IncrementalSync, TLC

Symmetry == Permutations(Objects) \cup Permutations(Writers)
            \cup Permutations(Matching)
=============================================================================
