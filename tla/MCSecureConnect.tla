-------------------------- MODULE MCSecureConnect --------------------------
(***************************************************************************)
(* Model checking of SecureConnect: values and slots are interchangeable.  *)
(***************************************************************************)
EXTENDS SecureConnect, TLC

Symmetry == Permutations(Values) \cup Permutations(Requests)
=============================================================================
