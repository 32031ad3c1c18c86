---------------------------- MODULE MCTwoFactor ----------------------------
(***************************************************************************)
(* Model checking of TwoFactor: two requests at a time on one account.     *)
(***************************************************************************)
EXTENDS TwoFactor, TLC

CONSTANTS s1, s2, k1, k2

MCIds == 1 .. 2
MCSlots == {s1, s2}
MCKeys == {k1, k2}
Symmetry == Permutations(MCSlots) \cup Permutations(MCKeys)
=============================================================================
