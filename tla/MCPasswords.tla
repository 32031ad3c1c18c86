---------------------------- MODULE MCPasswords ----------------------------
(***************************************************************************)
(* Model checking of Passwords: two requests at a time.                    *)
(***************************************************************************)
EXTENDS Passwords, TLC

CONSTANTS p1, p2, t1, t2, k1, k2, s1, s2

MCSecrets == {p1, p2}
MCTokens == {t1, t2}
MCKeys == {k1, k2}
MCSlots == {s1, s2}
Symmetry == Permutations(MCSecrets) \cup Permutations(MCTokens)
            \cup Permutations(MCKeys) \cup Permutations(MCSlots)
=============================================================================
