---------------------------- MODULE MCAuthTokens ----------------------------
(***************************************************************************)
(* Model checking of AuthTokens: request slots, keys and users are         *)
(* interchangeable.                                                        *)
(***************************************************************************)
EXTENDS AuthTokens, TLC

Symmetry == Permutations(Keys) \cup Permutations(Logins)
            \cup Permutations(Calls) \cup Permutations(Users)
=============================================================================
