------------------------------ MODULE MCSignIn ------------------------------
(* Requests are interchangeable. *)
EXTENDS SignIn, TLC
Symmetry == Permutations(Requests)
=============================================================================
