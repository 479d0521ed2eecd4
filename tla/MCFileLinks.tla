----------------------------- MODULE MCFileLinks ----------------------------
(* TLC instance of FileLinks: see FileLinks.cfg for the constants. *)
EXTENDS FileLinks, TLC

CONSTANTS l1, t1, d1, d2, r1, r2

MCLimits == {0, 1, 2, Unlimited}
MCTtls == {NotGiven, -1, 9}

Symm == Permutations({d1, d2}) \cup Permutations({r1, r2})
=============================================================================
