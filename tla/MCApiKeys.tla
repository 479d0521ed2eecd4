----------------------------- MODULE MCApiKeys -----------------------------
(* A small instance: two domains, addresses of one host with and without a *)
(* "*" of their own, and patterns each wider than the next.                *)
EXTENDS ApiKeys, TLC
CONSTANTS read, d1, d2, r1, r2, r3

At(local) == [local |-> local, domain |-> "x"]
MCAddresses == {At(<<"a">>), At(<<"a", "b">>), At(<<"b">>), At(<<"*">>), At(<<"a", "*">>)}
MCPatterns == {All, At(<<"*">>), At(<<"a", "*">>), At(<<"a", "b">>)}
MCOrders == LET admin == [cap |-> KeyAdmin, dom |-> d1, pat |-> At(<<"a", "b">>)]
                wide == [cap |-> read, dom |-> d1, pat |-> At(<<"*">>)]
                narrow == [cap |-> read, dom |-> d1, pat |-> At(<<"a", "*">>)]
                one == [cap |-> read, dom |-> None, pat |-> At(<<"a", "b">>)]
            IN  {{wide}, {one}, {admin, narrow}, {admin, wide}}
Symmetry == Permutations(Requests)
=============================================================================
