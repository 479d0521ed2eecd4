--------------------------- MODULE MCPermissions ---------------------------
(* A small instance: a user and an owner of calendars, two domains, two    *)
(* addresses, a pattern that covers everything and one that covers one.    *)
EXTENDS Permissions, TLC
CONSTANTS me, other, d1, d2, a1, a2, one, c1, c2

MCCovers == (Star :> {a1, a2}) @@ (one :> {a1})
MCMails == {[domain |-> d1, addresses |-> {a1}], [domain |-> d1, addresses |-> {a1, a2}],
            [domain |-> d2, addresses |-> {a1}], [domain |-> d2, addresses |-> {a2}]}
MCTargets ==
    {[table |-> "mail", domain |-> Null, pattern |-> Star],
     [table |-> "mail", domain |-> d1, pattern |-> one],
     [table |-> "calendar", capability |-> "READ", owner |-> other],
     [table |-> "calendar", capability |-> "WRITE", owner |-> Null],
     [table |-> "template", capability |-> "EDIT"]}
MCScopes == {s \in MailScope : s.pattern = one => s.domain # d2}
Symmetry == Permutations(Calls)
=============================================================================
