--------------------------- MODULE FileLinkPromise --------------------------
(***************************************************************************)
(* What a temporary file link promises, without tables, requests or races: *)
(* a capability is issued once with a budget, each grant spends one unit   *)
(* of it, and once dead it is dead for good.  FileLinks implements it.     *)
(***************************************************************************)
EXTENDS Integers

CONSTANTS Links, Limits, Unlimited

VARIABLES phase,   \* "none", "live" or "dead"
          spent,   \* grants so far
          budget   \* grants allowed, Unlimited when there is no limit

Allowed(l) == budget[l] = Unlimited \/ spent[l] < budget[l]

Init == /\ phase = [l \in Links |-> "none"]
        /\ spent = [l \in Links |-> 0]
        /\ budget = [l \in Links |-> Unlimited]

Issue(l, n) == /\ phase[l] = "none"
               /\ phase' = [phase EXCEPT ![l] = "live"]
               /\ budget' = [budget EXCEPT ![l] = n]
               /\ UNCHANGED spent

Grant(l) == /\ phase[l] = "live" /\ Allowed(l)
            /\ spent' = [spent EXCEPT ![l] = @ + 1]
            /\ UNCHANGED <<phase, budget>>

(* Several links may die in one step: a sweep, a cascading delete. *)
Kill(S) == /\ \A l \in S : phase[l] = "live"
           /\ phase' = [l \in Links |-> IF l \in S THEN "dead" ELSE phase[l]]
           /\ UNCHANGED <<spent, budget>>

Next == \/ \E l \in Links, n \in Limits : Issue(l, n)
        \/ \E l \in Links : Grant(l)
        \/ \E S \in SUBSET Links : Kill(S)

Spec == Init /\ [][Next]_<<phase, spent, budget>>
=============================================================================
