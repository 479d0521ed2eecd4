--------------------------- MODULE AddressPatterns ---------------------------
(***************************************************************************)
(* Mail addresses and the patterns scopes are expressed in                 *)
(* (value-objects/email-address.ts, value-objects/address-pattern.ts).     *)
(*                                                                         *)
(* Both are texts local@domain, but for the pattern that matches all.  A   *)
(* pattern has one "*" at most; an address may have any number of them:    *)
(* the character is one of those a local part is made of.                  *)
(***************************************************************************)
EXTENDS Integers, Sequences

CONSTANTS
  Characters,  \* what local parts are made of
  Star,        \* "*"
  Hosts,       \* domain names
  Addresses,   \* the texts parseEmailAddress accepts
  Patterns,    \* the texts parseAddressPattern accepts
  All          \* MATCH_ALL_ADDRESSES

Text == [local : Seq(Characters), domain : Hosts]
Stars(local) == {i \in DOMAIN local : local[i] = Star}

ASSUME PatternAssumption ==
  /\ Addresses \subseteq Text
  /\ All \in Patterns /\ All \notin Text
  /\ \A p \in Patterns \ {All} : /\ p \in Text
                                 /\ \A i, j \in Stars(p.local) : i = j

(* What comes before the "*" begins the local part, what comes after it    *)
(* ends it, and the two do not overlap.                                    *)
MatchLocalPart(pattern, local) ==
  \/ Stars(pattern) = {} /\ local = pattern
  \/ \E star \in Stars(pattern) :
       LET longer == Len(local) - Len(pattern) IN
       /\ longer >= -1
       /\ \A i \in 1 .. star - 1 : local[i] = pattern[i]
       /\ \A i \in star + 1 .. Len(pattern) : local[longer + i] = pattern[i]

MatchAddressPattern(pattern, address) ==
  pattern # All => /\ pattern.domain = address.domain
                   /\ MatchLocalPart(pattern.local, address.local)
=============================================================================
