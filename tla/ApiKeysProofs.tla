--------------------------- MODULE ApiKeysProofs ---------------------------
(***************************************************************************)
(* Proofs about ApiKeys, for any keys, scopes, patterns and requests: IInv *)
(* is inductive, so no chain of keys issuing keys escalates, an answered   *)
(* revocation stands, and one bootstrap at most wins.                      *)
(***************************************************************************)
EXTENDS ApiKeys, TLAPS

USE NamesAssumption DEF Keys, Pcs

(* Covering is transitive, and what may be granted from backed scopes is   *)
(* backed in the form it is stored in.                                     *)
LEMMA CoversTransitive == \A x, y, z : Covers(x, y) /\ Covers(y, z) => Covers(x, z)
BY DEF Covers

LEMMA StoredCovered == \A w \in Wish : Covers(Stored(w), Stored(w))
BY DEF Covers

(* A pattern that matches another one as if that were an address matches   *)
(* all that one matches.  The outer pattern has no "*" in front of its own *)
(* nor behind it, so the inner one has its "*" in between.                 *)
LEMMA StarsInside ==
  ASSUME NEW outer \in Seq(Characters), NEW inner \in Seq(Characters),
         NEW p \in Stars(outer), NEW c \in Stars(inner),
         \A i \in Stars(outer) : i = p,
         Len(inner) - Len(outer) >= -1,
         \A i \in 1 .. p - 1 : inner[i] = outer[i],
         \A i \in p + 1 .. Len(outer) : inner[(Len(inner) - Len(outer)) + i] = outer[i]
  PROVE  /\ p <= c /\ c <= (Len(inner) - Len(outer)) + p
<1>1. /\ Len(outer) \in Nat /\ Len(inner) \in Nat
      /\ p \in 1 .. Len(outer) /\ c \in 1 .. Len(inner)
      /\ outer[p] = Star /\ inner[c] = Star
  BY DEF Stars
<1>2. \A i \in 1 .. Len(outer) : outer[i] = Star => i = p
  BY DEF Stars
<1>3. ASSUME c < p PROVE FALSE
  <2>1. c \in 1 .. p - 1 /\ c \in 1 .. Len(outer)
    BY <1>1, <1>3
  <2>2. outer[c] = Star
    BY <1>1, <2>1
  <2> QED
    BY <1>1, <1>2, <1>3, <2>1, <2>2
<1>4. ASSUME c > (Len(inner) - Len(outer)) + p PROVE FALSE
  <2> DEFINE i == c - (Len(inner) - Len(outer))
  <2>1. i \in p + 1 .. Len(outer) /\ (Len(inner) - Len(outer)) + i = c /\ i \in 1 .. Len(outer)
        /\ i > p
    BY <1>1, <1>4
  <2> HIDE DEF i
  <2>2. outer[i] = Star
    BY <1>1, <2>1
  <2>3. i = p
    BY <1>2, <2>1, <2>2
  <2> QED
    BY <1>1, <2>1, <2>3
<1> QED
  BY <1>1, <1>3, <1>4

LEMMA LocalPartsTransitive ==
  ASSUME NEW outer \in Seq(Characters), NEW inner \in Seq(Characters),
         NEW local \in Seq(Characters),
         \A i, j \in Stars(outer) : i = j,
         MatchLocalPart(outer, inner), MatchLocalPart(inner, local)
  PROVE  MatchLocalPart(outer, local)
<1>1. CASE Stars(outer) = {}
  BY <1>1 DEF MatchLocalPart
<1>2. CASE Stars(inner) = {}
  BY <1>2 DEF MatchLocalPart
<1>3. CASE Stars(outer) # {} /\ Stars(inner) # {}
  <2>1. PICK p \in Stars(outer) :
          /\ Len(inner) - Len(outer) >= -1
          /\ \A i \in 1 .. p - 1 : inner[i] = outer[i]
          /\ \A i \in p + 1 .. Len(outer) : inner[(Len(inner) - Len(outer)) + i] = outer[i]
    BY <1>3 DEF MatchLocalPart
  <2>2. PICK c \in Stars(inner) :
          /\ Len(local) - Len(inner) >= -1
          /\ \A i \in 1 .. c - 1 : local[i] = inner[i]
          /\ \A i \in c + 1 .. Len(inner) : local[(Len(local) - Len(inner)) + i] = inner[i]
    BY <1>3 DEF MatchLocalPart
  <2>3. p <= c /\ c <= (Len(inner) - Len(outer)) + p
    BY <2>1, StarsInside
  <2>4. /\ Len(outer) \in Nat /\ Len(inner) \in Nat /\ Len(local) \in Nat
        /\ p \in 1 .. Len(outer) /\ c \in 1 .. Len(inner)
    BY DEF Stars
  <2>5. Len(local) - Len(outer) >= -1
    BY <2>2, <2>3, <2>4
  <2>6. ASSUME NEW i \in 1 .. p - 1 PROVE local[i] = outer[i]
    <3>1. i \in 1 .. c - 1
      BY <2>3, <2>4
    <3> QED
      BY <2>1, <2>2, <3>1
  <2>7. ASSUME NEW i \in p + 1 .. Len(outer)
        PROVE  local[(Len(local) - Len(outer)) + i] = outer[i]
    <3> DEFINE j == (Len(inner) - Len(outer)) + i
    <3>1. j \in c + 1 .. Len(inner)
          /\ (Len(local) - Len(inner)) + j = (Len(local) - Len(outer)) + i
      BY <2>3, <2>4
    <3>2. inner[j] = outer[i]
      BY <2>1
    <3> HIDE DEF j
    <3> QED
      BY <2>2, <3>1, <3>2
  <2> QED
    BY <2>5, <2>6, <2>7 DEF MatchLocalPart
<1> QED
  BY <1>1, <1>2, <1>3

LEMMA MatchTransitive ==
  ASSUME NEW outer \in Patterns, NEW inner \in Addresses, NEW a \in Addresses,
         MatchAddressPattern(outer, inner), MatchAddressPattern(inner, a)
  PROVE  MatchAddressPattern(outer, a)
<1>1. inner # All /\ inner.local \in Seq(Characters) /\ a.local \in Seq(Characters)
  BY PatternAssumption DEF Text
<1>2. CASE outer = All
  BY <1>2 DEF MatchAddressPattern
<1>3. CASE outer # All
  <2>1. outer.local \in Seq(Characters) /\ \A i, j \in Stars(outer.local) : i = j
    <3>1. outer \in Patterns \ {All}
      BY <1>3
    <3>2. outer \in Text /\ \A i, j \in Stars(outer.local) : i = j
      BY ONLY <3>1, PatternAssumption, Zenon
    <3>3. outer.local \in Seq(Characters)
      BY <3>2 DEF Text
    <3> QED
      BY <3>2, <3>3
  <2>2. /\ outer.domain = inner.domain /\ MatchLocalPart(outer.local, inner.local)
        /\ inner.domain = a.domain /\ MatchLocalPart(inner.local, a.local)
    BY <1>1, <1>3 DEF MatchAddressPattern
  <2>3. MatchLocalPart(outer.local, a.local)
    BY <1>1, <2>1, <2>2, LocalPartsTransitive
  <2> QED
    BY <2>2, <2>3 DEF MatchAddressPattern
<1> QED
  BY <1>2, <1>3

LEMMA WithinCovers ==
  ASSUME NEW w \in Wish, NEW h \in Wish, ScopeIsWithin(w, h)
  PROVE  Covers(h, w)
<1> SUFFICES ASSUME NEW cap \in Capabilities, NEW d \in Domains, NEW a \in Addresses,
                    Authorizes(w, cap, d, a)
             PROVE  Authorizes(h, cap, d, a)
  BY DEF Covers
<1>1. h.cap = cap
  BY DEF ScopeIsWithin, Authorizes
<1>2. CASE cap \in Globals
  BY <1>1, <1>2 DEF Authorizes
<1>3. CASE cap \notin Globals
  <2>1. w.dom \in {None, d} /\ MatchAddressPattern(w.pat, a)
    BY <1>3 DEF Authorizes
  <2>2. h.dom \in {None, d}
    BY <2>1 DEF ScopeIsWithin
  <2>3. MatchAddressPattern(h.pat, a)
    <3>1. h.pat \in Patterns
      BY DEF Wish
    <3>2. CASE h.pat \in {All, w.pat}
      BY <2>1, <3>2 DEF MatchAddressPattern
    <3>3. CASE w.pat \in Addresses /\ MatchAddressPattern(h.pat, w.pat)
      BY <2>1, <3>1, <3>3, MatchTransitive
    <3> QED
      BY <3>2, <3>3 DEF ScopeIsWithin
  <2> QED
    BY <1>1, <2>2, <2>3 DEF Authorizes
<1> QED
  BY <1>2, <1>3

LEMMA GrantBacked ==
  ASSUME NEW w \in Wish, NEW v, NEW held \in SUBSET Wish, v # Admin,
         Grantable(v, held, w), \A h \in held : Backed(h)
  PROVE  Backed(Stored(w))
<1>1. CASE w.cap \in Globals
  <2>1. PICK h \in held : h.cap = w.cap
    BY <1>1 DEF Grantable, AuthorizesGlobal
  <2>2. Covers(h, Stored(w))
    BY <1>1, <2>1 DEF Covers, Authorizes, Stored, Wish
  <2> QED
    BY <2>2, CoversTransitive DEF Backed
<1>2. CASE w.cap \notin Globals
  <2>1. PICK h \in held : ScopeIsWithin(w, h)
    BY <1>2 DEF Grantable
  <2>2. Covers(h, w) /\ Stored(w) = w
    BY <1>2, <2>1, WithinCovers DEF Stored
  <2> QED
    BY <2>2, CoversTransitive DEF Backed
<1> QED
  BY <1>1, <1>2

LEMMA StoredType == \A w \in Wish : Stored(w) \in Wish
BY DEF Stored, Wish

LEMMA OverType == Over \in Request /\ Idle \in Request /\ Over.pc = "over" /\ Over.held = {}
                  /\ Idle.pc = "idle" /\ Idle.held = {}
BY DEF Over, Idle, Request

LEMMA InCopies == \A k, x, r : x \in Copies(k, r) <=>
  \/ \E u \in usage : u.key = k /\ u.row = x
  \/ \E s \in Requests \ {r} :
       /\ x = req[s].row
       /\ \/ req[s].pc = "listScopes" /\ req[s].as = k
          \/ req[s].pc = "saveRevoked" /\ req[s].key = k
BY DEF Copies

LEMMA InitIInv == Init => IInv
<1> SUFFICES ASSUME Init PROVE IInv
  OBVIOUS
<1>1. \A r \in Requests : req[r] = Idle
  BY DEF Init
<1>2. \A k \in Keys : keys[k] = None \/ keys[k] = [revoked |-> None]
  BY DEF Init
<1>3. scopes \subseteq Scope
  <2>1. CASE scopes = {}
    BY <2>1
  <2>2. CASE \E order \in [Seeds -> Orders] : scopes =
               UNION {{[key |-> k, by |-> k, wish |-> Stored(w)] : w \in order[k]} : k \in Seeds}
    BY <2>2, OrdersAssumption, StoredType DEF Scope
  <2> QED
    BY <2>1, <2>2 DEF Init
<1>4. TypeOK
  <2>1. keys \in [Keys -> Row \cup {None}]
    BY <1>2 DEF Init, Row, Revoked
  <2>2. rooted \subseteq Wish
    BY <1>3 DEF Init, Scope
  <2>3. stamped \in [Keys -> Revoked]
    BY DEF Init, Revoked
  <2>4. req \in [Requests -> Request]
    BY OverType DEF Init
  <2>5. claimed \in BOOLEAN /\ usage = {} /\ known \subseteq Keys
        /\ winners = {} /\ clashed = {}
    BY DEF Init
  <2> QED
    BY <1>3, <2>1, <2>2, <2>3, <2>4, <2>5 DEF TypeOK
<1>5. \A s \in scopes : Backed(s.wish)
  BY DEF Init, Backed, Covers
<1>6. \A r \in Requests : RequestInv(r)
  BY <1>1, OverType DEF RequestInv, Init
<1>7. \A k \in Keys : KeyInv(k)
  BY <1>2 DEF KeyInv, Init
<1>8. ClaimInv
  BY DEF ClaimInv, OneBootstrap, Init
<1> QED
  BY <1>4, <1>5, <1>6, <1>7, <1>8 DEF IInv

-----------------------------------------------------------------------------
(* Steps that change nothing but one request: it keeps its invariant, and  *)
(* a row it takes a copy of is the row in the table.                       *)
LEMMA QuietStep ==
  ASSUME IInv, NEW r \in Requests, NEW x \in Request,
         req' = [req EXCEPT ![r] = x], UNCHANGED <<tables, known, history>>,
         usage' \subseteq usage,
         RequestInv(r)',
         x.pc = "listScopes" => x.row = keys[x.as],
         x.pc = "saveRevoked" => x.row = keys[x.key] \/ keys[x.key].revoked = None
  PROVE  IInv'
<1> USE DEF IInv, tables, history
<1>1. req'[r] = x /\ \A s \in Requests : s # r => req'[s] = req[s]
  BY DEF TypeOK
<1>2. TypeOK'
  BY DEF TypeOK
<1>3. \A s \in scopes' : Backed(s.wish)'
  BY DEF Backed
<1>4. \A s \in Requests : RequestInv(s)'
  BY <1>1 DEF RequestInv, Backed
<1>5. \A k \in Keys : KeyInv(k)'
  <2> SUFFICES ASSUME NEW k \in Keys PROVE KeyInv(k)'
    OBVIOUS
  <2>1. KeyInv(k)
    OBVIOUS
  <2>2. ASSUME k \notin clashed, keys[k] # None, keys[k].revoked # None,
               NEW c \in Copies(k, None)'
        PROVE  c = keys[k]
    <3>1. CASE \E u \in usage' : u.key = k /\ u.row = c
      BY <3>1, <2>1, <2>2, InCopies DEF KeyInv
    <3>2. CASE \E s \in Requests \ {r} : /\ c = req[s].row
                 /\ \/ req[s].pc = "listScopes" /\ req[s].as = k
                    \/ req[s].pc = "saveRevoked" /\ req[s].key = k
      <4>1. None \notin Requests
        OBVIOUS
      <4>2. c \in Copies(k, None)
        BY <3>2, <4>1, InCopies
      <4> QED
        BY <4>2, <2>1, <2>2 DEF KeyInv
    <3>3. CASE /\ c = x.row
               /\ \/ x.pc = "listScopes" /\ x.as = k
                  \/ x.pc = "saveRevoked" /\ x.key = k
      BY <3>3, <2>2
    <3> QED
      <4>1. c \in Copies(k, None)' <=>
              \/ \E u \in usage' : u.key = k /\ u.row = c
              \/ \E s \in Requests \ {None} :
                   /\ c = req'[s].row
                   /\ \/ req'[s].pc = "listScopes" /\ req'[s].as = k
                      \/ req'[s].pc = "saveRevoked" /\ req'[s].key = k
        BY DEF Copies
      <4> QED
        BY <1>1, <2>2, <3>1, <3>2, <3>3, <4>1
  <2>3. keys' = keys /\ clashed' = clashed /\ stamped' = stamped /\ known' = known
    OBVIOUS
  <2> QED
    BY <2>1, <2>2, <2>3 DEF KeyInv
<1>6. ClaimInv'
  BY DEF ClaimInv, OneBootstrap
<1> QED
  BY <1>2, <1>3, <1>4, <1>5, <1>6

LEMMA ArriveStep == ASSUME IInv, NEW r \in Requests, Arrive(r) PROVE IInv'
<1>1. PICK v \in known \cup {Admin} :
        /\ req[r].pc = "idle" /\ (v = Admin => claimed)
        /\ req' = [req EXCEPT ![r] = [req[r] EXCEPT
             !.pc = IF v = Admin THEN "act" ELSE "findKey", !.as = v]]
        /\ UNCHANGED <<tables, usage, known, history>>
  BY DEF Arrive
<1> DEFINE x == [req[r] EXCEPT !.pc = IF v = Admin THEN "act" ELSE "findKey", !.as = v]
<1>2. x \in Request /\ x.held = req[r].held /\ x.as = v
      /\ x.pc = IF v = Admin THEN "act" ELSE "findKey"
  <2>1. req[r] \in Request /\ v \in Keys \cup {Admin}
    BY DEF IInv, TypeOK
  <2>2. CASE v = Admin
    BY <2>1, <2>2 DEF Request
  <2>3. CASE v # Admin
    BY <2>1, <2>3 DEF Request
  <2> QED
    BY <2>2, <2>3
<1> HIDE DEF x
<1>3. req' = [req EXCEPT ![r] = x] /\ req'[r] = x
  BY <1>1 DEF IInv, TypeOK, x
<1>4. v # Admin => v \in Keys /\ keys[v] # None
  BY DEF IInv, TypeOK, KeyInv
<1>5. RequestInv(r)'
  BY <1>1, <1>2, <1>3, <1>4 DEF IInv, RequestInv, ClaimInv, Backed, tables, history
<1> QED
  BY <1>1, <1>2, <1>3, <1>5, QuietStep

LEMMA FindKeyStep == ASSUME IInv, NEW r \in Requests, FindKey(r) PROVE IInv'
<1> DEFINE row == keys[req[r].as]
<1> DEFINE x == IF IsUsable(row) THEN [req[r] EXCEPT !.pc = "listScopes", !.row = row] ELSE Over
<1>1. req' = [req EXCEPT ![r] = x] /\ req[r].pc = "findKey"
      /\ UNCHANGED <<tables, usage, known, history>>
  BY DEF FindKey
<1>2. req[r].as \in Keys /\ row \in Row \cup {None} /\ req[r] \in Request
  BY <1>1 DEF IInv, TypeOK, RequestInv
<1>3. x \in Request
  BY <1>2, OverType DEF Request
<1>4. CASE IsUsable(row)
  <2>1. x.pc = "listScopes" /\ x.row = row /\ x.as = req[r].as /\ x.held = req[r].held
    BY <1>2, <1>4 DEF Request
  <2>2. row # None /\ row.revoked = None
    BY <1>4 DEF IsUsable
  <2> HIDE DEF x
  <2>3. req'[r] = x
    BY <1>1 DEF IInv, TypeOK
  <2>4. RequestInv(r)'
    BY <1>1, <1>2, <2>1, <2>2, <2>3 DEF IInv, RequestInv, Backed, tables, history
  <2> QED
    BY <1>1, <1>3, <2>1, <2>4, QuietStep
<1>5. CASE ~IsUsable(row)
  <2>1. x = Over
    BY <1>5
  <2> HIDE DEF x
  <2>2. req'[r] = Over
    BY <1>1, <2>1 DEF IInv, TypeOK
  <2>3. RequestInv(r)'
    BY <2>2, OverType DEF RequestInv
  <2> QED
    BY <1>1, <1>3, <2>1, <2>3, OverType, QuietStep
<1> QED
  BY <1>4, <1>5

LEMMA EndStep ==
  ASSUME IInv, NEW r \in Requests, req' = [req EXCEPT ![r] = Over],
         UNCHANGED <<tables, usage, known, history>>
  PROVE  IInv'
<1>1. req'[r] = Over
  BY DEF IInv, TypeOK
<1>2. RequestInv(r)'
  BY <1>1, OverType DEF RequestInv
<1> QED
  BY <1>2, OverType, QuietStep

LEMMA AddScopeStep == ASSUME IInv, NEW r \in Requests, AddScope(r) PROVE IInv'
<1>1. PICK k \in Keys, w \in UNION Orders :
        /\ AdministersKeys(r)
        /\ keys[k] # None /\ Grantable(req[r].as, req[r].held, w)
        /\ req' = [req EXCEPT ![r] = [req[r] EXCEPT !.pc = "saveScopes", !.key = k, !.todo = {w}]]
        /\ UNCHANGED <<tables, usage, known, history>>
  BY DEF AddScope
<1> DEFINE x == [req[r] EXCEPT !.pc = "saveScopes", !.key = k, !.todo = {w}]
<1>2. x \in Request /\ x.held = req[r].held /\ x.as = req[r].as
      /\ x.pc = "saveScopes" /\ x.key = k /\ x.todo = {w}
  <2>1. req[r] \in Request /\ w \in Wish
    BY OrdersAssumption DEF IInv, TypeOK
  <2> QED
    BY <2>1 DEF Request
<1> HIDE DEF x
<1>3. req' = [req EXCEPT ![r] = x] /\ req'[r] = x
  BY <1>1 DEF IInv, TypeOK, x
<1>4. RequestInv(r)'
  BY <1>1, <1>2, <1>3 DEF IInv, RequestInv, AdministersKeys, Backed, tables, history
<1> QED
  BY <1>1, <1>2, <1>3, <1>4, QuietStep

LEMMA FindScopeStep == ASSUME IInv, NEW r \in Requests, FindScope(r) PROVE IInv'
<1>1. PICK s \in scopes :
        /\ AdministersKeys(r)
        /\ req' = [req EXCEPT ![r] = [req[r] EXCEPT !.pc = "deleteScope", !.drop = {s}]]
        /\ UNCHANGED <<tables, usage, known, history>>
  BY DEF FindScope
<1> DEFINE x == [req[r] EXCEPT !.pc = "deleteScope", !.drop = {s}]
<1>2. x \in Request /\ x.held = req[r].held /\ x.pc = "deleteScope"
  <2>1. req[r] \in Request /\ s \in Scope
    BY DEF IInv, TypeOK
  <2> QED
    BY <2>1 DEF Request
<1> HIDE DEF x
<1>3. req' = [req EXCEPT ![r] = x] /\ req'[r] = x
  BY <1>1 DEF IInv, TypeOK, x
<1>4. RequestInv(r)'
  BY <1>1, <1>2, <1>3 DEF IInv, RequestInv, AdministersKeys, Backed, tables, history
<1> QED
  BY <1>1, <1>2, <1>3, <1>4, QuietStep

LEMMA FindToRevokeStep == ASSUME IInv, NEW r \in Requests, FindToRevoke(r) PROVE IInv'
<1>1. PICK k \in Keys :
        /\ AdministersKeys(r) /\ keys[k] # None
        /\ req' = [req EXCEPT ![r] =
             [req[r] EXCEPT !.pc = "saveRevoked", !.key = k, !.row = Revoke(keys[k], r)]]
        /\ UNCHANGED <<tables, usage, known, history>>
  BY DEF FindToRevoke
<1>2. keys[k] \in Row /\ Revoke(keys[k], r) \in Row
      /\ (Revoke(keys[k], r) = keys[k] \/ keys[k].revoked = None)
  BY <1>1 DEF IInv, TypeOK, Revoke, Row, Revoked
<1>3. Revoke(keys[k], r) # None
  BY <1>2 DEF Row, Revoked
<1> DEFINE x == [req[r] EXCEPT !.pc = "saveRevoked", !.key = k, !.row = Revoke(keys[k], r)]
<1>4. x \in Request /\ x.held = req[r].held /\ x.pc = "saveRevoked"
      /\ x.key = k /\ x.row = Revoke(keys[k], r)
  <2>1. req[r] \in Request
    BY DEF IInv, TypeOK
  <2> QED
    BY <1>2, <2>1 DEF Request
<1> HIDE DEF x
<1>5. req' = [req EXCEPT ![r] = x] /\ req'[r] = x
  BY <1>1 DEF IInv, TypeOK, x
<1>6. RequestInv(r)'
  BY <1>1, <1>3, <1>4, <1>5 DEF IInv, RequestInv, AdministersKeys, Backed, tables, history
<1> QED
  BY <1>1, <1>2, <1>4, <1>5, <1>6, QuietStep

-----------------------------------------------------------------------------
(* Steps that write: each says what becomes of the copies of every key.    *)
LEMMA ListScopesStep == ASSUME IInv, NEW r \in Requests, ListScopes(r) PROVE IInv'
<1> DEFINE u == [key |-> req[r].as, row |-> req[r].row]
<1> DEFINE x == [req[r] EXCEPT !.held = HeldBy(req[r].as), !.row = None, !.pc = "act"]
<1>1. /\ req[r].pc = "listScopes" /\ usage' = usage \cup {u}
      /\ req' = [req EXCEPT ![r] = x] /\ UNCHANGED <<tables, known, history>>
  BY DEF ListScopes
<1>2. req[r] \in Request /\ RequestInv(r)
  BY DEF IInv, TypeOK
<1>3. HeldBy(req[r].as) \subseteq Wish /\ \A h \in HeldBy(req[r].as) : Backed(h)
  BY DEF HeldBy, IInv, TypeOK, Scope
<1>4. x \in Request /\ x.pc = "act" /\ x.held = HeldBy(req[r].as)
  BY <1>2, <1>3 DEF Request
<1>5. u \in [key : Keys, row : Row] /\ u.key = req[r].as /\ u.row = req[r].row
      /\ keys[u.key] # None /\ u.row.revoked = None
  BY <1>1, <1>2 DEF RequestInv, Request
<1> HIDE DEF x, u
<1>6. req'[r] = x /\ \A s \in Requests : s # r => req'[s] = req[s]
  BY <1>1 DEF IInv, TypeOK
<1>7. TypeOK'
  BY <1>1, <1>4, <1>5 DEF IInv, TypeOK, tables, history
<1>8. \A s \in scopes' : Backed(s.wish)'
  BY <1>1 DEF IInv, Backed, tables, history
<1>9. \A s \in Requests : RequestInv(s)'
  BY <1>1, <1>2, <1>3, <1>4, <1>6 DEF IInv, RequestInv, Backed, tables, history
<1>10. \A k : Copies(k, None)' \subseteq Copies(k, None)
  <2> SUFFICES ASSUME NEW k, NEW c \in Copies(k, None)' PROVE c \in Copies(k, None)
    OBVIOUS
  <2>1. CASE \E v \in usage' : v.key = k /\ v.row = c
    <3>1. PICK v \in usage' : v.key = k /\ v.row = c
      BY <2>1
    <3> QED
      BY <1>1, <1>5, <3>1, InCopies
  <2>2. CASE \E s \in Requests : /\ c = req'[s].row
              /\ \/ req'[s].pc = "listScopes" /\ req'[s].as = k
                 \/ req'[s].pc = "saveRevoked" /\ req'[s].key = k
    BY <1>4, <1>6, <2>2, InCopies
  <2> QED
    BY <2>1, <2>2 DEF Copies
<1>11. \A k \in Keys : KeyInv(k)'
  BY <1>1, <1>5, <1>10 DEF IInv, KeyInv, tables, history
<1>12. ClaimInv'
  BY <1>1 DEF IInv, ClaimInv, OneBootstrap, tables, history
<1> QED
  BY <1>7, <1>8, <1>9, <1>11, <1>12 DEF IInv

LEMMA UsageLostStep == IInv /\ UsageLost => IInv'
<1> SUFFICES ASSUME IInv, UsageLost PROVE IInv'
  OBVIOUS
<1>1. usage' \subseteq usage /\ UNCHANGED <<tables, req, known, history>>
  BY DEF UsageLost
<1>2. \A k : Copies(k, None)' \subseteq Copies(k, None)
  BY <1>1 DEF Copies
<1>3. TypeOK'
  BY <1>1 DEF IInv, TypeOK, tables, history
<1>4. \A k \in Keys : KeyInv(k)'
  BY <1>1, <1>2 DEF IInv, KeyInv, tables, history
<1>5. \A r \in Requests : RequestInv(r)'
  BY <1>1 DEF IInv, RequestInv, Backed, tables, history
<1> QED
  BY <1>1, <1>3, <1>4, <1>5 DEF IInv, Backed, ClaimInv, OneBootstrap, tables, history

LEMMA UsageLandsStep == IInv /\ UsageLands => IInv'
<1> SUFFICES ASSUME IInv, UsageLands PROVE IInv'
  OBVIOUS
<1>1. PICK u \in usage : /\ usage' = usage \ {u} /\ keys' = [keys EXCEPT ![u.key] = u.row]
                        /\ UNCHANGED <<claimed, scopes, req, known, history>>
  BY DEF UsageLands, Upsert
<1>2. u.key \in Keys /\ u.row \in Row /\ keys[u.key] # None /\ u.row.revoked = None
  BY DEF IInv, TypeOK, KeyInv
<1>3. u.row # None
  BY <1>2 DEF Row, Revoked
<1>4. keys' \in [Keys -> Row \cup {None}] /\ keys'[u.key] = u.row
      /\ \A k \in Keys : k # u.key => keys'[k] = keys[k]
  BY <1>1, <1>2 DEF IInv, TypeOK
<1>5. \A k \in Keys : keys'[k] = None <=> keys[k] = None
  BY <1>2, <1>3, <1>4
<1>6. TypeOK'
  BY <1>1, <1>4 DEF IInv, TypeOK, history
<1>7. \A k : Copies(k, None)' \subseteq Copies(k, None)
  BY <1>1 DEF Copies
<1>8. \A r \in Requests : RequestInv(r)'
  BY <1>1, <1>5 DEF IInv, TypeOK, Request, RequestInv, Backed, history
<1>9. \A k \in Keys : KeyInv(k)'
  <2> SUFFICES ASSUME NEW k \in Keys PROVE KeyInv(k)'
    OBVIOUS
  <2>1. KeyInv(k)
    BY DEF IInv
  <2>2. CASE k # u.key
    BY <1>1, <1>4, <1>7, <2>1, <2>2 DEF KeyInv, history
  <2>3. CASE k = u.key
    <3>1. u.row \in Copies(k, None)
      BY <2>3, InCopies
    <3>2. k \notin clashed => keys[k].revoked = None
      BY <1>2, <2>1, <2>3, <3>1 DEF KeyInv
    <3>3. k \notin clashed => stamped[k] = None
      BY <2>1, <3>2 DEF KeyInv
    <3> QED
      BY <1>1, <1>2, <1>3, <1>4, <2>1, <2>3, <3>3 DEF KeyInv, history
  <2> QED
    BY <2>2, <2>3
<1>10. ClaimInv'
  BY <1>1, <1>2, <1>5 DEF IInv, ClaimInv, OneBootstrap, history
<1>11. \A s \in scopes' : Backed(s.wish)'
  BY <1>1 DEF IInv, Backed, history
<1> QED
  BY <1>6, <1>8, <1>9, <1>10, <1>11 DEF IInv
LEMMA SaveKeyStep == ASSUME IInv, NEW r \in Requests, SaveKey(r) PROVE IInv'
<1> DEFINE new == [revoked |-> None]
<1>1. PICK ws \in IF req[r].pc = "saveKey" THEN {req[r].todo} ELSE Orders :
        /\ \A w \in ws : Grantable(req[r].as, req[r].held, w)
        /\ req' = [req EXCEPT ![r] = [req[r] EXCEPT !.pc = "saveScopes", !.key = r, !.todo = ws]]
  BY DEF SaveKey
<1>2. /\ keys' = [keys EXCEPT ![r] = new]
      /\ UNCHANGED <<claimed, scopes, usage, known, history>>
      /\ req[r].pc \in {"saveKey", "act"}
  BY DEF SaveKey, Upsert, AdministersKeys
<1> DEFINE x == [req[r] EXCEPT !.pc = "saveScopes", !.key = r, !.todo = ws]
<1>3. new \in Row /\ new # None /\ new.revoked = None
  BY DEF Row, Revoked
<1>4. x \in Request /\ x.held = req[r].held /\ x.as = req[r].as
      /\ x.pc = "saveScopes" /\ x.key = r /\ x.todo = ws
  <2>1. req[r] \in Request
    BY DEF IInv, TypeOK
  <2>2. ws \in SUBSET Wish
    BY <1>1, <2>1, OrdersAssumption DEF Request
  <2> QED
    BY <2>1, <2>2 DEF Request
<1> HIDE DEF x, new
<1>5. req'[r] = x /\ \A s \in Requests : s # r => req'[s] = req[s]
  BY <1>1 DEF IInv, TypeOK, x
<1>6. keys' \in [Keys -> Row \cup {None}] /\ keys'[r] = new
      /\ \A k \in Keys : k # r => keys'[k] = keys[k]
  BY <1>2, <1>3 DEF IInv, TypeOK
<1>7. keys[r] = None
  BY <1>2 DEF IInv, RequestInv
<1>8. \A k \in Keys : keys[k] # None => keys'[k] = keys[k]
  BY <1>6, <1>7
<1>9. TypeOK'
  <2>1. req' \in [Requests -> Request]
    BY <1>1, <1>4 DEF IInv, TypeOK, x
  <2> QED
    BY <1>2, <1>6, <2>1 DEF IInv, TypeOK, history
<1>10. \A s \in scopes' : Backed(s.wish)'
  BY <1>2 DEF IInv, Backed, history
<1>11. \A s \in Requests : RequestInv(s)'
  <2> SUFFICES ASSUME NEW s \in Requests PROVE RequestInv(s)'
    OBVIOUS
  <2>1. RequestInv(s) /\ req[s] \in Request
    BY DEF IInv, TypeOK
  <2>2. CASE s = r
    BY <1>1, <1>2, <1>3, <1>4, <1>5, <1>6, <2>1, <2>2 DEF RequestInv, Backed, history
  <2>3. CASE s # r
    <3>1. req'[s] = req[s] /\ keys'[s] = keys[s]
      BY <1>5, <1>6, <2>3
    <3> QED
      BY <1>2, <1>8, <2>1, <3>1 DEF RequestInv, Backed, history, Request
  <2> QED
    BY <2>2, <2>3
<1>12. \A k : Copies(k, None)' \subseteq Copies(k, None)
  <2> SUFFICES ASSUME NEW k, NEW c \in Copies(k, None)' PROVE c \in Copies(k, None)
    OBVIOUS
  <2>1. CASE \E v \in usage' : v.key = k /\ v.row = c
    BY <1>2, <2>1, InCopies
  <2>2. CASE \E s \in Requests : /\ c = req'[s].row
              /\ \/ req'[s].pc = "listScopes" /\ req'[s].as = k
                 \/ req'[s].pc = "saveRevoked" /\ req'[s].key = k
    BY <1>4, <1>5, <2>2, InCopies
  <2> QED
    BY <2>1, <2>2 DEF Copies
<1>13. \A k \in Keys : KeyInv(k)'
  <2> SUFFICES ASSUME NEW k \in Keys PROVE KeyInv(k)'
    OBVIOUS
  <2>1. KeyInv(k)
    BY DEF IInv
  <2>2. CASE k = r
    BY <1>2, <1>3, <1>6, <1>7, <2>1, <2>2 DEF KeyInv, history
  <2>3. CASE k # r
    BY <1>2, <1>6, <1>12, <2>1, <2>3 DEF KeyInv, history
  <2> QED
    BY <2>2, <2>3
<1>14. ClaimInv'
  <2>1. claimed
    BY <1>2 DEF IInv, RequestInv
  <2>2. \A k \in Seeds : keys'[k] = keys[k]
    BY <1>6
  <2> QED
    BY <1>2, <2>1, <2>2 DEF IInv, ClaimInv, OneBootstrap, history
<1> QED
  BY <1>9, <1>10, <1>11, <1>13, <1>14 DEF IInv
LEMMA SaveScopeStep == ASSUME IInv, NEW r \in Requests, SaveScope(r) PROVE IInv'
<1>1. PICK w \in req[r].todo :
        /\ req[r].pc = "saveScopes"
        /\ scopes' = scopes \cup {[key |-> req[r].key, by |-> r, wish |-> Stored(w)]}
        /\ rooted' = IF req[r].as = Admin THEN rooted \cup {Stored(w)} ELSE rooted
        /\ req' = [req EXCEPT ![r] = IF req[r].todo \ {w} = {} THEN Over
                                     ELSE [req[r] EXCEPT !.todo = req[r].todo \ {w}]]
        /\ known' = IF req[r].todo \ {w} = {} /\ req[r].key = r THEN known \cup {r} ELSE known
        /\ UNCHANGED <<claimed, keys, usage, winners, stamped, clashed>>
  BY DEF SaveScope
<1> DEFINE x == IF req[r].todo \ {w} = {} THEN Over
                ELSE [req[r] EXCEPT !.todo = req[r].todo \ {w}]
<1>2. req[r] \in Request /\ RequestInv(r)
  BY DEF IInv, TypeOK
<1>3. /\ x \in Request /\ x.pc \in {"over", "saveScopes"}
      /\ x.held \subseteq req[r].held
      /\ x.pc = "saveScopes" => /\ x.todo \subseteq req[r].todo /\ x.as = req[r].as
                               /\ x.key = req[r].key /\ x.held = req[r].held
  BY <1>1, <1>2, OverType DEF Request
<1> HIDE DEF x
<1>4. req' = [req EXCEPT ![r] = x] /\ req'[r] = x
      /\ \A s \in Requests : s # r => req'[s] = req[s]
  BY <1>1 DEF IInv, TypeOK, x
<1>5. w \in Wish /\ Stored(w) \in Wish /\ req[r].held \subseteq Wish
      /\ req[r].key \in Keys /\ keys[req[r].key] # None
      /\ Grantable(req[r].as, req[r].held, w)
  BY <1>1, <1>2, StoredType DEF Request, RequestInv
<1>6. \A g : Backed(g) => Backed(g)'
  BY <1>1 DEF Backed, Covers, Authorizes
<1>7. Backed(Stored(w))'
  <2>1. CASE req[r].as = Admin
    BY <1>1, <1>5, <2>1, StoredCovered DEF Backed, Covers, Authorizes
  <2>2. CASE req[r].as # Admin
    <3>1. Backed(Stored(w))
      BY <1>2, <1>5, <2>2, GrantBacked DEF RequestInv
    <3> QED
      BY <3>1, <1>6
  <2> QED
    BY <2>1, <2>2
<1>8. TypeOK'
  <2>1. req' \in [Requests -> Request]
    BY <1>3, <1>4 DEF IInv, TypeOK
  <2>2. scopes' \subseteq Scope /\ rooted' \subseteq Wish /\ known' \subseteq Keys
    BY <1>1, <1>5 DEF IInv, TypeOK, Scope
  <2> QED
    BY <1>1, <2>1, <2>2 DEF IInv, TypeOK
<1>9. \A s \in scopes' : Backed(s.wish)'
  <2> SUFFICES ASSUME NEW s \in scopes' PROVE Backed(s.wish)'
    OBVIOUS
  <2>1. CASE s \in scopes
    BY <1>6, <2>1 DEF IInv
  <2>2. CASE s = [key |-> req[r].key, by |-> r, wish |-> Stored(w)]
    BY <1>7, <2>2
  <2> QED
    BY <1>1, <2>1, <2>2
<1>10. \A s \in Requests : RequestInv(s)'
  <2> SUFFICES ASSUME NEW s \in Requests PROVE RequestInv(s)'
    OBVIOUS
  <2>1. RequestInv(s)
    BY DEF IInv
  <2>2. CASE s = r
    <3>1. \A h \in x.held : Backed(h)'
      BY <1>2, <1>3, <1>6 DEF RequestInv
    <3> QED
      BY <1>1, <1>2, <1>3, <1>4, <2>2, <3>1 DEF RequestInv
  <2>3. CASE s # r
    <3>1. req'[s] = req[s] /\ keys' = keys /\ winners' = winners /\ claimed' = claimed
      BY <1>1, <1>4, <2>3
    <3>2. \A h \in req[s].held : Backed(h)'
      BY <1>6, <2>1 DEF RequestInv
    <3> QED
      BY <2>1, <3>1, <3>2 DEF RequestInv
  <2> QED
    BY <2>2, <2>3
<1>11. \A k : Copies(k, None)' \subseteq Copies(k, None)
  <2> SUFFICES ASSUME NEW k, NEW c \in Copies(k, None)' PROVE c \in Copies(k, None)
    OBVIOUS
  <2>1. CASE \E v \in usage' : v.key = k /\ v.row = c
    BY <1>1, <2>1, InCopies
  <2>2. CASE \E s \in Requests : /\ c = req'[s].row
              /\ \/ req'[s].pc = "listScopes" /\ req'[s].as = k
                 \/ req'[s].pc = "saveRevoked" /\ req'[s].key = k
    BY <1>3, <1>4, <2>2, InCopies
  <2> QED
    BY <2>1, <2>2 DEF Copies
<1>12. \A k \in Keys : KeyInv(k)'
  <2> SUFFICES ASSUME NEW k \in Keys PROVE KeyInv(k)'
    OBVIOUS
  <2>1. KeyInv(k)
    BY DEF IInv
  <2>2. k \in known' => keys'[k] # None
    BY <1>1, <1>5, <2>1 DEF KeyInv
  <2> QED
    BY <1>1, <1>11, <2>1, <2>2 DEF KeyInv
<1>13. ClaimInv'
  BY <1>1, <1>2 DEF IInv, ClaimInv, OneBootstrap, RequestInv
<1> QED
  BY <1>8, <1>9, <1>10, <1>12, <1>13 DEF IInv

LEMMA DeleteScopeStep == ASSUME IInv, NEW r \in Requests, DeleteScope(r) PROVE IInv'
<1>1. /\ scopes' \subseteq scopes /\ req' = [req EXCEPT ![r] = Over]
      /\ UNCHANGED <<claimed, keys, usage, known, history>>
  BY DEF DeleteScope
<1>2. req'[r] = Over /\ \A s \in Requests : s # r => req'[s] = req[s]
  BY <1>1 DEF IInv, TypeOK
<1>3. TypeOK'
  BY <1>1, OverType DEF IInv, TypeOK, history
<1>4. \A s \in Requests : RequestInv(s)'
  BY <1>1, <1>2, OverType DEF IInv, RequestInv, Backed, history
<1>5. \A k : Copies(k, None)' \subseteq Copies(k, None)
  BY <1>1, <1>2, OverType DEF Copies
<1>6. \A k \in Keys : KeyInv(k)'
  BY <1>1, <1>5 DEF IInv, KeyInv, history
<1> QED
  BY <1>1, <1>3, <1>4, <1>6 DEF IInv, Backed, ClaimInv, OneBootstrap, history

LEMMA BootstrapStep == ASSUME IInv, NEW r \in Requests, Bootstrap(r) PROVE IInv'
<1> DEFINE new == [Idle EXCEPT !.pc = "saveKey", !.as = Admin, !.todo = Everything]
<1> DEFINE x == IF claimed THEN Over ELSE new
<1>1. /\ req[r].pc = "idle" /\ claimed' = TRUE /\ req' = [req EXCEPT ![r] = x]
      /\ winners' = IF claimed THEN winners ELSE winners \cup {r}
      /\ UNCHANGED <<keys, scopes, usage, known, rooted, stamped, clashed>>
  BY DEF Bootstrap, MayClaim
<1>2. Everything \subseteq Wish
  BY PatternAssumption DEF Everything, Wish
<1>3. new \in Request /\ new.pc = "saveKey" /\ new.as = Admin /\ new.held = {}
  BY <1>2 DEF Idle, Request
<1> HIDE DEF new
<1>4. /\ x \in Request /\ x.held = {} /\ x.pc \in {"over", "saveKey"}
      /\ x.pc = "saveKey" => x.as = Admin /\ ~claimed
  BY <1>3, OverType
<1> HIDE DEF x
<1>5. req'[r] = x /\ \A s \in Requests : s # r => req'[s] = req[s]
  BY <1>1 DEF IInv, TypeOK
<1>6. TypeOK'
  BY <1>1, <1>4 DEF IInv, TypeOK
<1>7. \A s \in Requests : RequestInv(s)'
  <2>1. RequestInv(r)'
    BY <1>1, <1>4, <1>5 DEF IInv, RequestInv
  <2>2. ASSUME NEW s \in Requests, s # r PROVE RequestInv(s)'
    BY <1>1, <1>5, <2>2 DEF IInv, RequestInv, Backed
  <2> QED
    BY <2>1, <2>2
<1>8. \A k : Copies(k, None)' \subseteq Copies(k, None)
  BY <1>1, <1>4, <1>5 DEF Copies
<1>9. \A k \in Keys : KeyInv(k)'
  BY <1>1, <1>8 DEF IInv, KeyInv
<1>10. ClaimInv'
  BY <1>1 DEF IInv, ClaimInv, OneBootstrap
<1> QED
  BY <1>1, <1>6, <1>7, <1>9, <1>10 DEF IInv, Backed

LEMMA SaveRevokedStep == ASSUME IInv, NEW r \in Requests, SaveRevoked(r) PROVE IInv'
<1> DEFINE q == req[r]
<1>1. /\ q.pc = "saveRevoked" /\ keys' = [keys EXCEPT ![q.key] = q.row]
      /\ clashed' = IF Copies(q.key, r) \subseteq {q.row} THEN clashed
                    ELSE clashed \cup {q.key}
      /\ stamped' = [stamped EXCEPT
           ![q.key] = IF stamped[q.key] = None THEN q.row.revoked ELSE stamped[q.key]]
      /\ req' = [req EXCEPT ![r] = Over]
      /\ UNCHANGED <<claimed, scopes, usage, known, winners, rooted>>
  BY DEF SaveRevoked, Upsert
<1>2. q.key \in Keys /\ q.row \in Row /\ q.row # None /\ keys[q.key] # None
  BY <1>1 DEF IInv, TypeOK, RequestInv, Request
<1> HIDE DEF q
<1>3. keys' \in [Keys -> Row \cup {None}] /\ keys'[q.key] = q.row
      /\ \A k \in Keys : k # q.key => keys'[k] = keys[k]
  BY <1>1, <1>2 DEF IInv, TypeOK
<1>4. /\ stamped' \in [Keys -> Revoked]
      /\ stamped'[q.key] = IF stamped[q.key] = None THEN q.row.revoked ELSE stamped[q.key]
      /\ \A k \in Keys : k # q.key => stamped'[k] = stamped[k]
  <2>1. q.row.revoked \in Revoked /\ stamped \in [Keys -> Revoked]
    BY <1>2 DEF IInv, TypeOK, Row
  <2> DEFINE v == IF stamped[q.key] = None THEN q.row.revoked ELSE stamped[q.key]
  <2>2. v \in Revoked /\ stamped' = [stamped EXCEPT ![q.key] = v]
    BY <1>1, <1>2, <2>1
  <2>3. v = IF stamped[q.key] = None THEN q.row.revoked ELSE stamped[q.key]
    OBVIOUS
  <2> HIDE DEF v
  <2> QED
    BY <1>2, <2>1, <2>2, <2>3
<1>5. \A k \in Keys : keys'[k] = None <=> keys[k] = None
  BY <1>2, <1>3
<1>6. req'[r] = Over /\ \A s \in Requests : s # r => req'[s] = req[s]
  BY <1>1 DEF IInv, TypeOK
<1>7. TypeOK'
  BY <1>1, <1>2, <1>3, <1>4, OverType DEF IInv, TypeOK
<1>8. \A s \in Requests : RequestInv(s)'
  <2>1. RequestInv(r)'
    BY <1>6, OverType DEF RequestInv
  <2>2. ASSUME NEW s \in Requests, s # r PROVE RequestInv(s)'
    BY <1>1, <1>5, <1>6, <2>2 DEF IInv, TypeOK, Request, RequestInv, Backed
  <2> QED
    BY <2>1, <2>2
<1>9. \A k : Copies(k, None)' \subseteq Copies(k, None) /\ Copies(k, None)' \subseteq Copies(k, r)
  BY <1>1, <1>6, OverType DEF Copies
<1>10. \A k \in Keys : KeyInv(k)'
  <2> SUFFICES ASSUME NEW k \in Keys PROVE KeyInv(k)'
    OBVIOUS
  <2>1. KeyInv(k)
    BY DEF IInv
  <2>2. CASE k # q.key
    BY <1>1, <1>3, <1>4, <1>9, <2>1, <2>2 DEF KeyInv
  <2>3. CASE k = q.key
    <3>1. q.row \in Copies(k, None)
      BY <1>1, <2>3, InCopies DEF q
    <3>2. k \notin clashed' => k \notin clashed /\ Copies(k, None)' \subseteq {q.row}
      BY <1>1, <1>9, <2>3
    <3>3. k \notin clashed /\ stamped[k] # None => stamped[k] = q.row.revoked
      BY <2>1, <3>1 DEF KeyInv
    <3>4. k \notin clashed' /\ stamped'[k] # None => keys'[k].revoked = stamped'[k]
      <4>1. keys'[k] = q.row
        BY <1>3, <2>3
      <4>2. stamped'[k] = IF stamped[k] = None THEN q.row.revoked ELSE stamped[k]
        BY <1>4, <2>3
      <4> QED
        BY <3>2, <3>3, <4>1, <4>2
    <3> QED
      BY <1>1, <1>2, <1>3, <2>1, <2>3, <3>2, <3>4 DEF KeyInv
  <2> QED
    BY <2>2, <2>3
<1>11. ClaimInv'
  BY <1>1, <1>2, <1>5 DEF IInv, ClaimInv, OneBootstrap
<1> QED
  BY <1>1, <1>7, <1>8, <1>10, <1>11 DEF IInv, Backed

-----------------------------------------------------------------------------
LEMMA NextIInv == IInv /\ [Next]_vars => IInv'
<1> SUFFICES ASSUME IInv, [Next]_vars PROVE IInv'
  OBVIOUS
<1>1. CASE UNCHANGED vars
  <2>1. UNCHANGED <<claimed, keys, scopes, usage, req, known, winners, rooted, stamped, clashed>>
    BY <1>1 DEF vars, tables, history
  <2>2. TypeOK' /\ ClaimInv' /\ (\A s \in scopes' : Backed(s.wish)')
    BY <2>1 DEF IInv, TypeOK, ClaimInv, OneBootstrap, Backed
  <2>3. \A r \in Requests : RequestInv(r)'
    BY <2>1 DEF IInv, RequestInv, Backed
  <2>4. \A k \in Keys : KeyInv(k)'
    BY <2>1 DEF IInv, KeyInv, Copies
  <2> QED
    BY <2>2, <2>3, <2>4 DEF IInv
<1>2. CASE UsageLands \/ UsageLost
  BY <1>2, UsageLandsStep, UsageLostStep
<1>3. ASSUME NEW r \in Requests, Arrive(r) \/ Bootstrap(r) \/ Evict(r) PROVE IInv'
  BY <1>3, ArriveStep, BootstrapStep, EndStep DEF Evict
<1>4. ASSUME NEW r \in Requests, Resume(r) PROVE IInv'
  BY <1>4, FindKeyStep, ListScopesStep, EndStep, SaveKeyStep, AddScopeStep, SaveScopeStep,
     FindScopeStep, DeleteScopeStep, FindToRevokeStep, SaveRevokedStep DEF Resume, Answer
<1> QED
  BY <1>1, <1>2, <1>3, <1>4 DEF Next

(* Tables, requests and history always agree as IInv says.                 *)
THEOREM ApiKeysInvariant == Spec => []IInv
BY InitIInv, NextIInv, PTL DEF Spec

(* Whatever keys issue to keys, nothing is granted that no admin granted.  *)
THEOREM NeverEscalates == Spec => []NoEscalation
<1>1. IInv => NoEscalation
  BY DEF IInv, Backed, NoEscalation
<1> QED
  BY <1>1, ApiKeysInvariant, PTL

(* An answered revocation stands unless a stale copy of the row was held.  *)
THEOREM RevocationIsFinal == Spec => []RevocationStands
<1>1. IInv => RevocationStands
  BY DEF IInv, KeyInv, RevocationStands
<1> QED
  BY <1>1, ApiKeysInvariant, PTL

(* One bootstrap at most ever creates the first user.                      *)
THEOREM BootstrapWinsOnce == Spec => []OneBootstrap
<1>1. IInv => OneBootstrap
  BY DEF IInv, ClaimInv
<1> QED
  BY <1>1, ApiKeysInvariant, PTL
=============================================================================
