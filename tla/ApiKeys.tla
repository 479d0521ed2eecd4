------------------------------ MODULE ApiKeys ------------------------------
(***************************************************************************)
(* API keys and their scopes (usecases/api-keys.ts, the key half of        *)
(* usecases/auth.ts, the bootstrap of usecases/email-auth.ts,              *)
(* entities/api-key.ts, repositories/api-key-repository.ts).               *)
(*                                                                         *)
(* A request is one Worker invocation: a step is the work between two      *)
(* awaits, and it may be evicted at any of them.  A request authenticated  *)
(* by a key acts on the scopes it read while resolving the key, and leaves *)
(* a write of the whole key row behind that may land at any later time.    *)
(* A request's own identity stands for the ids and timestamps it draws.    *)
(***************************************************************************)
EXTENDS AddressPatterns, FiniteSets

CONSTANTS
  Requests,      \* one-shot requests
  Seeds,         \* keys issued before the first step
  Capabilities,  \* enum Capability
  Globals,       \* GLOBAL_CAPABILITIES
  KeyAdmin,      \* KEY_ADMIN
  Domains,       \* managed domains
  Orders,        \* sets of scopes a caller may ask for in one call
  Admin,         \* the viewer of an ADMIN user's session
  None           \* null

Keys == Seeds \cup Requests
Wish == [cap : Capabilities, dom : Domains \cup {None}, pat : Patterns]

ASSUME CapabilityAssumption == KeyAdmin \in Globals /\ Globals \subseteq Capabilities
ASSUME OrdersAssumption == Orders \subseteq SUBSET Wish
ASSUME NamesAssumption == /\ None \notin Keys \cup Domains \cup [revoked : Keys \cup {None}]
                          /\ Admin \notin Keys \cup {None}
                          /\ Seeds \cap Requests = {}

VARIABLES
  claimed,  \* the users table is no longer empty
  keys,     \* the api_keys table: the revoked_at column of each key
  scopes,   \* the api_key_scopes table
  usage,    \* whole-row writes of recordApiKeyUsage still under way
  req,      \* requests in flight
  known,    \* keys whose secret was handed to a caller
  winners,  \* history: bootstraps that created the first user
  rooted,   \* history: scopes granted by an admin or by the bootstrap
  stamped,  \* history: when each key's first answered revocation happened
  clashed   \* history: keys whose row was revoked while a copy was held

tables == <<claimed, keys, scopes>>
history == <<winners, rooted, stamped, clashed>>
vars == <<tables, usage, req, known, history>>

Revoked == Requests \cup {None}
Row == [revoked : Revoked]
Scope == [key : Keys, by : Requests \cup Seeds, wish : Wish]
Pcs == {"findKey", "listScopes", "act", "saveKey", "saveScopes", "deleteScope",
        "saveRevoked"}
Request == [pc : Pcs \cup {"idle", "over"}, as : Keys \cup {Admin, None},
            row : Row \cup {None}, held : SUBSET Wish, key : Keys \cup {None},
            todo : SUBSET Wish, drop : SUBSET Scope]
Idle == [pc |-> "idle", as |-> None, row |-> None, held |-> {}, key |-> None,
         todo |-> {}, drop |-> {}]
Over == [Idle EXCEPT !.pc = "over"]

-----------------------------------------------------------------------------
(* Defects the properties below must catch, each a plausible slip in the   *)
(* operator of the same shape that follows.                                *)
WithinAnyDomain(w, h) ==
  /\ h.cap = w.cap
  /\ \/ h.pat \in {All, w.pat}
     \/ w.pat \in Addresses /\ MatchAddressPattern(h.pat, w.pat)
UpsertKeepsRevoked(old, new) == IF old = None THEN new ELSE old
StampRevoked(row, r) == [row EXCEPT !.revoked = r]

(* scopeIsWithin: the wish grants no more than the held scope does.  A      *)
(* pattern that would do for an address, its "*" included, is matched like *)
(* one.                                                                    *)
ScopeIsWithin(w, h) ==
  /\ h.cap = w.cap
  /\ h.dom \in {None, w.dom}
  /\ \/ h.pat \in {All, w.pat}
     \/ w.pat \in Addresses /\ MatchAddressPattern(h.pat, w.pat)

(* authorizesGlobal *)
AuthorizesGlobal(v, held, cap) == v = Admin \/ cap \in {h.cap : h \in held}

(* assertGrantable *)
Grantable(v, held, w) ==
  \/ v = Admin
  \/ w.cap \in Globals /\ AuthorizesGlobal(v, held, w.cap)
  \/ w.cap \notin Globals /\ \E h \in held : ScopeIsWithin(w, h)

(* createApiKeyScope: a global capability is stored without its domain. *)
Stored(w) == IF w.cap \in Globals THEN [w EXCEPT !.dom = None] ELSE w

(* The scopes the bootstrap gives the first key. *)
Everything == {[cap |-> c, dom |-> None, pat |-> All] : c \in Capabilities}

(* isApiKeyUsable; a key past its expiry is refused like a revoked one. *)
IsUsable(row) == row # None /\ row.revoked = None

(* revokeApiKey: the first revocation keeps its timestamp. *)
Revoke(row, r) == IF row.revoked = None THEN [row EXCEPT !.revoked = r] ELSE row

(* save: INSERT ... ON CONFLICT(id) DO UPDATE of revoked_at as well. *)
Upsert(old, new) == new

(* createFirstUser: INSERT ... WHERE NOT EXISTS (SELECT 1 FROM users). *)
MayClaim(taken) == ~taken

HeldBy(k) == {s.wish : s \in {t \in scopes : t.key = k}}

-----------------------------------------------------------------------------
(* An empty instance, or one an admin has issued keys on already. *)
Init ==
  /\ \/ claimed = FALSE /\ scopes = {} /\ keys = [k \in Keys |-> None]
     \/ /\ claimed = TRUE
        /\ keys = [k \in Keys |-> IF k \in Seeds THEN [revoked |-> None] ELSE None]
        /\ \E order \in [Seeds -> Orders] : scopes =
             UNION {{[key |-> k, by |-> k, wish |-> Stored(w)] : w \in order[k]} : k \in Seeds}
  /\ usage = {} /\ known = {k \in Seeds : keys[k] # None}
  /\ req = [r \in Requests |-> Idle]
  /\ winners = {}
  /\ rooted = {s.wish : s \in scopes}
  /\ stamped = [k \in Keys |-> None] /\ clashed = {}

(* A request arrives with an admin's session or with the secret of a key.  *)
Arrive(r) == \E v \in known \cup {Admin} :
  /\ req[r].pc = "idle"
  /\ v = Admin => claimed
  /\ req' = [req EXCEPT ![r] = [@ EXCEPT
       !.pc = IF v = Admin THEN "act" ELSE "findKey", !.as = v]]
  /\ UNCHANGED <<tables, usage, known, history>>

(* resolveViewerFromToken: findByKeyHash; *)
FindKey(r) ==
  LET q == req[r]  row == keys[q.as] IN
  /\ q.pc = "findKey"
  /\ req' = [req EXCEPT ![r] = IF IsUsable(row)
                               THEN [q EXCEPT !.pc = "listScopes", !.row = row]
                               ELSE Over]
  /\ UNCHANGED <<tables, usage, known, history>>

(* listScopes, and the write of the usage nobody waits for.  The viewer is *)
(* resolved; what the request then does is chosen by the actions below.    *)
ListScopes(r) ==
  LET q == req[r] IN
  /\ q.pc = "listScopes"
  /\ usage' = usage \cup {[key |-> q.as, row |-> q.row]}
  /\ req' = [req EXCEPT ![r] = [q EXCEPT !.held = HeldBy(q.as), !.row = None, !.pc = "act"]]
  /\ UNCHANGED <<tables, known, history>>

(* The write lands, late perhaps, or is lost with its Worker. *)
UsageLands == \E u \in usage :
  /\ usage' = usage \ {u}
  /\ keys' = [keys EXCEPT ![u.key] = Upsert(@, u.row)]
  /\ UNCHANGED <<claimed, scopes, req, known, history>>
UsageLost == \E u \in usage :
  /\ usage' = usage \ {u}
  /\ UNCHANGED <<tables, req, known, history>>

(* The request read something, or was refused. *)
Answer(r) ==
  /\ req[r].pc = "act"
  /\ req' = [req EXCEPT ![r] = Over]
  /\ UNCHANGED <<tables, usage, known, history>>

(* requireGlobalCapability(KEY_ADMIN) *)
AdministersKeys(r) ==
  req[r].pc = "act" /\ AuthorizesGlobal(req[r].as, req[r].held, KeyAdmin)

(* createApiKey: every scope is checked before the key's row is saved. *)
SaveKey(r) ==
  LET q == req[r] IN
  /\ q.pc = "saveKey" \/ AdministersKeys(r)
  /\ keys' = [keys EXCEPT ![r] = Upsert(@, [revoked |-> None])]
  /\ \E ws \in IF q.pc = "saveKey" THEN {q.todo} ELSE Orders :
       /\ ws # {} /\ \A w \in ws : Grantable(q.as, q.held, w)
       /\ req' = [req EXCEPT ![r] = [q EXCEPT !.pc = "saveScopes", !.key = r, !.todo = ws]]
  /\ UNCHANGED <<claimed, scopes, usage, known, history>>

(* addScope: findById found the key, the scope is checked. *)
AddScope(r) == \E k \in Keys, w \in UNION Orders :
  LET q == req[r] IN
  /\ AdministersKeys(r)
  /\ keys[k] # None /\ Grantable(q.as, q.held, w)
  /\ req' = [req EXCEPT ![r] = [q EXCEPT !.pc = "saveScopes", !.key = k, !.todo = {w}]]
  /\ UNCHANGED <<tables, usage, known, history>>

(* saveScope; after a new key's last one its secret goes to the caller. *)
SaveScope(r) == \E w \in req[r].todo :
  LET q == req[r]  rest == q.todo \ {w} IN
  /\ q.pc = "saveScopes"
  /\ scopes' = scopes \cup {[key |-> q.key, by |-> r, wish |-> Stored(w)]}
  /\ rooted' = IF q.as = Admin THEN rooted \cup {Stored(w)} ELSE rooted
  /\ req' = [req EXCEPT ![r] = IF rest = {} THEN Over ELSE [q EXCEPT !.todo = rest]]
  /\ known' = IF rest = {} /\ q.key = r THEN known \cup {r} ELSE known
  /\ UNCHANGED <<claimed, keys, usage, winners, stamped, clashed>>

(* removeScope: findScopeById, then deleteScope. *)
FindScope(r) == \E s \in scopes :
  /\ AdministersKeys(r)
  /\ req' = [req EXCEPT ![r] = [@ EXCEPT !.pc = "deleteScope", !.drop = {s}]]
  /\ UNCHANGED <<tables, usage, known, history>>
DeleteScope(r) ==
  LET q == req[r] IN
  /\ q.pc = "deleteScope"
  /\ scopes' = scopes \ q.drop
  /\ req' = [req EXCEPT ![r] = Over]
  /\ UNCHANGED <<claimed, keys, usage, known, history>>

(* revokeApiKey: findById, *)
FindToRevoke(r) == \E k \in Keys :
  /\ AdministersKeys(r) /\ keys[k] # None
  /\ req' = [req EXCEPT ![r] =
       [@ EXCEPT !.pc = "saveRevoked", !.key = k, !.row = Revoke(keys[k], r)]]
  /\ UNCHANGED <<tables, usage, known, history>>

(* Rows of key k that somebody is about to write back. *)
Copies(k, r) ==
  {u.row : u \in {v \in usage : v.key = k}}
    \cup {req[s].row : s \in {t \in Requests \ {r} :
            \/ req[t].pc = "listScopes" /\ req[t].as = k
            \/ req[t].pc = "saveRevoked" /\ req[t].key = k}}

(* and save of the row with its revocation. *)
SaveRevoked(r) ==
  LET q == req[r] IN
  /\ q.pc = "saveRevoked"
  /\ keys' = [keys EXCEPT ![q.key] = Upsert(@, q.row)]
  /\ clashed' = IF Copies(q.key, r) \subseteq {q.row} THEN clashed
                ELSE clashed \cup {q.key}
  /\ stamped' = [stamped EXCEPT ![q.key] = IF @ = None THEN q.row.revoked ELSE @]
  /\ req' = [req EXCEPT ![r] = Over]
  /\ UNCHANGED <<claimed, scopes, usage, known, winners, rooted>>

(* bootstrapAdmin: the first user wins the empty instance; SaveKey and     *)
(* SaveScope then issue the root key.                                      *)
Bootstrap(r) ==
  /\ req[r].pc = "idle"
  /\ claimed' = TRUE
  /\ IF MayClaim(claimed)
     THEN /\ winners' = winners \cup {r}
          /\ req' = [req EXCEPT ![r] = [Idle EXCEPT
               !.pc = "saveKey", !.as = Admin, !.todo = Everything]]
     ELSE req' = [req EXCEPT ![r] = Over] /\ UNCHANGED winners
  /\ UNCHANGED <<keys, scopes, usage, known, rooted, stamped, clashed>>

(* The Worker is evicted at an await and the request never resumes. *)
Evict(r) ==
  /\ req[r].pc \in Pcs
  /\ req' = [req EXCEPT ![r] = Over]
  /\ UNCHANGED <<tables, usage, known, history>>

Resume(r) == \/ FindKey(r) \/ ListScopes(r) \/ Answer(r) \/ SaveKey(r)
             \/ AddScope(r) \/ SaveScope(r) \/ FindScope(r) \/ DeleteScope(r)
             \/ FindToRevoke(r) \/ SaveRevoked(r)

Next == \/ \E r \in Requests : Arrive(r) \/ Bootstrap(r) \/ Resume(r) \/ Evict(r)
        \/ UsageLands \/ UsageLost

Spec == Init /\ [][Next]_vars

-----------------------------------------------------------------------------
(* Types of every variable. *)
TypeOK ==
  /\ claimed \in BOOLEAN
  /\ keys \in [Keys -> Row \cup {None}]
  /\ scopes \subseteq Scope
  /\ usage \subseteq [key : Keys, row : Row]
  /\ req \in [Requests -> Request]
  /\ known \subseteq Keys
  /\ winners \subseteq Requests /\ rooted \subseteq Wish
  /\ stamped \in [Keys -> Revoked] /\ clashed \subseteq Keys

(* Whether a stored scope lets its key do cap for address a of domain d:   *)
(* scopeMatches, and scopesAuthorizeGlobal for the global capabilities.    *)
Authorizes(w, cap, d, a) ==
  /\ w.cap = cap
  /\ cap \in Globals \/ (w.dom \in {None, d} /\ MatchAddressPattern(w.pat, a))
Covers(g, w) == \A cap \in Capabilities, d \in Domains, a \in Addresses :
  Authorizes(w, cap, d, a) => Authorizes(g, cap, d, a)

(* Of the bootstraps racing for an empty instance one at most wins, and    *)
(* none on an instance that was set up (createFirstUser).                  *)
OneBootstrap == winners # {} => /\ \E r \in Requests : winners = {r}
                                /\ \A k \in Seeds : keys[k] = None

(* Everything in the tables or in the hands of a request is covered by a   *)
(* scope an admin granted; the copies of a revoked row left alone agree.   *)
Backed(w) == \E g \in rooted : Covers(g, w)
RequestInv(r) ==
  LET q == req[r] IN
  /\ q.pc \in Pcs => claimed
  /\ \A h \in q.held : Backed(h)
  /\ q.pc \in {"findKey", "listScopes"} => q.as \in Keys /\ keys[q.as] # None
  /\ q.pc = "listScopes" => q.row # None /\ q.row.revoked = None
  /\ q.pc = "saveKey" => q.as = Admin /\ r \in winners
  /\ q.pc = "saveScopes" => /\ \A w \in q.todo : Grantable(q.as, q.held, w)
                            /\ q.key # None /\ keys[q.key] # None
  /\ q.pc = "saveRevoked" => q.row # None /\ q.key # None /\ keys[q.key] # None
  /\ q.pc \in {"idle", "findKey", "listScopes", "act", "saveKey"} => keys[r] = None
KeyInv(k) ==
  /\ k \notin clashed /\ keys[k] # None /\ keys[k].revoked # None
     => Copies(k, None) \subseteq {keys[k]}
  /\ k \notin clashed /\ stamped[k] # None => keys[k] # None /\ keys[k].revoked = stamped[k]
  /\ k \in known \/ (\E u \in usage : u.key = k) => keys[k] # None
  /\ \A u \in usage : u.key = k => u.row.revoked = None
ClaimInv ==
  /\ ~claimed => scopes = {} /\ winners = {} /\ \A k \in Keys : keys[k] = None
  /\ OneBootstrap

IInv == TypeOK /\ (\A s \in scopes : Backed(s.wish)) /\ (\A r \in Requests : RequestInv(r))
             /\ (\A k \in Keys : KeyInv(k)) /\ ClaimInv

(* No chain of keys issuing keys ever grants more than an admin granted:   *)
(* what any stored scope authorizes is authorized by one scope an admin or *)
(* the bootstrap gave, whatever was removed or revoked meanwhile           *)
(* (assertGrantable against a snapshot of the caller's scopes).            *)
NoEscalation == \A s \in scopes : \E g \in rooted : Covers(g, s.wish)

(* An answered revocation is final and keeps its first timestamp, as long  *)
(* as nobody held an older copy of the row when it was saved               *)
(* (recordApiKeyUsage and revokeApiKey both write the whole row back).     *)
RevocationStands == \A k \in Keys \ clashed :
  stamped[k] # None => keys[k] # None /\ keys[k].revoked = stamped[k]
=============================================================================
