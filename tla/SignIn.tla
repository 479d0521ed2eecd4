------------------------------- MODULE SignIn -------------------------------
(***************************************************************************)
(* Sign-in links, sessions and the administration of users                 *)
(* (usecases/email-auth.ts, the session half of usecases/auth.ts,          *)
(* usecases/users.ts, repositories/auth-repository.ts).                    *)
(*                                                                         *)
(* A request is one Worker invocation: a step is the work between two      *)
(* awaits, and it may be evicted at any of them.  A link and a session are *)
(* known by the request that drew their token.                             *)
(***************************************************************************)
EXTENDS Integers, FiniteSets

CONSTANTS
  Users,       \* mail addresses; a user has one and keeps it
  Roles,       \* enum UserRole
  AdminRole,   \* UserRole.Admin
  Requests,    \* one-shot requests
  LinkTtl,     \* CHALLENGE_TTL_SECONDS
  SessionTtl,  \* SESSION_TTL_SECONDS
  MaxLinks,    \* MAX_CHALLENGES_PER_WINDOW
  MaxTime,     \* bound: the clock stops there
  None         \* null

ASSUME RolesAssumption == AdminRole \in Roles
ASSUME TimesAssumption == /\ LinkTtl \in Nat \ {0} /\ SessionTtl \in Nat
                          /\ MaxLinks \in Nat \ {0} /\ MaxTime \in Nat
ASSUME FiniteAssumption == IsFiniteSet(Users) /\ IsFiniteSet(Requests)
ASSUME NamesAssumption == /\ Users \cap Requests = {}
                          /\ None \notin Users \cup Requests \cup Roles \cup BOOLEAN
                          /\ None \notin [role : Roles, active : BOOLEAN]
                          /\ None \notin [user : Users, expires : Nat, consumed : BOOLEAN]
                          /\ None \notin [user : Users, expires : Nat]

VARIABLES
  now,       \* the clock
  users,     \* the users table: role, and whether deactivated_at is null
  links,     \* the email_auth_challenges table, by the request that asked
  sessions,  \* the sessions table, by the request that opened it, or by a
             \* user who had one before the first step
  req,       \* requests in flight
  mailed,    \* links that were mailed
  opened,    \* history: sessions each link opened
  raced,     \* history: links two requests had read before either saved
  crowded,   \* history: users for whom two requests counted before saving
  barred,    \* history: users whose last answered (de)activation barred them
  tangled,   \* history: users two administrative changes had read at once
  shaken     \* history: whether two such changes ever overlapped at all

tables == <<users, links, sessions>>
history == <<opened, raced, crowded, barred, tangled, shaken>>
vars == <<now, tables, req, mailed, history>>

User == [role : Roles, active : BOOLEAN]
Link == [user : Users, expires : Nat, consumed : BOOLEAN]
Session == [user : Users, expires : Nat]
Change == [role : Roles \cup {None}, active : BOOLEAN \cup {None}]
Pcs == {"count", "saveLink", "mail", "consume", "enter", "saveSession",
        "resolve", "act", "insert", "countAdmins", "saveUser"}
Request == [pc : Pcs \cup {"idle", "over"}, who : Users \cup {None}, at : Nat,
            link : Requests \cup {None}, row : User \cup {None},
            sets : BOOLEAN \cup {None}, copy : Link \cup {None}]
Idle == [pc |-> "idle", who |-> None, at |-> 0, link |-> None, row |-> None,
         sets |-> None, copy |-> None]
Over == [Idle EXCEPT !.pc = "over"]

IsAdmin(u) == u # None /\ u.role = AdminRole /\ u.active
Admins == {u \in Users : IsAdmin(users[u])}

-----------------------------------------------------------------------------
(* Defects the properties below must catch, each a plausible slip in the   *)
(* operator of the same shape that follows.                                *)
RecentFromNow(u, at) == {l \in Requests : links[l] # None /\ links[l].user = u /\ links[l].expires >= at + LinkTtl}
UsableUntilExpiry(row, at) == row # None /\ at < row.expires
ActiveByRow(u) == u # None
IsLastOf(n) == n < 1
DemoteOnly(row, new) == row.role = AdminRole /\ new.role # AdminRole

(* countRecentByEmail: created_at >= now - TTL, in terms of expires_at. *)
Recent(u, at) == {l \in Requests :
  links[l] # None /\ links[l].user = u /\ links[l].expires >= at}

(* consumeEmailAuthChallenge refuses a used or expired link. *)
Usable(row, at) == row # None /\ ~row.consumed /\ at < row.expires

(* isUserActive of a user who exists *)
IsActive(u) == u # None /\ u.active

(* The last-active-admin check of setUserRole and setUserActive, *)
IsLast(n) == n <= 1

(* and the changes it is made for. *)
Lowers(row, new) == IsAdmin(row) /\ ~IsAdmin(new)

-----------------------------------------------------------------------------
(* An instance with an active admin; some users have a session. *)
Init ==
  /\ now = 0
  /\ users \in [Users -> User \cup {None}] /\ Admins # {}
  /\ links = [l \in Requests |-> None]
  /\ sessions = [s \in Requests \cup Users |->
       IF s \in Users /\ users[s] # None THEN [user |-> s, expires |-> SessionTtl] ELSE None]
  /\ req = [r \in Requests |-> Idle]
  /\ mailed = {} /\ opened = [l \in Requests |-> {}] /\ raced = {} /\ crowded = {}
  /\ barred = {u \in Users : users[u] # None /\ ~users[u].active}
  /\ tangled = {} /\ shaken = FALSE

Tick ==
  /\ now < MaxTime /\ now' = now + 1
  /\ UNCHANGED <<tables, req, mailed, history>>

Become(r, q) == req' = [req EXCEPT ![r] = q]

-----------------------------------------------------------------------------
(* requestEmailAuth: findByEmail, the clock, *)
AskLink(r) == \E u \in Users :
  /\ req[r].pc = "idle"
  /\ Become(r, IF IsActive(users[u]) THEN [Idle EXCEPT !.pc = "count", !.who = u, !.at = now]
               ELSE Over)
  /\ UNCHANGED <<now, tables, mailed, history>>

(* the throttle, *)
Count(r) ==
  LET q == req[r] IN
  /\ q.pc = "count"
  /\ IF Cardinality(Recent(q.who, q.at)) >= MaxLinks
     THEN Become(r, Over) /\ UNCHANGED crowded
     ELSE /\ Become(r, [q EXCEPT !.pc = "saveLink"])
          /\ crowded' = IF \E t \in Requests : req[t].pc = "saveLink" /\ req[t].who = q.who
                        THEN crowded \cup {q.who} ELSE crowded
  /\ UNCHANGED <<now, tables, mailed, opened, raced, barred, tangled, shaken>>

(* the row, *)
SaveLink(r) ==
  LET q == req[r] IN
  /\ q.pc = "saveLink"
  /\ links' = [links EXCEPT ![r] = [user |-> q.who, expires |-> q.at + LinkTtl, consumed |-> FALSE]]
  /\ Become(r, [q EXCEPT !.pc = "mail"])
  /\ UNCHANGED <<now, users, sessions, mailed, history>>

(* and the mail. *)
Mail(r) ==
  /\ req[r].pc = "mail"
  /\ mailed' = mailed \cup {r}
  /\ Become(r, Over)
  /\ UNCHANGED <<now, tables, history>>

(* verifyEmailAuthToken: the link is read and judged, *)
Follow(r) == \E l \in mailed :
  /\ req[r].pc = "idle"
  /\ IF Usable(links[l], now)
     THEN /\ Become(r, [Idle EXCEPT !.pc = "consume", !.at = now, !.link = l, !.copy = links[l]])
          /\ raced' = IF \E t \in Requests : req[t].pc = "consume" /\ req[t].link = l
                      THEN raced \cup {l} ELSE raced
     ELSE Become(r, Over) /\ UNCHANGED raced
  /\ UNCHANGED <<now, tables, mailed, opened, crowded, barred, tangled, shaken>>

(* saved as consumed, back into the table if it was swept, *)
Consume(r) ==
  LET q == req[r] IN
  /\ q.pc = "consume"
  /\ links' = [links EXCEPT ![q.link] = [q.copy EXCEPT !.consumed = TRUE]]
  /\ Become(r, [q EXCEPT !.pc = "enter", !.who = q.copy.user, !.copy = None])
  /\ UNCHANGED <<now, users, sessions, mailed, history>>

(* its user is looked up, *)
Enter(r) ==
  /\ req[r].pc = "enter"
  /\ Become(r, IF IsActive(users[req[r].who]) THEN [req[r] EXCEPT !.pc = "saveSession"] ELSE Over)
  /\ UNCHANGED <<now, tables, mailed, history>>

(* and the session starts. *)
SaveSession(r) ==
  LET q == req[r] IN
  /\ q.pc = "saveSession"
  /\ sessions' = [sessions EXCEPT ![r] = [user |-> q.who, expires |-> q.at + SessionTtl]]
  /\ opened' = [opened EXCEPT ![q.link] = @ \cup {r}]
  /\ Become(r, Over)
  /\ UNCHANGED <<now, users, links, mailed, raced, crowded, barred, tangled, shaken>>

-----------------------------------------------------------------------------
(* resolveViewerFromToken: the session, *)
Present(r) == \E s \in Requests \cup Users :
  /\ req[r].pc = "idle" /\ sessions[s] # None
  /\ Become(r, IF sessions[s].expires <= now THEN Over
               ELSE [Idle EXCEPT !.pc = "resolve", !.who = sessions[s].user])
  /\ UNCHANGED <<now, tables, mailed, history>>

(* then its user; the viewer keeps the role read here. *)
Resolve(r) ==
  LET q == req[r] IN
  /\ q.pc = "resolve"
  /\ Become(r, IF IsActive(users[q.who]) THEN [q EXCEPT !.pc = "act", !.row = users[q.who]]
               ELSE Over)
  /\ UNCHANGED <<now, tables, mailed, history>>

(* logout, by the token alone. *)
Logout(r) == \E s \in Requests \cup Users :
  /\ req[r].pc = "idle" /\ sessions[s] # None
  /\ sessions' = [sessions EXCEPT ![s] = None]
  /\ Become(r, Over)
  /\ UNCHANGED <<now, users, links, mailed, history>>

(* The request read something, or was refused. *)
Answer(r) ==
  /\ req[r].pc = "act"
  /\ Become(r, Over)
  /\ UNCHANGED <<now, tables, mailed, history>>

(* requireAdminUser *)
Administers(r) == req[r].pc = "act" /\ req[r].row.role = AdminRole

(* createUser: findByEmail, and the insert the unique index may refuse. *)
FindEmail(r) == \E u \in Users, role \in Roles :
  /\ Administers(r) /\ users[u] = None
  /\ Become(r, [Idle EXCEPT !.pc = "insert", !.who = u, !.row = [role |-> role, active |-> TRUE]])
  /\ UNCHANGED <<now, tables, mailed, history>>
Insert(r) ==
  LET q == req[r] IN
  /\ q.pc = "insert"
  /\ users' = IF users[q.who] = None THEN [users EXCEPT ![q.who] = q.row] ELSE users
  /\ Become(r, Over)
  /\ UNCHANGED <<now, links, sessions, mailed, history>>

(* setUserRole, setUserActive: findById; the changed row is what is saved. *)
InChange == {t \in Requests : req[t].pc \in {"countAdmins", "saveUser"}}
Applied(row, change) ==
  [role |-> IF change.role = None THEN row.role ELSE change.role,
   active |-> IF change.active = None THEN row.active ELSE change.active]
Changes == {c \in Change : (c.role = None) # (c.active = None)}

FindUser(r) == \E u \in Users, c \in Changes :
  /\ Administers(r) /\ users[u] # None
  /\ Become(r, [Idle EXCEPT !.who = u, !.row = Applied(users[u], c), !.sets = c.active,
       !.pc = IF Lowers(users[u], Applied(users[u], c)) THEN "countAdmins" ELSE "saveUser"])
  /\ shaken' = (shaken \/ InChange # {})
  /\ tangled' = IF \E t \in InChange : req[t].who = u THEN tangled \cup {u} ELSE tangled
  /\ UNCHANGED <<now, tables, mailed, opened, raced, crowded, barred>>

CountAdmins(r) ==
  /\ req[r].pc = "countAdmins"
  /\ Become(r, IF IsLast(Cardinality(Admins)) THEN Over ELSE [req[r] EXCEPT !.pc = "saveUser"])
  /\ UNCHANGED <<now, tables, mailed, history>>

SaveUser(r) ==
  LET q == req[r] IN
  /\ q.pc = "saveUser"
  /\ users' = [users EXCEPT ![q.who] = q.row]
  /\ barred' = IF q.sets = None THEN barred
                ELSE IF q.sets = TRUE THEN barred \ {q.who} ELSE barred \cup {q.who}
  /\ Become(r, Over)
  /\ UNCHANGED <<now, links, sessions, mailed, opened, raced, crowded, tangled, shaken>>

-----------------------------------------------------------------------------
(* sweepExpiredAuth, with a clock read at some earlier time: each of its   *)
(* two deletions is a statement of its own.                                *)
SweepSessions == \E t \in 0 .. now :
  /\ sessions' = [s \in Requests \cup Users |->
       IF sessions[s] # None /\ sessions[s].expires <= t THEN None ELSE sessions[s]]
  /\ UNCHANGED <<now, users, links, req, mailed, history>>
SweepLinks == \E t \in 0 .. now :
  /\ links' = [l \in Requests |->
       IF links[l] # None /\ links[l].expires <= t THEN None ELSE links[l]]
  /\ UNCHANGED <<now, users, sessions, req, mailed, history>>

(* A call throws, or the Worker is evicted at an await. *)
Evict(r) ==
  /\ req[r].pc \in Pcs
  /\ Become(r, Over)
  /\ UNCHANGED <<now, tables, mailed, history>>

Login(r) == AskLink(r) \/ Count(r) \/ SaveLink(r) \/ Mail(r)
Verify(r) == Follow(r) \/ Consume(r) \/ Enter(r) \/ SaveSession(r)
Visit(r) == Present(r) \/ Resolve(r) \/ Logout(r) \/ Answer(r)
Administer(r) == FindEmail(r) \/ Insert(r) \/ FindUser(r) \/ CountAdmins(r) \/ SaveUser(r)

Next == \/ \E r \in Requests : Login(r) \/ Verify(r) \/ Visit(r) \/ Administer(r) \/ Evict(r)
        \/ SweepSessions \/ SweepLinks \/ Tick

Spec == Init /\ [][Next]_vars

-----------------------------------------------------------------------------
(* Types of every variable. *)
TypeOK ==
  /\ now \in Nat
  /\ users \in [Users -> User \cup {None}]
  /\ links \in [Requests -> Link \cup {None}]
  /\ sessions \in [Requests \cup Users -> Session \cup {None}]
  /\ req \in [Requests -> Request]
  /\ mailed \subseteq Requests /\ opened \in [Requests -> SUBSET Requests]
  /\ raced \subseteq Requests /\ crowded \subseteq Users
  /\ barred \subseteq Users /\ tangled \subseteq Users /\ shaken \in BOOLEAN

(* A link opens one session, whatever is swept or evicted in between, as   *)
(* long as no second request had read it before the first saved it as      *)
(* consumed (the check is made on the row read, the save is a blind one).  *)
OneSessionPerLink == \A l \in Requests \ raced : \A s, t \in opened[l] : s = t

(* A user never has more than MaxLinks links alive at a time, through      *)
(* sweeps that delete what the throttle counts, as long as no two requests *)
(* counted before either saved.                                            *)
Alive(u) == {l \in Requests : links[l] # None /\ links[l].user = u /\ links[l].expires > now}
LinksBounded == \A u \in Users \ crowded : Cardinality(Alive(u)) <= MaxLinks

(* The instance keeps an active admin, as long as administrative changes   *)
(* do not overlap: the check counts rows the save does not look at again.  *)
AnAdminRemains == shaken \/ Admins # {}

(* Who was deactivated, and not reactivated since, stays inactive: no      *)
(* change of role brings the old row back unless it had read it before the *)
(* deactivation was saved.                                                 *)
BarredIsInactive == \A u \in barred \ tangled : users[u] # None /\ ~users[u].active

(* No step of a link followed, a session used or an administrative call    *)
(* lets such a user past its check.                                        *)
NobodyBarredEnters == [][\A r \in Requests :
  req[r].pc # req'[r].pc /\ req'[r].pc \in {"count", "saveSession", "act"}
  => req'[r].who \notin barred \ tangled]_vars

(* What is known of a request at each of its awaits: what it holds agrees  *)
(* with the tables wherever nobody else can have come between.             *)
Holding(r) == req[r].pc \in {"consume", "enter", "saveSession"}
LoginInv(r) ==
  LET q == req[r] IN
  /\ q.at <= now
  /\ q.pc \in {"count", "saveLink", "resolve"} => q.who # None
  /\ q.pc \in {"idle", "count", "saveLink"} => links[r] = None
  /\ r \in mailed => q.pc = "over"
  /\ q.pc = "saveLink" /\ q.who \notin crowded =>
       /\ Cardinality(Alive(q.who)) < MaxLinks
       /\ \A t \in Requests : req[t].pc = "saveLink" /\ req[t].who = q.who => t = r
VerifyInv(r) ==
  LET q == req[r] IN
  /\ Holding(r) => q.link \in mailed
  /\ q.pc \in {"enter", "saveSession"} => q.who # None
  /\ q.pc = "consume" =>
       /\ q.copy # None
       /\ links[q.link] = None => q.copy.expires <= now
       /\ links[q.link] # None => /\ links[q.link].user = q.copy.user
                                 /\ links[q.link].expires = q.copy.expires
       /\ \A t \in Requests : req[t].pc = "consume" /\ req[t].link = q.link =>
            req[t].copy.user = q.copy.user /\ req[t].copy.expires = q.copy.expires
LinkInv(l) ==
  /\ opened[l] # {} => l \in mailed
  /\ l \notin raced =>
       /\ \A r, t \in Requests : Holding(r) /\ Holding(t) /\ req[r].link = l /\ req[t].link = l => r = t
       /\ \A r \in Requests : Holding(r) /\ req[r].link = l => opened[l] = {}
       /\ opened[l] # {} \/ (\E r \in Requests : Holding(r) /\ req[r].pc # "consume" /\ req[r].link = l)
          => links[l] = None \/ links[l].consumed
ChangeInv(r) ==
  LET q == req[r] IN
  /\ q.pc \in {"act", "insert", "countAdmins", "saveUser"} => q.who # None /\ q.row # None
  /\ r \in InChange =>
       /\ users[q.who] # None
       /\ q.sets # None => q.row.active = q.sets
       /\ q.who \notin tangled =>
            /\ \A t \in InChange : req[t].who = q.who => t = r
            /\ q.sets = None => q.row.active = users[q.who].active
       /\ ~shaken => InChange = {r}
  /\ q.pc = "saveUser" /\ ~shaken =>
       IsAdmin(q.row) \/ \E u \in Users \ {q.who} : IsAdmin(users[u])

IInv ==
  /\ TypeOK
  /\ \A r \in Requests : LoginInv(r) /\ VerifyInv(r) /\ LinkInv(r) /\ ChangeInv(r)
  /\ OneSessionPerLink /\ LinksBounded /\ AnAdminRemains /\ BarredIsInactive
=============================================================================
