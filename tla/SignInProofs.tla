---------------------------- MODULE SignInProofs ----------------------------
(***************************************************************************)
(* Proofs about SignIn, for any users, requests and lifetimes: IInv is     *)
(* inductive, so a link opens one session, links alive are bounded, an     *)
(* active admin remains and who is barred gets past no check, each with    *)
(* the exception the property names.                                       *)
(***************************************************************************)
EXTENDS SignIn, FiniteSetTheorems, TLAPS

USE NamesAssumption, TimesAssumption, FiniteAssumption, RolesAssumption

LEMMA OverType == /\ Over \in Request /\ Idle \in Request /\ Over.pc = "over" /\ Idle.pc = "idle"
                  /\ Over.at = 0 /\ Idle.at = 0
BY DEF Over, Idle, Request

LEMMA AliveFinite == \A u : IsFiniteSet(Alive(u)) /\ Cardinality(Alive(u)) \in Nat
<1>1. \A u : Alive(u) \subseteq Requests
  BY DEF Alive
<1> QED
  BY <1>1, FS_Subset, FS_CardinalityType

LEMMA OneMore ==
  ASSUME NEW A, NEW B, NEW e, IsFiniteSet(A), B \subseteq A \cup {e}
  PROVE  Cardinality(B) <= Cardinality(A) + 1 /\ Cardinality(A) \in Nat /\ Cardinality(B) \in Nat
<1>1. IsFiniteSet(A \cup {e}) /\ Cardinality(A \cup {e}) \in Nat /\ Cardinality(A) \in Nat
      /\ Cardinality(A \cup {e}) <= Cardinality(A) + 1
  <2>1. Cardinality(A) \in Nat
    BY FS_CardinalityType
  <2>2. IsFiniteSet(A \cup {e})
        /\ Cardinality(A \cup {e}) = IF e \in A THEN Cardinality(A) ELSE Cardinality(A) + 1
    BY FS_AddElement
  <2> QED
    BY <2>1, <2>2
<1>2. IsFiniteSet(B) /\ Cardinality(B) <= Cardinality(A \cup {e})
  BY <1>1, FS_Subset
<1> QED
  BY <1>1, <1>2, FS_CardinalityType

LEMMA AliveSame == links' = links /\ now' = now => \A u : Alive(u)' = Alive(u)
BY DEF Alive

(* An ended request satisfies what is asked of a request. *)
LEMMA OverFits ==
  ASSUME NEW r \in Requests, req'[r] = Over, now' \in Nat
  PROVE  LoginInv(r)' /\ VerifyInv(r)' /\ ChangeInv(r)' /\ ~Holding(r)'
BY OverType DEF LoginInv, VerifyInv, ChangeInv, Holding, InChange

(* Away from login, little is asked of a request by LoginInv. *)
LEMMA LoginFits ==
  ASSUME NEW r \in Requests, r \notin mailed', req'[r].at <= now',
         req'[r].pc \notin {"idle", "count", "saveLink", "resolve"}
  PROVE  LoginInv(r)'
BY DEF LoginInv

LEMMA InitIInv == Init => IInv
<1> SUFFICES ASSUME Init PROVE IInv
  OBVIOUS
<1>1. TypeOK
  <2>1. sessions \in [Requests \cup Users -> Session \cup {None}]
    BY DEF Init, Session
  <2>2. req \in [Requests -> Request]
    BY OverType DEF Init
  <2>3. now \in Nat /\ links \in [Requests -> Link \cup {None}] /\ users \in [Users -> User \cup {None}]
    BY DEF Init
  <2>4. /\ mailed \subseteq Requests /\ opened \in [Requests -> SUBSET Requests]
        /\ raced \subseteq Requests /\ crowded \subseteq Users
        /\ barred \subseteq Users /\ tangled \subseteq Users /\ shaken \in BOOLEAN
    BY DEF Init
  <2> QED
    BY <2>1, <2>2, <2>3, <2>4 DEF TypeOK
<1>2. \A r \in Requests : req[r].pc = "idle" /\ req[r].at = 0
  BY OverType DEF Init
<1>3. \A r \in Requests : LoginInv(r) /\ VerifyInv(r) /\ LinkInv(r) /\ ChangeInv(r)
  BY <1>2 DEF Init, LoginInv, VerifyInv, LinkInv, ChangeInv, InChange, Holding
<1>4. LinksBounded
  <2>1. \A u : Alive(u) = {}
    BY DEF Init, Alive
  <2> QED
    BY <2>1, FS_EmptySet DEF LinksBounded
<1>5. OneSessionPerLink /\ AnAdminRemains /\ BarredIsInactive
  BY DEF Init, OneSessionPerLink, AnAdminRemains, BarredIsInactive
<1> QED
  BY <1>1, <1>3, <1>4, <1>5 DEF IInv

-----------------------------------------------------------------------------
(* Steps that change one request and, at most, sessions or history: what   *)
(* the others know stays true if the request fits in.                      *)
LEMMA QuietStep ==
  ASSUME IInv, NEW r \in Requests, NEW x \in Request, req' = [req EXCEPT ![r] = x],
         UNCHANGED <<now, users, links, mailed, opened, barred>>,
         sessions' \in [Requests \cup Users -> Session \cup {None}],
         raced \subseteq raced', raced' \subseteq Requests,
         crowded \subseteq crowded', crowded' \subseteq Users,
         tangled \subseteq tangled', tangled' \subseteq Users,
         shaken => shaken', shaken' \in BOOLEAN,
         LoginInv(r)', VerifyInv(r)', ChangeInv(r)',
         \/ ~Holding(r)'
         \/ req[r].pc = "enter" /\ x.pc = "saveSession" /\ x.link = req[r].link
         \/ x.pc = "consume" /\ (x.link \notin raced' =>
              opened[x.link] = {} /\ \A t \in Requests : Holding(t) => req[t].link # x.link)
  PROVE  IInv'
<1>1. req'[r] = x /\ \A s \in Requests : s # r => req'[s] = req[s]
  BY DEF IInv, TypeOK
<1>2. TypeOK'
  BY DEF IInv, TypeOK
<1>3. \A u : Alive(u)' = Alive(u)
  BY AliveSame
<1>4. \A s \in Requests : LoginInv(s)'
  <2> SUFFICES ASSUME NEW s \in Requests, s # r PROVE LoginInv(s)'
    OBVIOUS
  <2>1. LoginInv(s) /\ req'[s] = req[s]
    BY <1>1 DEF IInv
  <2>2. ASSUME req[s].pc = "saveLink", req[s].who \notin crowded',
               NEW t \in Requests, req'[t].pc = "saveLink", req'[t].who = req[s].who
        PROVE  t = s
    <3>1. CASE t = r
      <4>1. \A z \in Requests : req'[z].pc = "saveLink" /\ req'[z].who = req'[r].who => z = r
        BY <2>2, <3>1 DEF LoginInv
      <4> QED
        BY <2>1, <2>2, <3>1, <4>1
    <3>2. CASE t # r
      BY <1>1, <2>1, <2>2, <3>2 DEF LoginInv
    <3> QED
      BY <3>1, <3>2
  <2> QED
    BY <1>3, <2>1, <2>2 DEF LoginInv
<1>5. \A s \in Requests : VerifyInv(s)'
  <2> SUFFICES ASSUME NEW s \in Requests, s # r PROVE VerifyInv(s)'
    OBVIOUS
  <2>1. VerifyInv(s) /\ req'[s] = req[s]
    BY <1>1 DEF IInv
  <2>2. ASSUME req[s].pc = "consume", NEW t \in Requests, req'[t].pc = "consume",
               req'[t].link = req[s].link
        PROVE  req'[t].copy.user = req[s].copy.user /\ req'[t].copy.expires = req[s].copy.expires
    <3>1. CASE t = r
      <4>1. \A z \in Requests : req'[z].pc = "consume" /\ req'[z].link = req'[r].link =>
              req'[z].copy.user = req'[r].copy.user /\ req'[z].copy.expires = req'[r].copy.expires
        BY <2>2, <3>1 DEF VerifyInv
      <4> QED
        BY <2>1, <2>2, <3>1, <4>1
    <3>2. CASE t # r
      BY <1>1, <2>1, <2>2, <3>2 DEF VerifyInv
    <3> QED
      BY <3>1, <3>2
  <2> QED
    BY <2>1, <2>2 DEF VerifyInv, Holding
<1>6. \A l \in Requests : LinkInv(l)'
  <2> SUFFICES ASSUME NEW l \in Requests PROVE LinkInv(l)'
    OBVIOUS
  <2>1. LinkInv(l) /\ (l \notin raced' => l \notin raced)
    BY DEF IInv
  <2>2. \A s \in Requests \ {r} : /\ Holding(s)' <=> Holding(s)
                                  /\ req'[s].pc = req[s].pc /\ req'[s].link = req[s].link
    BY <1>1 DEF Holding
  <2>3. CASE ~Holding(r)'
    BY <2>1, <2>2, <2>3 DEF LinkInv
  <2>4. CASE req[r].pc = "enter" /\ x.pc = "saveSession" /\ x.link = req[r].link
    <3>1. Holding(r)
      BY <2>4 DEF Holding
    <3>2. req'[r].pc # "consume" /\ req[r].pc # "consume" /\ req'[r].link = req[r].link
      BY <1>1, <2>4
    <3> QED
      BY <2>1, <2>2, <3>1, <3>2 DEF LinkInv
  <2>5. CASE x.pc = "consume" /\ (x.link \notin raced' =>
              opened[x.link] = {} /\ \A t \in Requests : Holding(t) => req[t].link # x.link)
    <3>1. req'[r].pc = "consume" /\ req'[r].link = x.link
      BY <1>1, <2>5
    <3> QED
      BY <2>1, <2>2, <2>5, <3>1 DEF LinkInv
  <2> QED
    BY <2>3, <2>4, <2>5
<1>7. \A s \in Requests : ChangeInv(s)'
  <2> SUFFICES ASSUME NEW s \in Requests, s # r PROVE ChangeInv(s)'
    OBVIOUS
  <2>1. ChangeInv(s) /\ req'[s] = req[s]
    BY <1>1 DEF IInv
  <2>2. \A t \in Requests \ {r} : t \in InChange' <=> t \in InChange
    BY <1>1 DEF InChange
  <2>3. InChange \subseteq Requests /\ InChange' \subseteq Requests
    BY DEF InChange
  <2>4. ASSUME s \in InChange', ~shaken' PROVE InChange' = {s}
    <3>1. r \in InChange' => InChange' = {r}
      BY <2>4 DEF ChangeInv
    <3>2. s \in InChange /\ ~shaken
      BY <2>2, <2>4
    <3>3. InChange = {s}
      BY <2>1, <3>2 DEF ChangeInv
    <3> QED
      BY <2>2, <2>3, <2>4, <3>1, <3>3
  <2>5. ASSUME s \in InChange', req'[s].who \notin tangled', NEW t \in InChange',
               req'[t].who = req'[s].who
        PROVE  t = s
    <3>1. CASE t = r
      <4>1. \A z \in InChange' : req'[z].who = req'[r].who => z = r
        BY <2>5, <3>1 DEF ChangeInv
      <4> QED
        BY <2>5, <3>1, <4>1
    <3>2. CASE t # r
      BY <1>1, <2>1, <2>2, <2>3, <2>5, <3>2 DEF ChangeInv
    <3> QED
      BY <3>1, <3>2
  <2>6. s \in InChange' <=> s \in InChange
    BY <2>2
  <2>7. req[s].pc \in {"act", "insert", "countAdmins", "saveUser"} => req[s].who # None /\ req[s].row # None
    BY <2>1 DEF ChangeInv
  <2>8. s \in InChange =>
          /\ users[req[s].who] # None
          /\ req[s].sets # None => req[s].row.active = req[s].sets
          /\ req[s].who \notin tangled /\ req[s].sets = None =>
               req[s].row.active = users[req[s].who].active
    BY <2>1 DEF ChangeInv
  <2>9. req[s].pc = "saveUser" /\ ~shaken =>
          IsAdmin(req[s].row) \/ \E u \in Users \ {req[s].who} : IsAdmin(users[u])
    BY <2>1 DEF ChangeInv
  <2> QED
    BY <2>1, <2>4, <2>5, <2>6, <2>7, <2>8, <2>9 DEF ChangeInv
<1>8. OneSessionPerLink' /\ AnAdminRemains' /\ BarredIsInactive'
  BY DEF IInv, OneSessionPerLink, AnAdminRemains, BarredIsInactive, Admins
<1>9. LinksBounded'
  BY <1>3 DEF IInv, LinksBounded
<1> QED
  BY <1>2, <1>4, <1>5, <1>6, <1>7, <1>8, <1>9 DEF IInv

LEMMA EndStep ==
  ASSUME IInv, NEW r \in Requests, req' = [req EXCEPT ![r] = Over],
         UNCHANGED <<now, tables, mailed, history>>
  PROVE  IInv'
<1>1. req'[r] = Over /\ now' \in Nat
  BY DEF IInv, TypeOK
<1>2. LoginInv(r)' /\ VerifyInv(r)' /\ ChangeInv(r)' /\ ~Holding(r)'
  BY <1>1, OverFits
<1> QED
  BY <1>2, OverType, QuietStep DEF IInv, TypeOK, tables, history

LEMMA AskLinkStep == ASSUME IInv, NEW r \in Requests, AskLink(r) PROVE IInv'
<1>1. PICK u \in Users :
        /\ req[r].pc = "idle"
        /\ req' = [req EXCEPT ![r] =
             IF IsActive(users[u]) THEN [Idle EXCEPT !.pc = "count", !.who = u, !.at = now] ELSE Over]
        /\ UNCHANGED <<now, tables, mailed, history>>
  BY DEF AskLink, Become
<1>2. CASE ~IsActive(users[u])
  BY <1>1, <1>2, EndStep
<1>3. CASE IsActive(users[u])
  <2> DEFINE x == [Idle EXCEPT !.pc = "count", !.who = u, !.at = now]
  <2>1. now \in Nat
    BY DEF IInv, TypeOK
  <2>2. x \in Request /\ x.pc = "count" /\ x.who = u /\ x.at = now
    BY <2>1 DEF Request, Idle, Pcs
  <2>3. req' = [req EXCEPT ![r] = x]
    BY <1>1, <1>3
  <2> HIDE DEF x
  <2>4. req'[r] = x
    BY <2>3 DEF IInv, TypeOK
  <2>5. links[r] = None /\ r \notin mailed
    BY <1>1 DEF IInv, LoginInv
  <2>6. LoginInv(r)'
    BY <1>1, <2>1, <2>2, <2>4, <2>5 DEF LoginInv, tables
  <2>7. VerifyInv(r)' /\ ChangeInv(r)' /\ ~Holding(r)'
    BY <2>2, <2>4 DEF VerifyInv, ChangeInv, Holding, InChange
  <2> QED
    BY <1>1, <2>2, <2>3, <2>6, <2>7, QuietStep DEF IInv, TypeOK, tables, history
<1> QED
  BY <1>2, <1>3

LEMMA CountStep == ASSUME IInv, NEW r \in Requests, Count(r) PROVE IInv'
<1> DEFINE q == req[r]
<1>1. /\ q.pc = "count" /\ q \in Request /\ q.who \in Users /\ q.at \in Nat /\ q.at <= now
      /\ links[r] = None /\ r \notin mailed
  BY DEF IInv, TypeOK, LoginInv, Count, Request
<1>2. UNCHANGED <<now, tables, mailed, opened, raced, barred, tangled, shaken>>
  BY DEF Count
<1>3. CASE Cardinality(Recent(q.who, q.at)) >= MaxLinks
  BY <1>2, <1>3, EndStep DEF Count, Become, history
<1>4. CASE ~(Cardinality(Recent(q.who, q.at)) >= MaxLinks)
  <2> DEFINE x == [q EXCEPT !.pc = "saveLink"]
  <2>1. /\ req' = [req EXCEPT ![r] = x]
        /\ crowded' = IF \E t \in Requests : req[t].pc = "saveLink" /\ req[t].who = q.who
                      THEN crowded \cup {q.who} ELSE crowded
    BY <1>4 DEF Count, Become
  <2>2. x \in Request /\ x.pc = "saveLink" /\ x.who = q.who /\ x.at = q.at
    BY <1>1 DEF Request, Pcs
  <2> HIDE DEF x
  <2>3. req'[r] = x /\ \A s \in Requests : s # r => req'[s] = req[s]
    BY <2>1 DEF IInv, TypeOK
  <2>4. Cardinality(Alive(q.who)) < MaxLinks
    <3>1. Alive(q.who) \subseteq Recent(q.who, q.at)
      BY <1>1 DEF Alive, Recent, IInv, TypeOK, Link
    <3>2. Recent(q.who, q.at) \subseteq Requests
      BY DEF Recent
    <3>3. IsFiniteSet(Recent(q.who, q.at)) /\ Cardinality(Recent(q.who, q.at)) \in Nat
      BY <3>2, FS_Subset, FS_CardinalityType
    <3>4. Cardinality(Alive(q.who)) <= Cardinality(Recent(q.who, q.at))
      BY <3>1, <3>3, FS_Subset
    <3> QED
      BY <1>4, <3>3, <3>4, AliveFinite
  <2>5. \A u : Alive(u)' = Alive(u)
    BY <1>2, AliveSame DEF tables
  <2>6. q.who \notin crowded' =>
          \A t \in Requests : req'[t].pc = "saveLink" /\ req'[t].who = q.who => t = r
    BY <2>1, <2>3
  <2>7. LoginInv(r)'
    BY <1>1, <1>2, <2>2, <2>3, <2>4, <2>5, <2>6 DEF LoginInv, tables
  <2>8. VerifyInv(r)' /\ ChangeInv(r)' /\ ~Holding(r)'
    BY <2>2, <2>3 DEF VerifyInv, ChangeInv, Holding, InChange
  <2>9. crowded \subseteq crowded' /\ crowded' \subseteq Users
    BY <1>1, <2>1 DEF IInv, TypeOK
  <2> QED
    BY <1>2, <2>1, <2>2, <2>7, <2>8, <2>9, QuietStep DEF IInv, TypeOK, tables
<1> QED
  BY <1>3, <1>4

LEMMA FollowStep == ASSUME IInv, NEW r \in Requests, Follow(r) PROVE IInv'
<1>1. PICK l \in mailed :
        /\ req[r].pc = "idle"
        /\ IF Usable(links[l], now)
           THEN /\ req' = [req EXCEPT ![r] = [Idle EXCEPT !.pc = "consume", !.at = now,
                                              !.link = l, !.copy = links[l]]]
                /\ raced' = IF \E t \in Requests : req[t].pc = "consume" /\ req[t].link = l
                            THEN raced \cup {l} ELSE raced
           ELSE req' = [req EXCEPT ![r] = Over] /\ UNCHANGED raced
        /\ UNCHANGED <<now, tables, mailed, opened, crowded, barred, tangled, shaken>>
  BY DEF Follow, Become
<1>2. CASE ~Usable(links[l], now)
  BY <1>1, <1>2, EndStep DEF history
<1>3. CASE Usable(links[l], now)
  <2> DEFINE x == [Idle EXCEPT !.pc = "consume", !.at = now, !.link = l, !.copy = links[l]]
  <2>1. now \in Nat /\ l \in Requests /\ links[l] \in Link \cup {None} /\ links[l] # None
    BY <1>3 DEF IInv, TypeOK, Usable
  <2>2. /\ x \in Request /\ x.pc = "consume" /\ x.at = now /\ x.link = l /\ x.copy = links[l]
    BY <2>1 DEF Request, Idle, Pcs
  <2>3. req' = [req EXCEPT ![r] = x]
    BY <1>1, <1>3
  <2> HIDE DEF x
  <2>4. req'[r] = x
    BY <2>3 DEF IInv, TypeOK
  <2>5. r \notin mailed
    BY <1>1 DEF IInv, LoginInv
  <2>6. LoginInv(r)'
    BY <1>1, <2>1, <2>2, <2>4, <2>5 DEF LoginInv
  <2>7. VerifyInv(r)' /\ ChangeInv(r)'
    <3>1. \A t \in Requests : t # r => req'[t] = req[t] /\ VerifyInv(t)
      BY <2>3 DEF IInv, TypeOK
    <3>2. \A t \in Requests : req'[t].pc = "consume" /\ req'[t].link = l =>
            req'[t].copy.user = links[l].user /\ req'[t].copy.expires = links[l].expires
      BY <2>1, <2>2, <2>4, <3>1 DEF VerifyInv
    <3> QED
      BY <1>1, <2>1, <2>2, <2>4, <3>2 DEF VerifyInv, ChangeInv, Holding, InChange, tables
  <2>8. raced \subseteq raced' /\ raced' \subseteq Requests
    BY <1>1, <1>3, <2>1 DEF IInv, TypeOK
  <2>9. l \notin raced' => opened[l] = {} /\ \A t \in Requests : Holding(t) => req[t].link # l
    <3> SUFFICES ASSUME l \notin raced'
                 PROVE  opened[l] = {} /\ \A t \in Requests : Holding(t) => req[t].link # l
      OBVIOUS
    <3>1. l \notin raced /\ \A t \in Requests : ~(req[t].pc = "consume" /\ req[t].link = l)
      BY <1>1, <1>3
    <3>2. ~(opened[l] # {} \/ \E t \in Requests : Holding(t) /\ req[t].pc # "consume" /\ req[t].link = l)
      BY <1>3, <2>1, <3>1 DEF IInv, LinkInv, Usable
    <3> QED
      BY <3>1, <3>2
  <2> QED
    BY <1>1, <2>2, <2>3, <2>6, <2>7, <2>8, <2>9, QuietStep DEF IInv, TypeOK, tables
<1> QED
  BY <1>2, <1>3

LEMMA EnterStep == ASSUME IInv, NEW r \in Requests, Enter(r) PROVE IInv'
<1>1. /\ req[r].pc = "enter"
      /\ req' = [req EXCEPT ![r] = IF IsActive(users[req[r].who])
                                   THEN [req[r] EXCEPT !.pc = "saveSession"] ELSE Over]
      /\ UNCHANGED <<now, tables, mailed, history>>
  BY DEF Enter, Become
<1>2. CASE ~IsActive(users[req[r].who])
  BY <1>1, <1>2, EndStep
<1>3. CASE IsActive(users[req[r].who])
  <2> DEFINE x == [req[r] EXCEPT !.pc = "saveSession"]
  <2>1. req[r] \in Request
    BY DEF IInv, TypeOK
  <2>2. /\ x \in Request /\ x.pc = "saveSession" /\ x.who = req[r].who /\ x.at = req[r].at
        /\ x.link = req[r].link
    BY <2>1 DEF Request, Pcs
  <2>3. req' = [req EXCEPT ![r] = x]
    BY <1>1, <1>3
  <2> HIDE DEF x
  <2>4. req'[r] = x
    BY <2>3 DEF IInv, TypeOK
  <2>5. LoginInv(r)'
    BY <1>1, <2>2, <2>4 DEF IInv, LoginInv
  <2>6. VerifyInv(r)' /\ ChangeInv(r)'
    BY <1>1, <2>2, <2>4 DEF IInv, VerifyInv, ChangeInv, Holding, InChange
  <2> QED
    BY <1>1, <2>2, <2>3, <2>5, <2>6, QuietStep DEF IInv, TypeOK, tables, history
<1> QED
  BY <1>2, <1>3

LEMMA PresentStep == ASSUME IInv, NEW r \in Requests, Present(r) PROVE IInv'
<1>1. PICK s \in Requests \cup Users :
        /\ req[r].pc = "idle" /\ sessions[s] # None
        /\ req' = [req EXCEPT ![r] =
             IF sessions[s].expires <= now THEN Over
             ELSE [Idle EXCEPT !.pc = "resolve", !.who = sessions[s].user]]
        /\ UNCHANGED <<now, tables, mailed, history>>
  BY DEF Present, Become
<1>2. CASE sessions[s].expires <= now
  BY <1>1, <1>2, EndStep
<1>3. CASE ~(sessions[s].expires <= now)
  <2> DEFINE x == [Idle EXCEPT !.pc = "resolve", !.who = sessions[s].user]
  <2>1. now \in Nat /\ sessions[s].user \in Users
    BY <1>1 DEF IInv, TypeOK, Session
  <2>2. x \in Request /\ x.pc = "resolve" /\ x.who \in Users /\ x.at = 0
    BY <2>1 DEF Request, Idle, Pcs
  <2>3. req' = [req EXCEPT ![r] = x]
    BY <1>1, <1>3
  <2> HIDE DEF x
  <2>4. req'[r] = x
    BY <2>3 DEF IInv, TypeOK
  <2>5. LoginInv(r)'
    <3>1. r \notin mailed /\ mailed' = mailed /\ now' = now
      BY <1>1 DEF IInv, LoginInv
    <3>2. req'[r].pc = "resolve" /\ req'[r].who # None /\ req'[r].at <= now'
      BY <2>1, <2>2, <2>4, <3>1
    <3> QED
      BY <3>1, <3>2 DEF LoginInv
  <2>6. VerifyInv(r)' /\ ChangeInv(r)' /\ ~Holding(r)'
    BY <2>2, <2>4 DEF VerifyInv, ChangeInv, Holding, InChange
  <2> QED
    BY <1>1, <2>2, <2>3, <2>5, <2>6, QuietStep DEF IInv, TypeOK, tables, history
<1> QED
  BY <1>2, <1>3

LEMMA ResolveStep == ASSUME IInv, NEW r \in Requests, Resolve(r) PROVE IInv'
<1>1. /\ req[r].pc = "resolve"
      /\ req' = [req EXCEPT ![r] =
           IF IsActive(users[req[r].who]) THEN [req[r] EXCEPT !.pc = "act", !.row = users[req[r].who]]
           ELSE Over]
      /\ UNCHANGED <<now, tables, mailed, history>>
  BY DEF Resolve, Become
<1>2. CASE ~IsActive(users[req[r].who])
  BY <1>1, <1>2, EndStep
<1>3. CASE IsActive(users[req[r].who])
  <2> DEFINE x == [req[r] EXCEPT !.pc = "act", !.row = users[req[r].who]]
  <2>1. /\ req[r] \in Request /\ req[r].who \in Users
        /\ users[req[r].who] \in User \cup {None} /\ users[req[r].who] # None
    BY <1>1, <1>3 DEF IInv, TypeOK, LoginInv, Request, IsActive
  <2>2. /\ x \in Request /\ x.pc = "act" /\ x.who = req[r].who /\ x.at = req[r].at
        /\ x.row # None
    BY <2>1 DEF Request, Pcs
  <2>3. req' = [req EXCEPT ![r] = x]
    BY <1>1, <1>3
  <2> HIDE DEF x
  <2>4. req'[r] = x
    BY <2>3 DEF IInv, TypeOK
  <2>5. LoginInv(r)'
    BY <1>1, <2>2, <2>4 DEF IInv, LoginInv
  <2>6. VerifyInv(r)' /\ ChangeInv(r)' /\ ~Holding(r)'
    BY <2>1, <2>2, <2>4 DEF VerifyInv, ChangeInv, Holding, InChange
  <2> QED
    BY <1>1, <2>2, <2>3, <2>5, <2>6, QuietStep DEF IInv, TypeOK, tables, history
<1> QED
  BY <1>2, <1>3

LEMMA LogoutStep == ASSUME IInv, NEW r \in Requests, Logout(r) PROVE IInv'
<1>1. PICK s \in Requests \cup Users :
        /\ sessions' = [sessions EXCEPT ![s] = None] /\ req' = [req EXCEPT ![r] = Over]
        /\ UNCHANGED <<now, users, links, mailed, history>>
  BY DEF Logout, Become
<1>2. sessions' \in [Requests \cup Users -> Session \cup {None}] /\ now' \in Nat
  BY <1>1 DEF IInv, TypeOK
<1>3. req'[r] = Over
  BY <1>1 DEF IInv, TypeOK
<1>4. LoginInv(r)' /\ VerifyInv(r)' /\ ChangeInv(r)' /\ ~Holding(r)'
  BY <1>2, <1>3, OverFits
<1> QED
  BY <1>1, <1>2, <1>4, OverType, QuietStep DEF IInv, TypeOK, history

LEMMA FindEmailStep == ASSUME IInv, NEW r \in Requests, FindEmail(r) PROVE IInv'
<1>1. PICK u \in Users, role \in Roles :
        /\ req[r].pc = "act"
        /\ req' = [req EXCEPT ![r] = [Idle EXCEPT !.pc = "insert", !.who = u,
                                         !.row = [role |-> role, active |-> TRUE]]]
        /\ UNCHANGED <<now, tables, mailed, history>>
  BY DEF FindEmail, Become, Administers
<1> DEFINE x == [Idle EXCEPT !.pc = "insert", !.who = u, !.row = [role |-> role, active |-> TRUE]]
<1>2. /\ x \in Request /\ x.pc = "insert" /\ x.who \in Users /\ x.at = 0 /\ x.row \in User
  BY DEF Request, Idle, Pcs, User
<1>3. req' = [req EXCEPT ![r] = x]
  BY <1>1
<1> HIDE DEF x
<1>4. req'[r] = x
  BY <1>3 DEF IInv, TypeOK
<1>5. r \notin mailed /\ now \in Nat
  BY <1>1 DEF IInv, LoginInv, TypeOK
<1>6. LoginInv(r)'
  <2>1. r \notin mailed' /\ now' = now
    BY <1>1, <1>2, <1>4, <1>5
  <2>2. req'[r].at = 0 /\ req'[r].pc \in {"insert", "countAdmins", "saveUser"}
    BY <1>1, <1>2, <1>4, <1>5
  <2>3. req'[r].at <= now'
    BY <1>1, <1>2, <1>4, <1>5, <2>1, <2>2
  <2> QED
    BY <2>1, <2>2, <2>3, LoginFits
<1>7. VerifyInv(r)' /\ ChangeInv(r)' /\ ~Holding(r)'
  BY <1>2, <1>4 DEF VerifyInv, ChangeInv, Holding, InChange, User
<1> QED
  BY <1>1, <1>2, <1>3, <1>6, <1>7, QuietStep DEF IInv, TypeOK, tables, history

LEMMA AppliedType ==
  ASSUME NEW row \in User, NEW c \in Changes
  PROVE  /\ Applied(row, c) \in User
         /\ c.active \in BOOLEAN \cup {None}
         /\ Applied(row, c).active = IF c.active = None THEN row.active ELSE c.active
BY DEF Applied, Changes, Change, User

LEMMA FindUserStep == ASSUME IInv, NEW r \in Requests, FindUser(r) PROVE IInv'
<1>1. PICK u \in Users, c \in Changes :
        /\ req[r].pc = "act" /\ users[u] # None
        /\ req' = [req EXCEPT ![r] =
             [Idle EXCEPT !.who = u, !.row = Applied(users[u], c), !.sets = c.active,
               !.pc = IF Lowers(users[u], Applied(users[u], c)) THEN "countAdmins" ELSE "saveUser"]]
        /\ shaken' = (shaken \/ InChange # {})
        /\ tangled' = IF \E t \in InChange : req[t].who = u THEN tangled \cup {u} ELSE tangled
        /\ UNCHANGED <<now, tables, mailed, opened, raced, crowded, barred>>
  BY DEF FindUser, Become, Administers
<1> DEFINE new == Applied(users[u], c)
<1> DEFINE next == IF Lowers(users[u], new) THEN "countAdmins" ELSE "saveUser"
<1> DEFINE x == [Idle EXCEPT !.who = u, !.row = new, !.sets = c.active, !.pc = next]
<1>2. users[u] \in User
  BY <1>1 DEF IInv, TypeOK
<1>3. /\ new \in User /\ c.active \in BOOLEAN \cup {None}
      /\ new.active = IF c.active = None THEN users[u].active ELSE c.active
  BY <1>2, AppliedType
<1>4. /\ next \in {"countAdmins", "saveUser"}
      /\ next = "saveUser" => ~Lowers(users[u], new)
  OBVIOUS
<1>5. req' = [req EXCEPT ![r] = x]
  BY <1>1
<1> HIDE DEF new, next
<1>6. /\ x \in Request /\ x.pc = next /\ x.who = u /\ x.at = 0 /\ x.row = new /\ x.sets = c.active
  BY <1>3, <1>4 DEF Request, Idle, Pcs
<1> HIDE DEF x
<1>7. req'[r] = x /\ \A s \in Requests : s # r => req'[s] = req[s]
  BY <1>5 DEF IInv, TypeOK
<1>8. r \notin mailed /\ now \in Nat
  BY <1>1 DEF IInv, LoginInv, TypeOK
<1>9. LoginInv(r)'
  <2>1. r \notin mailed' /\ now' = now
    BY <1>1, <1>4, <1>6, <1>7, <1>8
  <2>2. req'[r].at = 0 /\ req'[r].pc \in {"insert", "countAdmins", "saveUser"}
    BY <1>1, <1>4, <1>6, <1>7, <1>8
  <2>3. req'[r].at <= now'
    BY <1>1, <1>4, <1>6, <1>7, <1>8, <2>1, <2>2
  <2> QED
    BY <2>1, <2>2, <2>3, LoginFits
<1>10. VerifyInv(r)' /\ ~Holding(r)'
  BY <1>4, <1>6, <1>7 DEF VerifyInv, Holding
<1>11. InChange' = InChange \cup {r} /\ r \notin InChange
  BY <1>1, <1>4, <1>6, <1>7 DEF InChange
<1>12. ~shaken' => ~shaken /\ InChange' = {r}
  BY <1>1, <1>11
<1>13. u \notin tangled' => \A t \in InChange' : req'[t].who = u => t = r
  <2>1. InChange \subseteq Requests
    BY DEF InChange
  <2> QED
    BY <1>1, <1>7, <1>11, <2>1
<1>14. next = "saveUser" /\ ~shaken' => IsAdmin(new) \/ \E v \in Users \ {u} : IsAdmin(users[v])
  <2> SUFFICES ASSUME next = "saveUser", ~shaken', ~IsAdmin(new)
               PROVE  \E v \in Users \ {u} : IsAdmin(users[v])
    OBVIOUS
  <2>1. ~IsAdmin(users[u])
    BY <1>4 DEF Lowers
  <2>2. Admins # {}
    BY <1>12 DEF IInv, AnAdminRemains
  <2> QED
    BY <2>1, <2>2 DEF Admins
<1>15. ChangeInv(r)'
  <2>1. users' = users /\ u # None /\ new # None
    BY <1>1, <1>3 DEF tables, User
  <2> QED
    BY <1>1, <1>3, <1>6, <1>7, <1>12, <1>13, <1>14, <2>1 DEF ChangeInv
<1>16. tangled \subseteq tangled' /\ tangled' \subseteq Users /\ (shaken => shaken') /\ shaken' \in BOOLEAN
  BY <1>1 DEF IInv, TypeOK
<1> QED
  BY <1>1, <1>5, <1>6, <1>9, <1>10, <1>15, <1>16, QuietStep DEF IInv, TypeOK, tables

LEMMA CountAdminsStep == ASSUME IInv, NEW r \in Requests, CountAdmins(r) PROVE IInv'
<1>1. /\ req[r].pc = "countAdmins"
      /\ req' = [req EXCEPT ![r] = IF IsLast(Cardinality(Admins)) THEN Over
                                    ELSE [req[r] EXCEPT !.pc = "saveUser"]]
      /\ UNCHANGED <<now, tables, mailed, history>>
  BY DEF CountAdmins, Become
<1>2. CASE IsLast(Cardinality(Admins))
  BY <1>1, <1>2, EndStep
<1>3. CASE ~IsLast(Cardinality(Admins))
  <2> DEFINE x == [req[r] EXCEPT !.pc = "saveUser"]
  <2>1. req[r] \in Request
    BY DEF IInv, TypeOK
  <2>2. /\ x \in Request /\ x.pc = "saveUser" /\ x.who = req[r].who /\ x.at = req[r].at
        /\ x.row = req[r].row /\ x.sets = req[r].sets
    BY <2>1 DEF Request, Pcs
  <2>3. req' = [req EXCEPT ![r] = x]
    BY <1>1, <1>3
  <2> HIDE DEF x
  <2>4. req'[r] = x /\ \A s \in Requests : s # r => req'[s] = req[s]
    BY <2>3 DEF IInv, TypeOK
  <2>5. LoginInv(r)'
    BY <1>1, <2>2, <2>4 DEF IInv, LoginInv
  <2>6. VerifyInv(r)' /\ ~Holding(r)'
    BY <2>2, <2>4 DEF VerifyInv, Holding
  <2>7. \E v \in Users \ {req[r].who} : IsAdmin(users[v])
    <3>1. Admins \subseteq Users
      BY DEF Admins
    <3>2. IsFiniteSet(Admins) /\ Cardinality(Admins) \in Nat
      BY <3>1, FS_Subset, FS_CardinalityType
    <3>3. ASSUME Admins \subseteq {req[r].who} PROVE FALSE
      <4>1. IsFiniteSet({req[r].who}) /\ Cardinality({req[r].who}) = 1
        BY FS_Singleton
      <4>2. Cardinality(Admins) <= 1
        BY <3>3, <4>1, FS_Subset
      <4> QED
        BY <1>3, <4>2 DEF IsLast
    <3> QED
      BY <3>1, <3>3 DEF Admins
  <2>8. InChange' = InChange /\ r \in InChange /\ InChange \subseteq Requests
    BY <1>1, <2>2, <2>4 DEF InChange
  <2>9. ChangeInv(r)'
    <3>1. ChangeInv(r) /\ users' = users /\ tangled' = tangled /\ shaken' = shaken
      BY <1>1 DEF IInv, tables, history
    <3>2. \A t \in InChange' : req'[t].who = req[t].who
      BY <2>2, <2>4, <2>8
    <3> QED
      BY <1>1, <2>2, <2>4, <2>7, <2>8, <3>1, <3>2 DEF ChangeInv
  <2> QED
    BY <1>1, <2>2, <2>3, <2>5, <2>6, <2>9, QuietStep DEF IInv, TypeOK, tables, history
<1> QED
  BY <1>2, <1>3

-----------------------------------------------------------------------------
(* Steps that end a request and leave the links alone, and steps that      *)
(* leave the users alone: each keeps the other half of the invariant.      *)
LEMMA LinksKept ==
  ASSUME IInv, NEW r \in Requests, req' = [req EXCEPT ![r] = Over],
         UNCHANGED <<now, links, opened, raced, crowded>>,
         mailed \subseteq mailed', mailed' \subseteq mailed \cup {r}
  PROVE  /\ \A s \in Requests : LoginInv(s)' /\ VerifyInv(s)' /\ LinkInv(s)'
         /\ OneSessionPerLink' /\ LinksBounded'
<1>1. req'[r] = Over /\ (\A s \in Requests : s # r => req'[s] = req[s]) /\ now \in Nat
  BY DEF IInv, TypeOK
<1>2. \A u : Alive(u)' = Alive(u)
  BY AliveSame
<1>3. \A s \in Requests : LoginInv(s)'
  <2>1. LoginInv(r)'
    BY <1>1, OverType DEF LoginInv
  <2>2. ASSUME NEW s \in Requests, s # r PROVE LoginInv(s)'
    <3>1. LoginInv(s) /\ req'[s] = req[s]
      BY <1>1, <2>2 DEF IInv
    <3>2. \A t \in Requests : req'[t].pc = "saveLink" => req'[t] = req[t]
      BY <1>1, OverType
    <3> QED
      BY <1>2, <2>2, <3>1, <3>2 DEF LoginInv
  <2> QED
    BY <2>1, <2>2
<1>4. \A s \in Requests : VerifyInv(s)'
  <2>1. VerifyInv(r)'
    BY <1>1, OverType DEF VerifyInv, Holding
  <2>2. ASSUME NEW s \in Requests, s # r PROVE VerifyInv(s)'
    <3>1. VerifyInv(s) /\ req'[s] = req[s]
      BY <1>1, <2>2 DEF IInv
    <3>2. \A t \in Requests : req'[t].pc = "consume" => req'[t] = req[t]
      BY <1>1, OverType
    <3> QED
      BY <3>1, <3>2 DEF VerifyInv, Holding
  <2> QED
    BY <2>1, <2>2
<1>5. \A l \in Requests : LinkInv(l)'
  <2>1. ~Holding(r)'
    BY <1>1, OverType DEF Holding
  <2>2. \A s \in Requests : s # r => (Holding(s)' <=> Holding(s)) /\ req'[s] = req[s]
    BY <1>1 DEF Holding
  <2> SUFFICES ASSUME NEW l \in Requests PROVE LinkInv(l)'
    OBVIOUS
  <2>3. LinkInv(l)
    BY DEF IInv
  <2> QED
    BY <2>1, <2>2, <2>3 DEF LinkInv
<1>6. OneSessionPerLink' /\ LinksBounded'
  BY <1>2 DEF IInv, OneSessionPerLink, LinksBounded
<1> QED
  BY <1>3, <1>4, <1>5, <1>6

LEMMA UsersKept ==
  ASSUME IInv, NEW r \in Requests, NEW x \in Request, req' = [req EXCEPT ![r] = x],
         UNCHANGED <<users, barred, tangled, shaken>>,
         x.pc \notin {"act", "insert", "countAdmins", "saveUser"}
  PROVE  /\ \A s \in Requests : ChangeInv(s)'
         /\ AnAdminRemains' /\ BarredIsInactive'
<1>1. req'[r] = x /\ \A s \in Requests : s # r => req'[s] = req[s]
  BY DEF IInv, TypeOK
<1>2. \A t \in Requests : t \in InChange' => t \in InChange /\ t # r /\ req'[t] = req[t]
  BY <1>1 DEF InChange
<1>3. InChange' \subseteq Requests
  BY DEF InChange
<1>4. ChangeInv(r)'
  BY <1>1, <1>2 DEF ChangeInv
<1>5. ASSUME NEW s \in Requests, s # r PROVE ChangeInv(s)'
  <2>1. ChangeInv(s) /\ req'[s] = req[s]
    BY <1>1, <1>5 DEF IInv
  <2>2. s \in InChange' /\ ~shaken' => InChange' = {s}
    BY <1>2, <1>3, <2>1 DEF ChangeInv
  <2> QED
    BY <1>2, <1>3, <2>1, <2>2 DEF ChangeInv
<1>6. AnAdminRemains' /\ BarredIsInactive'
  BY DEF IInv, AnAdminRemains, BarredIsInactive, Admins
<1> QED
  BY <1>4, <1>5, <1>6

LEMMA MailStep == ASSUME IInv, NEW r \in Requests, Mail(r) PROVE IInv'
<1>1. /\ mailed' = mailed \cup {r} /\ req' = [req EXCEPT ![r] = Over]
      /\ UNCHANGED <<now, users, links, sessions, opened, raced, crowded, barred, tangled, shaken>>
  BY DEF Mail, Become, tables, history
<1>2. TypeOK'
  BY <1>1, OverType DEF IInv, TypeOK
<1>3. /\ \A s \in Requests : LoginInv(s)' /\ VerifyInv(s)' /\ LinkInv(s)'
      /\ OneSessionPerLink' /\ LinksBounded'
  BY <1>1, LinksKept
<1>4. /\ \A s \in Requests : ChangeInv(s)'
      /\ AnAdminRemains' /\ BarredIsInactive'
  BY <1>1, OverType, UsersKept
<1> QED
  BY <1>2, <1>3, <1>4 DEF IInv

LEMMA InsertStep == ASSUME IInv, NEW r \in Requests, Insert(r) PROVE IInv'
<1> DEFINE w == req[r].who
<1>1. /\ req[r].pc = "insert"
      /\ users' = IF users[w] = None THEN [users EXCEPT ![w] = req[r].row] ELSE users
      /\ req' = [req EXCEPT ![r] = Over]
      /\ UNCHANGED <<now, links, sessions, mailed, opened, raced, crowded, barred, tangled, shaken>>
  BY DEF Insert, Become, history
<1>2. w \in Users /\ req[r].row \in User
  BY <1>1 DEF IInv, TypeOK, ChangeInv, Request
<1> HIDE DEF w
<1>3. /\ users' \in [Users -> User \cup {None}]
      /\ \A u \in Users : users[u] # None => users'[u] = users[u]
  BY <1>1, <1>2 DEF IInv, TypeOK
<1>4. TypeOK'
  BY <1>1, <1>3, OverType DEF IInv, TypeOK
<1>5. /\ \A s \in Requests : LoginInv(s)' /\ VerifyInv(s)' /\ LinkInv(s)'
      /\ OneSessionPerLink' /\ LinksBounded'
  BY <1>1, LinksKept
<1>6. \A u \in Users : IsAdmin(users[u]) => IsAdmin(users'[u])
  BY <1>3 DEF IsAdmin
<1>7. req'[r] = Over /\ \A s \in Requests : s # r => req'[s] = req[s]
  BY <1>1 DEF IInv, TypeOK
<1>8. InChange' = InChange /\ InChange \subseteq Requests /\ r \notin InChange
  BY <1>1, <1>7, OverType DEF InChange
<1>9. \A s \in Requests : ChangeInv(s)'
  <2>1. ChangeInv(r)'
    BY <1>7, <1>8, OverType DEF ChangeInv
  <2>2. ASSUME NEW s \in Requests, s # r PROVE ChangeInv(s)'
    <3>1. ChangeInv(s) /\ req'[s] = req[s] /\ req[s] \in Request
      BY <1>7, <2>2 DEF IInv, TypeOK
    <3>2. s \in InChange => req[s].who \in Users /\ users'[req[s].who] = users[req[s].who]
      BY <1>3, <3>1 DEF ChangeInv, Request, InChange
    <3>3. \A t \in InChange : req'[t] = req[t]
      BY <1>7, <1>8
    <3> QED
      BY <1>1, <1>6, <1>8, <3>1, <3>2, <3>3 DEF ChangeInv
  <2> QED
    BY <2>1, <2>2
<1>10. AnAdminRemains' /\ BarredIsInactive'
  BY <1>1, <1>3, <1>6 DEF IInv, TypeOK, AnAdminRemains, BarredIsInactive, Admins
<1> QED
  BY <1>4, <1>5, <1>9, <1>10 DEF IInv

LEMMA SaveUserStep == ASSUME IInv, NEW r \in Requests, SaveUser(r) PROVE IInv'
<1> DEFINE q == req[r]
<1> DEFINE w == q.who
<1>1. /\ q.pc = "saveUser" /\ users' = [users EXCEPT ![w] = q.row]
      /\ barred' = IF q.sets = None THEN barred
                   ELSE IF q.sets = TRUE THEN barred \ {w} ELSE barred \cup {w}
      /\ req' = [req EXCEPT ![r] = Over]
      /\ UNCHANGED <<now, links, sessions, mailed, opened, raced, crowded, tangled, shaken>>
  BY DEF SaveUser, Become
<1>2. /\ w \in Users /\ q.row \in User /\ q.sets \in BOOLEAN \cup {None} /\ r \in InChange
  BY <1>1 DEF IInv, TypeOK, ChangeInv, Request, InChange
<1>3. ChangeInv(r)
  BY DEF IInv
<1>4. q.sets # None => q.row.active = q.sets
  BY <1>2, <1>3 DEF ChangeInv
<1>5. w \notin tangled /\ q.sets = None => q.row.active = users[w].active
  BY <1>2, <1>3 DEF ChangeInv
<1>6. ~shaken => InChange = {r} /\ (IsAdmin(q.row) \/ \E u \in Users \ {w} : IsAdmin(users[u]))
  BY <1>1, <1>2, <1>3 DEF ChangeInv
<1>7. w \notin tangled => \A t \in InChange : req[t].who = w => t = r
  BY <1>2, <1>3 DEF ChangeInv
<1> HIDE DEF w, q
<1>8. /\ users' \in [Users -> User \cup {None}] /\ users'[w] = q.row
      /\ \A u \in Users : u # w => users'[u] = users[u]
  BY <1>1, <1>2 DEF IInv, TypeOK
<1>9. TypeOK'
  BY <1>1, <1>2, <1>8, OverType DEF IInv, TypeOK
<1>10. /\ \A s \in Requests : LoginInv(s)' /\ VerifyInv(s)' /\ LinkInv(s)'
       /\ OneSessionPerLink' /\ LinksBounded'
  BY <1>1, LinksKept
<1>11. req'[r] = Over /\ \A s \in Requests : s # r => req'[s] = req[s]
  BY <1>1 DEF IInv, TypeOK
<1>12. InChange' = InChange \ {r} /\ InChange \subseteq Requests
  BY <1>1, <1>11, OverType DEF InChange
<1>13. \A s \in Requests : ChangeInv(s)'
  <2>1. ChangeInv(r)'
    BY <1>11, <1>12, OverType DEF ChangeInv
  <2>2. ASSUME NEW s \in Requests, s # r PROVE ChangeInv(s)'
    <3>1. ChangeInv(s) /\ req'[s] = req[s] /\ req[s] \in Request
      BY <1>11, <2>2 DEF IInv, TypeOK
    <3>2. s \in InChange =>
            /\ users'[req[s].who] # None
            /\ req[s].who \notin tangled => users'[req[s].who] = users[req[s].who]
      <4> SUFFICES ASSUME s \in InChange
                   PROVE  /\ users'[req[s].who] # None
                          /\ req[s].who \notin tangled => users'[req[s].who] = users[req[s].who]
        OBVIOUS
      <4>1. req[s].who \in Users /\ users[req[s].who] # None
        BY <3>1 DEF ChangeInv, InChange, Request
      <4>2. q.row # None
        BY <1>2 DEF User
      <4>3. req[s].who = w => w \in tangled
        BY <1>7, <2>2
      <4> QED
        BY <1>8, <4>1, <4>2, <4>3
    <3>3. s \in InChange => shaken
      BY <1>6, <2>2
    <3>4. \A t \in InChange' : req'[t] = req[t] /\ t \in InChange
      BY <1>11, <1>12
    <3>5. s \in InChange' <=> s \in InChange
      BY <1>12, <2>2
    <3>6. req[s].pc = "saveUser" => s \in InChange
      BY DEF InChange
    <3>7. s \in InChange =>
            /\ req[s].sets # None => req[s].row.active = req[s].sets
            /\ req[s].who \notin tangled =>
                 /\ \A t \in InChange : req[t].who = req[s].who => t = s
                 /\ req[s].sets = None => req[s].row.active = users[req[s].who].active
      BY <3>1 DEF ChangeInv
    <3>8. req[s].pc \in {"act", "insert", "countAdmins", "saveUser"} => req[s].who # None /\ req[s].row # None
      BY <3>1 DEF ChangeInv
    <3>9. tangled' = tangled /\ shaken' = shaken
      BY <1>1
    <3> QED
      BY <3>1, <3>2, <3>3, <3>4, <3>5, <3>6, <3>7, <3>8, <3>9 DEF ChangeInv
  <2> QED
    BY <2>1, <2>2
<1>14. AnAdminRemains'
  <2>1. CASE shaken
    BY <1>1, <2>1 DEF AnAdminRemains
  <2>2. CASE ~shaken
    <3>1. \E u \in Users : IsAdmin(users'[u])
      BY <1>2, <1>6, <1>8, <2>2
    <3> QED
      BY <3>1 DEF AnAdminRemains, Admins
  <2> QED
    BY <2>1, <2>2
<1>15. BarredIsInactive'
  <2> SUFFICES ASSUME NEW u \in barred' \ tangled' PROVE users'[u] # None /\ ~users'[u].active
    BY DEF BarredIsInactive
  <2>1. u \in Users /\ u \notin tangled
    BY <1>1, <1>2 DEF IInv, TypeOK
  <2>2. u \in barred => users[u] # None /\ ~users[u].active
    BY <2>1 DEF IInv, BarredIsInactive
  <2>3. CASE u # w
    BY <1>1, <1>8, <2>1, <2>2, <2>3
  <2>4. CASE u = w
    <3>1. q.sets = None => u \in barred
      BY <1>1
    <3>2. q.sets # None => q.sets = FALSE
      BY <1>1, <1>2, <2>4
    <3>3. q.row.active = FALSE
      <4>1. CASE q.sets = None
        <5>1. ~q.row.active
          BY <1>5, <2>1, <2>2, <2>4, <3>1, <4>1
        <5> QED
          BY <1>2, <5>1 DEF User
      <4>2. CASE q.sets # None
        BY <1>4, <3>2, <4>2
      <4> QED
        BY <4>1, <4>2
    <3>4. q.row # None
      BY <1>2 DEF User
    <3> QED
      BY <1>8, <2>4, <3>3, <3>4
  <2> QED
    BY <2>3, <2>4
<1> QED
  BY <1>9, <1>10, <1>13, <1>14, <1>15 DEF IInv

LEMMA SaveLinkStep == ASSUME IInv, NEW r \in Requests, SaveLink(r) PROVE IInv'
<1> DEFINE q == req[r]
<1> DEFINE x == [q EXCEPT !.pc = "mail"]
<1> DEFINE new == [user |-> q.who, expires |-> q.at + LinkTtl, consumed |-> FALSE]
<1>0. PICK w : w = req[r].who
  OBVIOUS
<1>1. /\ q.pc = "saveLink" /\ links' = [links EXCEPT ![r] = new] /\ req' = [req EXCEPT ![r] = x]
      /\ UNCHANGED <<now, users, sessions, mailed, opened, raced, crowded, barred, tangled, shaken>>
  BY DEF SaveLink, Become, history
<1>2. /\ q \in Request /\ w \in Users /\ q.at \in Nat /\ q.at <= now /\ links[r] = None
      /\ r \notin mailed
      /\ w \notin crowded =>
           /\ Cardinality(Alive(w)) < MaxLinks
           /\ \A t \in Requests : req[t].pc = "saveLink" /\ req[t].who = w => t = r
  BY <1>0, <1>1 DEF IInv, TypeOK, LoginInv, Request
<1>3. x \in Request /\ x.pc = "mail" /\ x.at = q.at
  BY <1>2 DEF Request, Pcs
<1>4. new \in Link /\ new.user = w
  BY <1>0, <1>2 DEF Link
<1> HIDE DEF x, q, new
<1>5. req'[r] = x /\ \A s \in Requests : s # r => req'[s] = req[s]
  BY <1>1 DEF IInv, TypeOK
<1>6. /\ links' \in [Requests -> Link \cup {None}] /\ links'[r] = new
      /\ \A l \in Requests : l # r => links'[l] = links[l]
  BY <1>1, <1>4 DEF IInv, TypeOK
<1>7. TypeOK'
  BY <1>1, <1>3, <1>6 DEF IInv, TypeOK
<1>8. \A u : u # w => Alive(u)' = Alive(u)
  BY <1>1, <1>2, <1>4, <1>6 DEF Alive, Link
<1>9. Cardinality(Alive(w)) < MaxLinks => Cardinality(Alive(w)') <= MaxLinks
  <2>1. Alive(w)' \subseteq Alive(w) \cup {r}
    BY <1>1, <1>6 DEF Alive
  <2>2. /\ Cardinality(Alive(w)') <= Cardinality(Alive(w)) + 1
        /\ Cardinality(Alive(w)) \in Nat /\ Cardinality(Alive(w)') \in Nat
    BY <2>1, AliveFinite, OneMore
  <2> QED
    BY <2>2
<1>10. \A s \in Requests : LoginInv(s)'
  <2>1. LoginInv(r)'
    BY <1>1, <1>2, <1>3, <1>5, LoginFits
  <2>2. ASSUME NEW s \in Requests, s # r PROVE LoginInv(s)'
    <3>1. LoginInv(s) /\ req'[s] = req[s] /\ links'[s] = links[s]
      BY <1>5, <1>6, <2>2 DEF IInv
    <3>2. req[s].pc = "saveLink" /\ req[s].who \notin crowded => req[s].who # w
      BY <1>0, <1>1, <1>2, <2>2, <3>1 DEF q
    <3>3. \A t \in Requests : req'[t].pc = "saveLink" => req'[t] = req[t]
      BY <1>3, <1>5
    <3> QED
      BY <1>1, <1>8, <3>1, <3>2, <3>3 DEF LoginInv
  <2> QED
    BY <2>1, <2>2
<1>11. \A s \in Requests : Holding(s)' <=> Holding(s)
  BY <1>1, <1>3, <1>5 DEF Holding, q
<1>12. \A s \in Requests : Holding(s) => s # r /\ req'[s] = req[s] /\ req[s].link # r
                           /\ req[s].link \in Requests /\ links'[req[s].link] = links[req[s].link]
  BY <1>1, <1>2, <1>5, <1>6 DEF IInv, TypeOK, VerifyInv, Holding, q
<1>13. \A s \in Requests : VerifyInv(s)'
  <2>1. VerifyInv(r)'
    BY <1>3, <1>5 DEF VerifyInv, Holding
  <2>2. ASSUME NEW s \in Requests, s # r PROVE VerifyInv(s)'
    <3>1. VerifyInv(s) /\ req'[s] = req[s]
      BY <1>5, <2>2 DEF IInv
    <3>2. \A t \in Requests : req'[t].pc = "consume" => req'[t] = req[t]
      BY <1>3, <1>5
    <3>3. req[s].pc = "consume" => links'[req[s].link] = links[req[s].link]
      BY <1>12 DEF Holding
    <3> QED
      BY <1>1, <1>11, <3>1, <3>2, <3>3 DEF VerifyInv
  <2> QED
    BY <2>1, <2>2
<1>14. \A l \in Requests : LinkInv(l)'
  <2> SUFFICES ASSUME NEW l \in Requests PROVE LinkInv(l)'
    OBVIOUS
  <2>1. LinkInv(l)
    BY DEF IInv
  <2>2. CASE l = r
    <3>1. opened[l] = {} /\ \A s \in Requests : Holding(s) => req[s].link # l
      BY <1>2, <1>12, <2>1, <2>2 DEF LinkInv
    <3> QED
      BY <1>1, <1>11, <1>12, <3>1 DEF LinkInv
  <2>3. CASE l # r
    <3>1. links'[l] = links[l]
      BY <1>6, <2>3
    <3> QED
      BY <1>1, <1>11, <1>12, <2>1, <3>1 DEF LinkInv
  <2> QED
    BY <2>2, <2>3
<1>15. /\ \A s \in Requests : ChangeInv(s)'
       /\ AnAdminRemains' /\ BarredIsInactive'
  BY <1>1, <1>3, UsersKept
<1>16. OneSessionPerLink' /\ LinksBounded'
  <2>1. LinksBounded'
    <3> SUFFICES ASSUME NEW u \in Users \ crowded' PROVE Cardinality(Alive(u)') <= MaxLinks
      BY DEF LinksBounded
    <3>1. u \notin crowded /\ Cardinality(Alive(u)) <= MaxLinks
      BY <1>1 DEF IInv, LinksBounded
    <3> QED
      BY <1>2, <1>8, <1>9, <3>1
  <2> QED
    BY <1>1, <2>1 DEF IInv, OneSessionPerLink
<1> QED
  BY <1>7, <1>10, <1>13, <1>14, <1>15, <1>16 DEF IInv

LEMMA ConsumeStep == ASSUME IInv, NEW r \in Requests, Consume(r) PROVE IInv'
<1> DEFINE q == req[r]
<1> DEFINE x == [q EXCEPT !.pc = "enter", !.who = q.copy.user, !.copy = None]
<1> DEFINE new == [q.copy EXCEPT !.consumed = TRUE]
<1>0. PICK k : k = req[r].link
  OBVIOUS
<1>1. /\ q.pc = "consume" /\ links' = [links EXCEPT ![k] = new] /\ req' = [req EXCEPT ![r] = x]
      /\ UNCHANGED <<now, users, sessions, mailed, opened, raced, crowded, barred, tangled, shaken>>
  BY <1>0 DEF Consume, Become, history
<1>2. /\ q \in Request /\ k \in mailed /\ k \in Requests /\ q.copy \in Link /\ q.at <= now
      /\ r \notin mailed
      /\ links[k] = None => q.copy.expires <= now
      /\ links[k] # None => links[k].user = q.copy.user /\ links[k].expires = q.copy.expires
      /\ \A t \in Requests : req[t].pc = "consume" /\ req[t].link = k =>
           req[t].copy.user = q.copy.user /\ req[t].copy.expires = q.copy.expires
  BY <1>0, <1>1 DEF IInv, TypeOK, LoginInv, VerifyInv, Holding, Request
<1>3. x \in Request /\ x.pc = "enter" /\ x.at = q.at /\ x.link = k /\ x.who # None
  BY <1>0, <1>2 DEF Request, Pcs, Link
<1>4. new \in Link /\ new.user = q.copy.user /\ new.expires = q.copy.expires /\ new.consumed = TRUE
  BY <1>2 DEF Link
<1> HIDE DEF x, q, new
<1>5. req'[r] = x /\ \A s \in Requests : s # r => req'[s] = req[s]
  BY <1>1 DEF IInv, TypeOK
<1>6. /\ links' \in [Requests -> Link \cup {None}] /\ links'[k] = new
      /\ \A l \in Requests : l # k => links'[l] = links[l]
  BY <1>1, <1>2, <1>4 DEF IInv, TypeOK
<1>7. TypeOK'
  BY <1>1, <1>3, <1>6 DEF IInv, TypeOK
<1>8. \A u : Alive(u)' = Alive(u)
  <2> SUFFICES ASSUME NEW u, NEW l \in Requests PROVE l \in Alive(u)' <=> l \in Alive(u)
    BY DEF Alive
  <2>1. CASE l # k
    BY <1>1, <1>6, <2>1 DEF Alive
  <2>2. CASE l = k
    <3>1. new # None /\ now \in Nat /\ q.copy.expires \in Nat
      BY <1>2, <1>4 DEF Link, IInv, TypeOK
    <3> QED
      BY <1>1, <1>2, <1>4, <1>6, <2>2, <3>1 DEF Alive
  <2> QED
    BY <2>1, <2>2
<1>9. \A s \in Requests : LoginInv(s)'
  <2>1. LoginInv(r)'
    BY <1>1, <1>2, <1>3, <1>5, LoginFits
  <2>2. ASSUME NEW s \in Requests, s # r PROVE LoginInv(s)'
    <3>1. LoginInv(s) /\ req'[s] = req[s]
      BY <1>5, <2>2 DEF IInv
    <3>2. req[s].pc \in {"idle", "count", "saveLink"} => links'[s] = links[s]
      BY <1>2, <1>6, <3>1 DEF LoginInv
    <3>3. \A t \in Requests : req'[t].pc = "saveLink" => req'[t] = req[t]
      BY <1>3, <1>5
    <3> QED
      BY <1>1, <1>8, <3>1, <3>2, <3>3 DEF LoginInv
  <2> QED
    BY <2>1, <2>2
<1>10. \A s \in Requests : (Holding(s)' <=> Holding(s)) /\ (Holding(s) => req'[s].link = req[s].link)
  BY <1>0, <1>1, <1>3, <1>5 DEF Holding, q
<1>11. \A s \in Requests : VerifyInv(s)'
  <2>1. VerifyInv(r)'
    BY <1>1, <1>2, <1>3, <1>5 DEF VerifyInv, Holding
  <2>2. ASSUME NEW s \in Requests, s # r PROVE VerifyInv(s)'
    <3>1. VerifyInv(s) /\ req'[s] = req[s] /\ req[s] \in Request
      BY <1>5, <2>2 DEF IInv, TypeOK
    <3>2. \A t \in Requests : req'[t].pc = "consume" => req'[t] = req[t]
      BY <1>3, <1>5
    <3>3. req[s].pc = "consume" =>
            /\ links'[req[s].link] = None => req[s].copy.expires <= now'
            /\ links'[req[s].link] # None => /\ links'[req[s].link].user = req[s].copy.user
                                            /\ links'[req[s].link].expires = req[s].copy.expires
      <4> SUFFICES ASSUME req[s].pc = "consume"
                   PROVE  /\ links'[req[s].link] = None => req[s].copy.expires <= now'
                          /\ links'[req[s].link] # None => /\ links'[req[s].link].user = req[s].copy.user
                                                          /\ links'[req[s].link].expires = req[s].copy.expires
        OBVIOUS
      <4>1. CASE req[s].link = k
        <5>1. new # None
          BY <1>4 DEF Link
        <5> QED
          BY <1>2, <1>4, <1>6, <4>1, <5>1
      <4>2. CASE req[s].link # k
        <5>1. req[s].link \in Requests
          BY <3>1 DEF VerifyInv, Holding, IInv, TypeOK
        <5>2. links'[req[s].link] = links[req[s].link]
          BY <1>6, <4>2, <5>1
        <5> QED
          BY <1>1, <3>1, <5>2 DEF VerifyInv
      <4> QED
        BY <4>1, <4>2
    <3> QED
      BY <1>1, <1>10, <3>1, <3>2, <3>3 DEF VerifyInv
  <2> QED
    BY <2>1, <2>2
<1>12. \A l \in Requests : LinkInv(l)'
  <2> SUFFICES ASSUME NEW l \in Requests PROVE LinkInv(l)'
    OBVIOUS
  <2>1. LinkInv(l)
    BY DEF IInv
  <2>2. CASE l = k
    <3>1. links'[l] = None \/ links'[l].consumed
      BY <1>4, <1>6, <2>2
    <3> QED
      BY <1>1, <1>10, <2>1, <3>1 DEF LinkInv
  <2>3. CASE l # k
    <3>1. links'[l] = links[l]
      BY <1>6, <2>3
    <3>2. req'[r].link = k
      BY <1>3, <1>5
    <3>3. \A s \in Requests : req'[s].link = l => req'[s] = req[s]
      BY <1>5, <2>3, <3>2
    <3> QED
      BY <1>1, <1>10, <2>1, <3>1, <3>3 DEF LinkInv
  <2> QED
    BY <2>2, <2>3
<1>13. /\ \A s \in Requests : ChangeInv(s)'
       /\ AnAdminRemains' /\ BarredIsInactive'
  BY <1>1, <1>3, UsersKept
<1>14. OneSessionPerLink' /\ LinksBounded'
  BY <1>1, <1>8 DEF IInv, OneSessionPerLink, LinksBounded
<1> QED
  BY <1>7, <1>9, <1>11, <1>12, <1>13, <1>14 DEF IInv

LEMMA SaveSessionStep == ASSUME IInv, NEW r \in Requests, SaveSession(r) PROVE IInv'
<1> DEFINE q == req[r]
<1>0. PICK k : k = req[r].link
  OBVIOUS
<1>1. /\ q.pc = "saveSession" /\ req' = [req EXCEPT ![r] = Over]
      /\ sessions' = [sessions EXCEPT ![r] = [user |-> q.who, expires |-> q.at + SessionTtl]]
      /\ opened' = [opened EXCEPT ![k] = opened[k] \cup {r}]
      /\ UNCHANGED <<now, users, links, mailed, raced, crowded, barred, tangled, shaken>>
  BY <1>0 DEF SaveSession, Become
<1>2. /\ q \in Request /\ q.who \in Users /\ q.at \in Nat /\ k \in mailed /\ k \in Requests
      /\ Holding(r)
  BY <1>0, <1>1 DEF IInv, TypeOK, VerifyInv, Holding, Request
<1>3. sessions' \in [Requests \cup Users -> Session \cup {None}]
  BY <1>1, <1>2 DEF IInv, TypeOK, Session
<1> HIDE DEF q
<1>4. /\ opened' \in [Requests -> SUBSET Requests] /\ opened'[k] = opened[k] \cup {r}
      /\ \A l \in Requests : l # k => opened'[l] = opened[l]
  <2>1. opened \in [Requests -> SUBSET Requests]
    BY DEF IInv, TypeOK
  <2> QED
    BY <1>1, <1>2, <2>1
<1>5. req'[r] = Over /\ \A s \in Requests : s # r => req'[s] = req[s]
  BY <1>1 DEF IInv, TypeOK
<1>6. TypeOK'
  BY <1>1, <1>3, <1>4, OverType DEF IInv, TypeOK
<1>7. \A u : Alive(u)' = Alive(u)
  BY <1>1, AliveSame
<1>8. \A s \in Requests : LoginInv(s)'
  <2>1. LoginInv(r)'
    BY <1>1, <1>5, OverFits DEF IInv, TypeOK
  <2>2. ASSUME NEW s \in Requests, s # r PROVE LoginInv(s)'
    <3>1. LoginInv(s) /\ req'[s] = req[s]
      BY <1>5, <2>2 DEF IInv
    <3>2. \A t \in Requests : req'[t].pc = "saveLink" => req'[t] = req[t]
      BY <1>5, OverType
    <3> QED
      BY <1>1, <1>7, <3>1, <3>2 DEF LoginInv
  <2> QED
    BY <2>1, <2>2
<1>9. \A s \in Requests : VerifyInv(s)'
  <2>1. VerifyInv(r)'
    BY <1>5, OverType DEF VerifyInv, Holding
  <2>2. ASSUME NEW s \in Requests, s # r PROVE VerifyInv(s)'
    <3>1. VerifyInv(s) /\ req'[s] = req[s]
      BY <1>5, <2>2 DEF IInv
    <3>2. \A t \in Requests : req'[t].pc = "consume" => req'[t] = req[t]
      BY <1>5, OverType
    <3> QED
      BY <1>1, <3>1, <3>2 DEF VerifyInv, Holding
  <2> QED
    BY <2>1, <2>2
<1>10. ~Holding(r)' /\ \A s \in Requests : s # r => (Holding(s)' <=> Holding(s)) /\ req'[s] = req[s]
  BY <1>5, OverType DEF Holding
<1>11. k \notin raced => /\ opened[k] = {} /\ (links[k] = None \/ links[k].consumed)
                         /\ \A s \in Requests : Holding(s) /\ req[s].link = k => s = r
  BY <1>0, <1>1, <1>2 DEF IInv, LinkInv, q
<1>12. \A l \in Requests : LinkInv(l)'
  <2> SUFFICES ASSUME NEW l \in Requests PROVE LinkInv(l)'
    OBVIOUS
  <2>1. LinkInv(l)
    BY DEF IInv
  <2>2. CASE l = k
    BY <1>1, <1>2, <1>10, <1>11, <2>2 DEF LinkInv
  <2>3. CASE l # k
    <3>1. opened'[l] = opened[l]
      BY <1>4, <2>3
    <3>2. opened'[l] # {} => l \in mailed'
      BY <1>1, <2>1, <3>1 DEF LinkInv
    <3> QED
      BY <1>1, <1>10, <2>1, <3>1, <3>2 DEF LinkInv
  <2> QED
    BY <2>2, <2>3
<1>13. /\ \A s \in Requests : ChangeInv(s)'
       /\ AnAdminRemains' /\ BarredIsInactive'
  BY <1>1, OverType, UsersKept
<1>14. OneSessionPerLink'
  <2> SUFFICES ASSUME NEW l \in Requests \ raced PROVE \A s, t \in opened'[l] : s = t
    BY <1>1 DEF OneSessionPerLink
  <2>1. CASE l = k
    BY <1>4, <1>11, <2>1
  <2>2. CASE l # k
    BY <1>4, <2>2 DEF IInv, OneSessionPerLink
  <2> QED
    BY <2>1, <2>2
<1>15. LinksBounded'
  BY <1>1, <1>7 DEF IInv, LinksBounded
<1> QED
  BY <1>6, <1>8, <1>9, <1>12, <1>13, <1>14, <1>15 DEF IInv

-----------------------------------------------------------------------------
(* Time and the sweeps leave every request as it is; they can only shorten *)
(* what is alive.                                                          *)
LEMMA AgingStep ==
  ASSUME IInv, UNCHANGED <<users, req, mailed, opened, raced, crowded, barred, tangled, shaken>>,
         now' \in Nat, now <= now',
         links' \in [Requests -> Link \cup {None}],
         sessions' \in [Requests \cup Users -> Session \cup {None}],
         \A l \in Requests : \/ links'[l] = links[l]
                             \/ links'[l] = None /\ links[l].expires <= now'
  PROVE  IInv'
<1>1. now \in Nat /\ \A l \in Requests : links[l] \in Link \cup {None}
  BY DEF IInv, TypeOK
<1>2. TypeOK'
  BY DEF IInv, TypeOK
<1>3. \A u : Alive(u)' \subseteq Alive(u)
  <2> SUFFICES ASSUME NEW u, NEW l \in Requests, l \in Alive(u)' PROVE l \in Alive(u)
    BY DEF Alive
  <2>1. links'[l] # None /\ links'[l].user = u /\ links'[l].expires > now'
    BY DEF Alive
  <2>2. links'[l] = links[l] /\ links[l].expires \in Nat
    BY <1>1, <2>1 DEF Link
  <2> QED
    BY <1>1, <2>1, <2>2 DEF Alive
<1>4. \A u : Cardinality(Alive(u)') <= Cardinality(Alive(u)) /\ Cardinality(Alive(u)) \in Nat
             /\ Cardinality(Alive(u)') \in Nat
  BY <1>3, AliveFinite, FS_Subset, FS_CardinalityType
<1>5. \A s \in Requests : LoginInv(s)'
  <2> SUFFICES ASSUME NEW s \in Requests PROVE LoginInv(s)'
    OBVIOUS
  <2>1. LoginInv(s) /\ req[s] \in Request
    BY DEF IInv, TypeOK
  <2>2. req[s].at <= now'
    BY <1>1, <2>1 DEF LoginInv, Request
  <2>3. req[s].pc = "saveLink" /\ req[s].who \notin crowded => Cardinality(Alive(req[s].who)') < MaxLinks
    BY <1>4, <2>1 DEF LoginInv
  <2>4. links[s] = None => links'[s] = None
    OBVIOUS
  <2> QED
    BY <2>1, <2>2, <2>3, <2>4 DEF LoginInv
<1>6. \A s \in Requests : VerifyInv(s)'
  <2> SUFFICES ASSUME NEW s \in Requests PROVE VerifyInv(s)'
    OBVIOUS
  <2>1. VerifyInv(s) /\ req[s] \in Request
    BY DEF IInv, TypeOK
  <2>2. ASSUME req[s].pc = "consume"
        PROVE  /\ links'[req[s].link] = None => req[s].copy.expires <= now'
               /\ links'[req[s].link] # None => links'[req[s].link] = links[req[s].link]
    <3>1. req[s].link \in Requests /\ req[s].copy \in Link
      BY <2>1, <2>2 DEF VerifyInv, Holding, IInv, TypeOK, Request
    <3>2. /\ links[req[s].link] = None => req[s].copy.expires <= now
          /\ links[req[s].link] # None => links[req[s].link].expires = req[s].copy.expires
      BY <2>1, <2>2 DEF VerifyInv
    <3>3. req[s].copy.expires \in Nat
      BY <3>1 DEF Link
    <3>4. CASE links[req[s].link] = None
      BY <1>1, <3>1, <3>2, <3>3, <3>4
    <3>5. CASE links[req[s].link] # None
      BY <1>1, <3>1, <3>2, <3>3, <3>5
    <3> QED
      BY <3>4, <3>5
  <2> QED
    BY <2>1, <2>2 DEF VerifyInv, Holding
<1>7. \A l \in Requests : LinkInv(l)'
  BY DEF IInv, LinkInv, Holding
<1>8. \A s \in Requests : ChangeInv(s)'
  BY DEF IInv, ChangeInv, InChange
<1>9. OneSessionPerLink' /\ AnAdminRemains' /\ BarredIsInactive'
  BY DEF IInv, OneSessionPerLink, AnAdminRemains, BarredIsInactive, Admins
<1>10. LinksBounded'
  <2> SUFFICES ASSUME NEW u \in Users \ crowded' PROVE Cardinality(Alive(u)') <= MaxLinks
    BY DEF LinksBounded
  <2>1. Cardinality(Alive(u)) <= MaxLinks
    BY DEF IInv, LinksBounded
  <2> QED
    BY <1>4, <2>1
<1> QED
  BY <1>2, <1>5, <1>6, <1>7, <1>8, <1>9, <1>10 DEF IInv

LEMMA NextIInv == IInv /\ [Next]_vars => IInv'
<1> SUFFICES ASSUME IInv, [Next]_vars PROVE IInv'
  OBVIOUS
<1> USE DEF tables, history
<1>0. now \in Nat /\ links \in [Requests -> Link \cup {None}]
      /\ sessions \in [Requests \cup Users -> Session \cup {None}]
  BY DEF IInv, TypeOK
<1>1. CASE UNCHANGED vars
  BY <1>0, <1>1, AgingStep DEF vars
<1>2. CASE Tick
  BY <1>0, <1>2, AgingStep DEF Tick
<1>3. CASE SweepSessions
  <2>1. sessions' \in [Requests \cup Users -> Session \cup {None}]
    BY <1>0, <1>3 DEF SweepSessions
  <2> QED
    BY <1>0, <1>3, <2>1, AgingStep DEF SweepSessions
<1>4. CASE SweepLinks
  <2>1. PICK t \in 0 .. now : links' = [l \in Requests |->
          IF links[l] # None /\ links[l].expires <= t THEN None ELSE links[l]]
    BY <1>4 DEF SweepLinks
  <2>2. links' \in [Requests -> Link \cup {None}]
    BY <1>0, <2>1
  <2>3. ASSUME NEW l \in Requests
        PROVE  links'[l] = links[l] \/ (links'[l] = None /\ links[l].expires <= now)
    <3>1. links[l] # None => links[l].expires \in Nat
      BY <1>0 DEF Link
    <3> QED
      BY <1>0, <2>1, <3>1
  <2> QED
    BY <1>0, <1>4, <2>2, <2>3, AgingStep DEF SweepLinks
<1>5. ASSUME NEW r \in Requests, Login(r) \/ Verify(r) PROVE IInv'
  BY <1>5, AskLinkStep, CountStep, SaveLinkStep, MailStep, FollowStep, ConsumeStep, EnterStep,
     SaveSessionStep DEF Login, Verify
<1>6. ASSUME NEW r \in Requests, Visit(r) \/ Evict(r) PROVE IInv'
  BY <1>6, PresentStep, ResolveStep, LogoutStep, EndStep DEF Visit, Answer, Evict, Become
<1>7. ASSUME NEW r \in Requests, Administer(r) PROVE IInv'
  BY <1>7, FindEmailStep, InsertStep, FindUserStep, CountAdminsStep, SaveUserStep DEF Administer
<1> QED
  BY <1>1, <1>2, <1>3, <1>4, <1>5, <1>6, <1>7 DEF Next

(* Tables, requests and history always agree as IInv says.                 *)
THEOREM SignInInvariant == Spec => []IInv
BY InitIInv, NextIInv, PTL DEF Spec

(* A link read by one request at a time opens one session at most.         *)
THEOREM LinkOpensOnce == Spec => []OneSessionPerLink
<1>1. IInv => OneSessionPerLink
  BY DEF IInv
<1> QED
  BY <1>1, SignInInvariant, PTL

(* The throttle bounds the links alive at a time.                          *)
THEOREM LinksAreBounded == Spec => []LinksBounded
<1>1. IInv => LinksBounded
  BY DEF IInv
<1> QED
  BY <1>1, SignInInvariant, PTL

(* The last active admin stays while changes do not overlap.               *)
THEOREM AdminRemains == Spec => []AnAdminRemains
<1>1. IInv => AnAdminRemains
  BY DEF IInv
<1> QED
  BY <1>1, SignInInvariant, PTL

(* Who was barred stays inactive.                                          *)
THEOREM BarredStaysOut == Spec => []BarredIsInactive
<1>1. IInv => BarredIsInactive
  BY DEF IInv
<1> QED
  BY <1>1, SignInInvariant, PTL

-----------------------------------------------------------------------------
(* Whoever gets past a check of isUserActive was active when it was made.  *)
LEMMA Checked ==
  ASSUME IInv, Next, NEW r \in Requests, req[r].pc # req'[r].pc,
         req'[r].pc \in {"count", "saveSession", "act"}
  PROVE  IsActive(users[req'[r].who])
<1>1. req \in [Requests -> Request] /\ req[r] \in Request
  BY DEF IInv, TypeOK
<1>2. ~Tick /\ ~SweepSessions /\ ~SweepLinks
  BY DEF Tick, SweepSessions, SweepLinks
<1>3. PICK s \in Requests : Login(s) \/ Verify(s) \/ Visit(s) \/ Administer(s) \/ Evict(s)
  BY <1>2 DEF Next
<1>4. s = r
  <2>1. \E x : req' = [req EXCEPT ![s] = x]
    BY <1>3 DEF Login, Verify, Visit, Administer, Evict, AskLink, Count, SaveLink, Mail, Follow,
         Consume, Enter, SaveSession, Present, Resolve, Logout, Answer, FindEmail, Insert, FindUser,
         CountAdmins, SaveUser, Become
  <2> QED
    BY <1>1, <2>1
<1>5. ASSUME NEW x, req' = [req EXCEPT ![r] = x] PROVE req'[r] = x
  BY <1>1, <1>5
<1> USE DEF Become, Idle, Over
<1>6. CASE Login(r)
  <2>1. CASE AskLink(r)
    BY <1>1, <2>1 DEF AskLink
  <2>2. CASE Count(r) \/ SaveLink(r) \/ Mail(r)
    BY <1>1, <2>2 DEF Count, SaveLink, Mail, Request
  <2> QED
    BY <1>6, <2>1, <2>2 DEF Login
<1>7. CASE Verify(r)
  <2>1. CASE Enter(r)
    BY <1>1, <2>1 DEF Enter, Request
  <2>2. ASSUME Follow(r) PROVE req'[r].pc \in {"consume", "over"}
    <3>1. PICK l : req' = [req EXCEPT ![r] =
            IF Usable(links[l], now)
            THEN [Idle EXCEPT !.pc = "consume", !.at = now, !.link = l, !.copy = links[l]] ELSE Over]
      BY <2>2 DEF Follow
    <3> QED
      BY <1>1, <3>1
  <2>3. ASSUME Consume(r) \/ SaveSession(r) PROVE req'[r].pc \in {"enter", "over"}
    <3>1. CASE Consume(r)
      <4>1. req'[r] = [req[r] EXCEPT !.pc = "enter", !.who = req[r].copy.user, !.copy = None]
        BY <1>1, <3>1 DEF Consume
      <4> QED
        BY <1>1, <4>1 DEF Request
    <3>2. CASE SaveSession(r)
      BY <1>1, <3>2 DEF SaveSession
    <3> QED
      BY <2>3, <3>1, <3>2
  <2> QED
    BY <1>7, <2>1, <2>2, <2>3 DEF Verify
<1>8. CASE Visit(r)
  <2>1. CASE Resolve(r)
    BY <1>1, <2>1 DEF Resolve, Request
  <2>2. ASSUME Present(r) PROVE req'[r].pc \in {"resolve", "over"}
    <3>1. PICK s1 : req' = [req EXCEPT ![r] =
            IF sessions[s1].expires <= now THEN Over
            ELSE [Idle EXCEPT !.pc = "resolve", !.who = sessions[s1].user]]
      BY <2>2 DEF Present
    <3> QED
      BY <1>1, <3>1
  <2>3. ASSUME Logout(r) \/ Answer(r) PROVE req'[r].pc = "over"
    BY <1>1, <2>3 DEF Logout, Answer
  <2> QED
    BY <1>8, <2>1, <2>2, <2>3 DEF Visit
<1>9. CASE Administer(r)
  <2>1. ASSUME FindEmail(r) PROVE req'[r].pc = "insert"
    <3>1. PICK u, role : req' = [req EXCEPT ![r] =
            [Idle EXCEPT !.pc = "insert", !.who = u, !.row = [role |-> role, active |-> TRUE]]]
      BY <2>1 DEF FindEmail
    <3> QED
      BY <1>1, <3>1
  <2>2. ASSUME FindUser(r) PROVE req'[r].pc \in {"countAdmins", "saveUser"}
    <3>1. PICK u, c : req' = [req EXCEPT ![r] =
            [Idle EXCEPT !.who = u, !.row = Applied(users[u], c), !.sets = c.active,
              !.pc = IF Lowers(users[u], Applied(users[u], c)) THEN "countAdmins" ELSE "saveUser"]]
      BY <2>2 DEF FindUser
    <3> QED
      BY <1>1, <3>1
  <2>3. ASSUME Insert(r) \/ CountAdmins(r) \/ SaveUser(r) PROVE req'[r].pc \in {"saveUser", "over"}
    BY <1>1, <2>3 DEF Insert, CountAdmins, SaveUser, Request
  <2> QED
    BY <1>9, <2>1, <2>2, <2>3 DEF Administer
<1>10. CASE Evict(r)
  BY <1>1, <1>10 DEF Evict
<1> QED
  BY <1>3, <1>4, <1>6, <1>7, <1>8, <1>9, <1>10

(* Nobody barred gets past a check, at sign-in or with an old session.     *)
THEOREM BarredNeverEnters == Spec => NobodyBarredEnters
<1> DEFINE A == \A r \in Requests :
      req[r].pc # req'[r].pc /\ req'[r].pc \in {"count", "saveSession", "act"}
      => req'[r].who \notin barred \ tangled
<1>1. IInv /\ [Next]_vars => [A]_vars
  <2> SUFFICES ASSUME IInv, Next PROVE A
    OBVIOUS
  <2> SUFFICES ASSUME NEW r \in Requests, req[r].pc # req'[r].pc,
                      req'[r].pc \in {"count", "saveSession", "act"}
               PROVE  req'[r].who \notin barred \ tangled
    OBVIOUS
  <2>1. IsActive(users[req'[r].who])
    BY Checked
  <2> QED
    BY <2>1 DEF IInv, BarredIsInactive, IsActive
<1> HIDE DEF A
<1>2. Spec => [][A]_vars
  BY <1>1, SignInInvariant, PTL DEF Spec
<1> QED
  BY <1>2 DEF NobodyBarredEnters, A
=============================================================================
