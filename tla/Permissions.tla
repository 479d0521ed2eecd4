---------------------------- MODULE Permissions ----------------------------
(***************************************************************************)
(* The rules administrators give a user, the viewer a request makes of     *)
(* them, and the two ways each right is decided: for one row that is at    *)
(* hand (policies/authorization.ts) and for a whole listing (the SQL of    *)
(* message-repository-queries.ts and mail-permission-queries.ts).          *)
(*                                                                         *)
(* Administration (user-calendar-permissions.ts, users.ts and              *)
(* user-template-permissions.ts) is find, then save or delete; overlapping *)
(* calls interleave between the two.  A request reads the user's role      *)
(* first, then the three tables of rules in any order (auth.ts), and       *)
(* decides everything by what it read.                                     *)
(*                                                                         *)
(* One user is followed, Me; or one API key, whose scopes never change.    *)
(* Addresses and patterns are model values, Covers says which addresses a  *)
(* pattern matches; LIKE and matchAddressPattern are the same relation.    *)
(***************************************************************************)
EXTENDS Naturals

CONSTANTS
    Calls,       \* calls of administrators; each mints at most one id, its own name
    Seed,        \* the id of a rule that is stored from the start
    Me, Owners,  \* the user, and every owner of calendars
    Domains, Addresses, Patterns, Covers,
    Star,        \* MATCH_ALL_ADDRESSES, "*"
    Mails,       \* a domain and the addresses of a mail, sender and recipients
    Targets,     \* what administrators make rules about
    Scopes,      \* the scopes a key may have
    Null

Tables == {"mail", "template", "calendar"}
Roles == {"ADMIN", "MEMBER", "VIEWER"}
Effects == {"ALLOW", "DENY"}
MailTarget == [table : {"mail"}, domain : Domains \cup {Null}, pattern : Patterns]
CalendarTarget == [table : {"calendar"}, capability : {"READ", "WRITE"},
                   owner : Owners \cup {Null}]
TemplateTarget == [table : {"template"}, capability : {"READ", "EDIT"}]
MailScope == [capability : {"MAIL_READ", "CONTACT_READ"},
              domain : Domains \cup {Null}, pattern : Patterns]

ASSUME PermissionsAssumption ==
    /\ Seed \notin Calls /\ Null \notin Owners \cup Domains
    /\ Me \in Owners
    /\ Star \in Patterns
    /\ Covers \in [Patterns -> SUBSET Addresses] /\ Covers[Star] = Addresses
    /\ Targets \subseteq MailTarget \cup CalendarTarget \cup TemplateTarget
    /\ Scopes \subseteq MailScope
    /\ Mails \subseteq [domain : Domains, addresses : (SUBSET Addresses) \ {{}}]

VARIABLES
    kind,      \* whether a user or a key is followed
    scopes,    \* the key's scopes
    role,      \* the user's row
    rules,     \* the rows of the three tables about this user
    calls,     \* calls of administrators and how far each has come
    viewer,    \* the request of the user, and what it has read
    \* History, read by no action:
    raced,     \* calls whose target changed between their two statements
    sometime,  \* rights held at some moment since the request began
    always,    \* rights held ever since
    torn       \* the role changed after the request read it

history == <<raced, sometime, always, torn>>
vars == <<kind, scopes, role, rules, calls, viewer, history>>

Ids == Calls \cup {Seed}
Rule == [id : Ids, target : Targets, effect : Effects]
Call == [at : {"save", "delete"}, id : Ids, target : Targets,
         effect : Effects]
Idle == [at |-> "idle"]
Over == [at |-> "over"]
NoViewer == [at |-> "idle"]
NoRules == [t \in Tables |-> {}]
NoRights == [t \in Tables |-> {}]

-----------------------------------------------------------------------------
(* Mail: one row at a time.                                                *)

MailCapabilities == {"MAIL_READ", "MAIL_MANAGE"}

\* roleGrantsCapability and mailAuthorizationRules: a VIEWER only reads.
MailRules(as, mailRules, capability) ==
    IF as = "VIEWER" /\ capability # "MAIL_READ" THEN {} ELSE mailRules

\* mailRuleMatches, and scopeMatches of api-key.ts.
Matches(rule, domain, address) ==
    /\ rule.domain \in {Null, domain}
    /\ address \in Covers[rule.pattern]

Applies(mailRules, effect, domain, address) ==
    \E r \in mailRules : r.effect = effect /\ Matches(r.target, domain, address)

AddressAllowed(baseline, mailRules, domain, address) ==
    /\ ~Applies(mailRules, "DENY", domain, address)
    /\ baseline \/ Applies(mailRules, "ALLOW", domain, address)

\* authorizesAnyAddress for a user.
UserMayMail(as, mailRules, capability, m) ==
    \E a \in m.addresses :
       AddressAllowed(as = "ADMIN", MailRules(as, mailRules, capability), m.domain, a)

\* scopesAuthorize: authorizesAnyAddress for a key.
KeyMayMail(held, capability, m) ==
    \E a \in m.addresses : \E s \in held :
       s.capability = capability /\ Matches(s, m.domain, a)

-----------------------------------------------------------------------------
(* Mail and address books: whole listings, as SQL conditions.              *)

PatternCondition(pattern, m) ==
    pattern = Star \/ \E a \in m.addresses : a \in Covers[pattern]

\* Fault: the condition of a rule leaves out the domain of the rule.
DomainlessCondition(rule, m) == PatternCondition(rule.pattern, m)

\* mailRuleCondition
RuleCondition(rule, m) ==
    /\ rule.domain \in {Null, m.domain}
    /\ PatternCondition(rule.pattern, m)

\* buildMailPermissionFilterCondition over mailPermissionListFilter: its
\* "NONE" is an empty disjunction, its null one that is not needed.
FilterCondition(as, mailRules, m) ==
    LET some(effect) == \E r \in mailRules : r.effect = effect /\ RuleCondition(r.target, m)
    IN  /\ as = "ADMIN" \/ some("ALLOW")
        /\ ~some("DENY")

\* readableAddressPatterns and allowedPatternsCondition.
AllowedCondition(held, capability, m) ==
    LET patterns == {s.pattern : s \in {x \in held : x.capability = capability}}
    IN  \E p \in patterns : PatternCondition(p, m)

\* scopedDomainIds: a scope without a domain lifts the restriction.
ScopedDomains(held, capability) ==
    LET of == {s.domain : s \in {x \in held : x.capability = capability}}
    IN  IF Null \in of THEN Domains ELSE of

\* buildMessageListFilter and the conditions made of it.
UserListsMail(as, mailRules, m) ==
    FilterCondition(as, MailRules(as, mailRules, "MAIL_READ"), m)
KeyListsMail(held, m) ==
    /\ m.domain \in ScopedDomains(held, "MAIL_READ")
    /\ AllowedCondition(held, "MAIL_READ", m)

\* An address book is the mail address it belongs to: a mail of one address.
Books == {m \in Mails : \E a \in Addresses : m.addresses = {a}}
\* listReadableAddressBooks: a key's books are found by its patterns alone.
KeyListsBook(held, b) == AllowedCondition(held, "CONTACT_READ", b)

-----------------------------------------------------------------------------
(* Calendars and templates.                                                *)

CalendarCapabilities == {"READ", "WRITE"}

\* ruleCovers
CalendarRules(calendarRules, capability, owner) ==
    {r \in calendarRules : /\ r.target.capability = capability
                           /\ r.target.owner \in {Null, owner}}

\* resolveUserCalendarCapability
MayCalendar(as, calendarRules, capability, owner) ==
    LET matching == CalendarRules(calendarRules, capability, owner)
    IN  /\ capability = "READ" \/ as # "VIEWER"
        /\ \A r \in matching : r.effect # "DENY"
        /\ \/ owner = Me
           \/ \E r \in matching : r.effect = "ALLOW"
           \/ as = "ADMIN"

\* listReadableCalendars: the candidates, then each one checked.
ListsCalendar(as, calendarRules, owner) ==
    /\ as = "ADMIN" \/ owner = Me
    /\ MayCalendar(as, calendarRules, "READ", owner)

\* resolveUserTemplateCapability
MayTemplate(as, templateRules, capability) ==
    LET matching == {r \in templateRules : r.target.capability = capability}
    IN  /\ \A r \in matching : r.effect # "DENY"
        /\ \/ \E r \in matching : r.effect = "ALLOW"
           \/ capability = "READ" \/ as = "ADMIN"

\* The rights a table decides, by the role and the rules of that table.
RightsOf(t, as, its) ==
    CASE t = "mail" -> {x \in MailCapabilities \X Mails : UserMayMail(as, its, x[1], x[2])}
      [] t = "calendar" -> {x \in CalendarCapabilities \X Owners : MayCalendar(as, its, x[1], x[2])}
      [] t = "template" -> {x \in {"READ", "EDIT"} : MayTemplate(as, its, x)}

Rights(as, all) == [t \in Tables |-> RightsOf(t, as, all[t])]

-----------------------------------------------------------------------------
(* Administration.                                                         *)

\* Fault: rows conflict only when their ids are equal.
SameId(r, s) == r.id = s.id

\* What makes two rows of a table the same rule: the unique indexes.
SameRule(r, s) == r.target = s.target /\ (r.target.table = "mail" => r.effect = s.effect)

\* Fault: the row that is already there is not looked for.
NotLookedFor(target) == {}

\* findByTarget, findByUserAndCapability; not called for a rule about mail.
Existing(target) ==
    {r \in rules[target.table] : r.target = target /\ target.table # "mail"}

\* createAddUserCalendarPermissionUseCase and its siblings: the id of the row
\* that is there is kept.  A rule about mail always gets an id of its own.
FindForAdd(c, target, effect) ==
    LET there == {r.id : r \in Existing(target)}
    IN  /\ kind = "USER" /\ calls[c] = Idle
        /\ \E id \in IF there = {} THEN {c} ELSE there :
              calls' = [calls EXCEPT ![c] = [at |-> "save", id |-> id,
                                             target |-> target, effect |-> effect]]
        /\ UNCHANGED <<kind, scopes, role, rules, viewer, history>>

\* createRemoveUserCalendarPermissionUseCase and its siblings.  An id that is
\* not there ends the call as not found.
FindForRemove(c) ==
    /\ kind = "USER" /\ calls[c] = Idle
    /\ \E t \in Tables : \E r \in rules[t] :
          calls' = [calls EXCEPT ![c] = [at |-> "delete", id |-> r.id,
                                         target |-> r.target, effect |-> r.effect]]
    /\ UNCHANGED <<kind, scopes, role, rules, viewer, history>>

\* History of a change to the user's rules while a request is being set up.
NoteRights(all) ==
    IF viewer.at = "loading" /\ ~torn
    THEN /\ sometime' = [t \in Tables |-> sometime[t] \cup RightsOf(t, role, all[t])]
         /\ always' = [t \in Tables |-> always[t] \cap RightsOf(t, role, all[t])]
    ELSE UNCHANGED <<sometime, always>>

\* The second statement of call c: the table of its target becomes table, the
\* call is over, and every other call about that target has been raced.
Settles(c, table) ==
    LET target == calls[c].target
        after == [rules EXCEPT ![target.table] = table]
    IN  /\ rules' = after
        /\ calls' = [calls EXCEPT ![c] = Over]
        /\ raced' = (raced \cup {d \in Calls : /\ calls[d].at \in {"save", "delete"}
                                               /\ calls[d].target = target}) \ {c}
        /\ NoteRights(after)
        /\ UNCHANGED <<kind, scopes, role, viewer, torn>>

\* INSERT ... ON CONFLICT(the target) DO UPDATE: a row that is there takes the
\* effect and keeps its id.  Rules about mail have no such clause, and the
\* statement fails when the same rule is there: the table stays as it is.
Saved(row) ==
    LET table == rules[row.target.table]
        same == {r \in table : SameRule(r, row)}
    IN  IF same = {} THEN table \cup {row}
        ELSE (table \ same) \cup {[r EXCEPT !.effect = row.effect] : r \in same}

RowOf(call) == [id |-> call.id, target |-> call.target, effect |-> call.effect]

Save(c) == calls[c].at = "save" /\ Settles(c, Saved(RowOf(calls[c])))

\* delete: the row of that id, if it is still there.
Delete(c) ==
    /\ calls[c].at = "delete"
    /\ Settles(c, {r \in rules[calls[c].target.table] : r.id # calls[c].id})

\* createSetUserRoleUseCase (its own races are in SignIn).
SetRole(as) ==
    /\ kind = "USER" /\ as # role
    /\ role' = as
    /\ IF viewer.at = "loading"
       THEN torn' = TRUE /\ sometime' = NoRights /\ always' = NoRights
       ELSE UNCHANGED <<sometime, always, torn>>
    /\ UNCHANGED <<kind, scopes, rules, calls, viewer, raced>>

-----------------------------------------------------------------------------
(* A request of the user.                                                  *)

\* createResolveViewerFromTokenUseCase, up to the user's row.
Begin ==
    /\ kind = "USER" /\ viewer.at = "idle"
    /\ viewer' = [at |-> "loading", role |-> role, unread |-> Tables, rules |-> NoRules]
    /\ sometime' = Rights(role, rules)
    /\ always' = Rights(role, rules)
    /\ torn' = FALSE
    /\ UNCHANGED <<kind, scopes, role, rules, calls, raced>>

\* Fault: a table of rules is left out of what a request reads.
NothingRead(t) == {}

\* listByUserId
TableRead(t) == rules[t]

\* The three listByUserId of one Promise.all, in any order.
Load(t) ==
    /\ viewer.at = "loading" /\ t \in viewer.unread
    /\ viewer' = [viewer EXCEPT
                    !.rules[t] = TableRead(t),
                    !.unread = @ \ {t},
                    !.at = IF viewer.unread = {t} THEN "ready" ELSE "loading"]
    /\ UNCHANGED <<kind, scopes, role, rules, calls, history>>

\* The request is answered; its viewer went with it (auth-middleware.ts).
Finish ==
    /\ viewer.at = "ready"
    /\ viewer' = NoViewer
    /\ sometime' = NoRights /\ always' = NoRights /\ torn' = FALSE
    /\ UNCHANGED <<kind, scopes, role, rules, calls, raced>>

Init ==
    /\ kind \in {"USER", "API_KEY"}
    /\ scopes \in SUBSET Scopes
    /\ kind = "USER" => scopes = {}
    /\ role \in Roles
    /\ rules \in {NoRules} \cup {[NoRules EXCEPT ![x.target.table] = {x}] :
                                   x \in [id : {Seed}, target : Targets, effect : Effects]}
    /\ kind = "API_KEY" => role = "ADMIN" /\ rules = NoRules
    /\ calls = [c \in Calls |-> Idle]
    /\ viewer = NoViewer
    /\ raced = {} /\ sometime = NoRights /\ always = NoRights /\ torn = FALSE

Next ==
    \/ \E c \in Calls : \/ \E target \in Targets, effect \in Effects :
                              FindForAdd(c, target, effect)
                        \/ FindForRemove(c) \/ Save(c) \/ Delete(c)
    \/ \E as \in Roles : SetRole(as)
    \/ Begin
    \/ \E t \in Tables : Load(t)
    \/ Finish

Spec == Init /\ [][Next]_vars

-----------------------------------------------------------------------------
(* Properties.                                                             *)

\* What every right is about.
AllRights(t) ==
    CASE t = "mail" -> MailCapabilities \X Mails
      [] t = "calendar" -> CalendarCapabilities \X Owners
      [] t = "template" -> {"READ", "EDIT"}

TypeOK ==
    /\ kind \in {"USER", "API_KEY"} /\ scopes \subseteq Scopes /\ role \in Roles
    /\ rules \in [Tables -> SUBSET Rule]
    /\ calls \in [Calls -> Call \cup {Idle, Over}]
    /\ \/ viewer = NoViewer
       \/ viewer \in [at : {"loading", "ready"}, role : Roles, unread : SUBSET Tables,
                      rules : [Tables -> SUBSET Rule]]
    /\ raced \subseteq Calls /\ torn \in BOOLEAN
    /\ sometime \in [Tables -> SUBSET UNION {AllRights(t) : t \in Tables}]
    /\ always \in [Tables -> SUBSET UNION {AllRights(t) : t \in Tables}]

\* A table holds rules of its own only, no two of them the same rule, and no
\* two of one id.
TableWhole(t) ==
    /\ \A r \in rules[t] : r.target.table = t
    /\ \A r, s \in rules[t] : r.id = s.id => r = s
    /\ \A r, s \in rules[t] : r.target = s.target /\ (t = "mail" => r.effect = s.effect) => r = s

InHand(c) == calls[c].at \in {"save", "delete"}

\* Every rule, and every call with an id in hand, is about the one target that
\* this id was minted for, so that an insert never meets its id on another row.
IdsKeepTargets ==
    /\ \A t, u \in Tables : \A r \in rules[t], s \in rules[u] :
          r.id = s.id => r.target = s.target
    /\ \A c \in Calls : InHand(c) => \A t \in Tables : \A r \in rules[t] :
          r.id = calls[c].id => r.target = calls[c].target
    /\ \A c, d \in Calls : InHand(c) /\ InHand(d) /\ calls[c].id = calls[d].id =>
          calls[c].target = calls[d].target

\* An id is found nowhere before its call has minted it; one minted for a rule
\* about mail, nowhere before it is stored.
IdsAreFresh ==
    \A c \in Calls :
       /\ calls[c] = Idle =>
             /\ \A t \in Tables : \A r \in rules[t] : r.id # c
             /\ \A d \in Calls : InHand(d) => calls[d].id # c
       /\ calls[c].at = "save" /\ calls[c].target.table = "mail" =>
             calls[c].id = c /\ \A t \in Tables : \A r \in rules[t] : r.id # c

\* A call that adds and has not been raced has the id in hand that is stored.
UnracedIdStored ==
    \A c \in Calls :
       calls[c].at = "save" /\ calls[c].target.table # "mail" /\ c \notin raced =>
          \A r \in rules[calls[c].target.table] :
             r.target = calls[c].target => r.id = calls[c].id

\* What a request has read of a table are rules of that table.
ReadWhole ==
    viewer.at # "idle" =>
       \A t \in Tables : \A r \in viewer.rules[t] : r.target.table = t

\* What an untorn request has read gives what it may give; what it has not
\* read yet, the user's rights of this moment, will too.
RequestOnTime ==
    viewer.at # "idle" /\ ~torn =>
       /\ viewer.at = "ready" => viewer.unread = {}
       /\ \A t \in Tables \ viewer.unread :
             LET given == RightsOf(t, viewer.role, viewer.rules[t])
             IN  always[t] \subseteq given /\ given \subseteq sometime[t]
       /\ viewer.at = "loading" =>
             /\ viewer.role = role
             /\ \A t \in Tables : LET held == RightsOf(t, role, rules[t])
                                  IN  always[t] \subseteq held /\ held \subseteq sometime[t]

\* What is in place at all times: types, the unique indexes and the ids
\* (migrations 0005, 0007 and 0008; the ON CONFLICT clauses), and what a
\* request has read so far.
IInv ==
    /\ TypeOK
    /\ \A t \in Tables : TableWhole(t)
    /\ IdsKeepTargets
    /\ IdsAreFresh
    /\ UnracedIdStored
    /\ ReadWhole
    /\ RequestOnTime

\* A listing shows a user nothing it may not open: no mail, no address book,
\* no calendar; and every address book it may open is listed.
UserListsOpenable ==
    kind = "USER" /\ viewer.at = "ready" =>
       LET mine == viewer.rules["mail"]
           dates == viewer.rules["calendar"]
           opens(m) == UserMayMail(viewer.role, mine, "MAIL_READ", m)
       IN  /\ \A m \in Mails : UserListsMail(viewer.role, mine, m) => opens(m)
           /\ \A b \in Books : opens(b) => UserListsMail(viewer.role, mine, b)
           /\ \A o \in Owners : ListsCalendar(viewer.role, dates, o)
                                    => MayCalendar(viewer.role, dates, "READ", o)

\* A listing hides no mail and no address book from a key that may open it.
KeyOpenableListed ==
    kind = "API_KEY" =>
       /\ \A m \in Mails : KeyMayMail(scopes, "MAIL_READ", m) => KeyListsMail(scopes, m)
       /\ \A b \in Books : KeyMayMail(scopes, "CONTACT_READ", b) => KeyListsBook(scopes, b)

\* Listings keep to the decisions on single rows: they show a user no more
\* than those allow, and a key no less (policies/authorization.ts against the
\* SQL of message-repository-queries.ts).
ListsKeepToRights == UserListsOpenable /\ KeyOpenableListed

\* A request is given every right the user held all the while it was being set
\* up, and none the user did not hold at some moment of it, although role and
\* rules are read by four statements; but for a role that changed between them.
ViewerTimely ==
    viewer.at = "ready" /\ ~torn =>
       \A t \in Tables :
          LET given == RightsOf(t, viewer.role, viewer.rules[t])
          IN  always[t] \subseteq given /\ given \subseteq sometime[t]

\* A call that adds a rule about a calendar or a template is answered with the
\* row that is stored, its id and its effect, unless another call wrote to the
\* same target after this one had looked for it.
AnswersTrue ==
    [][\A c \in Calls :
          calls[c].at = "save" /\ calls'[c] = Over
             /\ calls[c].target.table # "mail" /\ c \notin raced =>
          RowOf(calls[c]) \in rules'[calls[c].target.table]]_vars
=============================================================================
