----------------------------- MODULE CaldavSync -----------------------------
(***************************************************************************)
(* Keeping a calendar and its CalDAV collection the same: syncCalendar     *)
(* (usecases/caldav-sync.ts) with the client's listing and preconditions   *)
(* (caldav/caldav-client.ts), beside the requests that create, edit and    *)
(* delete events (usecases/calendar-events.ts) and other CalDAV clients.   *)
(*                                                                         *)
(* A step ends at a call whose effect the others can see: a write to the   *)
(* tables, a request to the server, a listing; a lookup by key is part of  *)
(* the step it decides.  An event stands for a calendar object with its    *)
(* UID and href; its content is the number of the edit that made it, on    *)
(* either side.  Time passes with edits: what a sync and an edit compare   *)
(* is which came first.                                                    *)
(***************************************************************************)
EXTENDS Naturals, FiniteSets

CONSTANTS
  Events,     \* UIDs
  Syncs,      \* callers of syncCalendar
  Requests,   \* requests for one change of one event each
  MaxObjects, \* MAX_OBJECTS_PER_SYNC
  MaxEdits,   \* bound: edits, local ones and those of other clients
  MaxFaults,  \* bound: syncs that fail half-way
  None

ASSUME NoneAssumption == None \notin Nat \cup Events
                         /\ None \notin [body : Nat, at : Nat, id : Nat]
                         /\ None \notin [etag : Nat, at : Nat]
                         /\ None \notin [body : Nat, rev : Nat]
ASSUME BoundsAssumption == MaxObjects \in Nat /\ MaxEdits \in Nat /\ MaxFaults \in Nat

VARIABLES
  local,   \* calendar_events: content, updatedAt, id
  state,   \* caldav_event_states: etag, lastSyncedAt
  tomb,    \* caldav_deletions: etag
  link,    \* caldav_calendars: syncToken, lastSyncedAt
  remote,  \* the collection: content (None: removed) and revision of each href
  rev,     \* the last revision of the collection
  clock,   \* edits so far
  born,    \* ids an event has had: a new row for a UID has a new id
  sync,    \* the callers of syncCalendar
  req,     \* the requests
  faults,  \* syncs that failed
  late,    \* history: events with an edit stamped before a sync began and not yet
           \* written then; all of them once two syncs overlap
  torn,    \* history: events deleted beside a sync or an edit, or whose row and state
           \* a failure came between
  cut      \* history: events whose change a sync left out that saved the token past it

vars == <<local, state, tomb, link, remote, rev, clock, born, sync, req, faults, late, torn, cut>>
table == <<local, state, tomb, link, born>>
server == <<remote, rev>>
world == <<clock, req, faults, late, torn, cut>>

Row == [body : Nat, at : Nat, id : Nat]
EventState == [etag : Nat, at : Nat]
Object == [body : Nat, rev : Nat]
SyncPcs == {"idle", "list", "fetch", "pull", "pulled", "drop", "push", "pushed",
            "resolve", "adopt", "adopted", "tombs", "untomb"}
Context == [pc : SyncPcs,
            now : Nat, token : Nat \cup {None}, linkAt : Nat \cup {None},
            hrefs : SUBSET Events, gone : SUBSET Events, \* the change set
            rest : SUBSET Events,                    \* what the slice left out of it
            present : SUBSET Events,                 \* what is not absentHrefs
            objs : [Events -> Object \cup {None}],   \* what multiget brought, left to do
            mine : [Events -> Row \cup {None}],      \* listByCalendar, left to do
            tombs : [Events -> Nat \cup {None}],     \* listDeletions, left to do
            event : Events \cup {None}, id : Nat, etag : Nat] \* the one in hand
Nothing == [u \in Events |-> None]
Idle == [pc |-> "idle", now |-> 0, token |-> None, linkAt |-> None, hrefs |-> {},
         gone |-> {}, rest |-> {}, present |-> {}, objs |-> Nothing, mine |-> Nothing, tombs |-> Nothing,
         event |-> None, id |-> 0, etag |-> 0]
Change == [pc : {"idle", "write", "delete", "done"}, event : Events \cup {None},
            at : Nat, id : Nat]
Settled == [pc |-> "done", event |-> None, at |-> 0, id |-> 0]

There(u) == remote[u].body # None
At(s, pc) == sync[s].pc = pc
Active == {s \in Syncs : ~At(s, "idle")}
InFlight(pc) == {u \in Events : \E r \in Requests : req[r].pc = pc /\ req[r].event = u}
Has(u, id) == local[u] # None /\ local[u].id = id
Left(f) == {u \in Events : f[u] # None}

-----------------------------------------------------------------------------
(* listChanges: what the report has since the token, all there is if the   *)
(* token is None.                                                          *)
Changed(token) == {u \in Events : There(u) /\ (token = None \/ remote[u].rev > token)}
Removed(token) == {u \in Events : ~There(u) /\ token # None /\ remote[u].rev > token}

(* isDirty *)
Dirty(row, st, linkAt) ==
  IF st # None THEN row.at > st.at ELSE IF linkAt # None THEN row.at > linkAt ELSE TRUE

(* If-None-Match: * or If-Match *)
Accepts(u, etag) == IF etag = None THEN ~There(u) ELSE There(u) /\ remote[u].rev = etag

-----------------------------------------------------------------------------
Init ==
  /\ local = Nothing /\ state = Nothing /\ tomb = Nothing
  /\ link = [token |-> None, at |-> None]
  /\ remote = [u \in Events |-> [body |-> None, rev |-> 0]]
  /\ rev = 0 /\ clock = 0 /\ faults = 0 /\ late = {} /\ torn = {} /\ cut = {}
  /\ born = [u \in Events |-> 0]
  /\ sync = [s \in Syncs |-> Idle]
  /\ req = [r \in Requests |-> [Settled EXCEPT !.pc = "idle"]]

(* syncCalendar: the link, and the instant that will be lastSyncedAt. *)
Begin(s) ==
  /\ At(s, "idle")
  /\ sync' = [sync EXCEPT ![s] = [Idle EXCEPT !.pc = "list", !.now = clock,
                                             !.token = link.token, !.linkAt = link.at]]
  /\ late' = IF Active # {} THEN Events ELSE late \cup InFlight("write")
  /\ torn' = torn \cup InFlight("delete")
  /\ UNCHANGED <<table, server, clock, req, faults, cut>>

(* pull: listChanges, by the report or, when the server refuses it, by a   *)
(* listing of everything; only MaxObjects of the changed objects are taken.       *)
List(s) == \E report \in BOOLEAN :
  LET token == IF report THEN sync[s].token ELSE None
      changed == Changed(token)
  IN  \E taken \in SUBSET changed :
  /\ At(s, "list")
  /\ Cardinality(taken) <= MaxObjects /\ (taken = changed \/ Cardinality(taken) = MaxObjects)
  /\ sync' = [sync EXCEPT ![s] = [@ EXCEPT
       !.pc = "fetch", !.token = IF report THEN rev ELSE None,
       !.hrefs = taken, !.gone = Removed(token), !.rest = changed \ taken,
       !.present = IF token = None /\ taken = changed THEN changed ELSE Events]]
  /\ UNCHANGED <<table, server, world>>

(* multigetEvents *)
Fetched(hrefs) == [u \in Events |-> IF u \in hrefs /\ There(u) THEN remote[u] ELSE None]
Fetch(s) ==
  /\ At(s, "fetch")
  /\ sync' = [sync EXCEPT ![s] = [@ EXCEPT !.pc = "pull", !.hrefs = {},
                                          !.objs = Fetched(sync[s].hrefs)]]
  /\ UNCHANGED <<table, server, world>>

(* upsertParsed: the event, dirty or not, *)
Adopt(s, u, pc) ==
  LET object == sync[s].objs[u]
      id == IF local[u] = None THEN born[u] + 1 ELSE local[u].id
  IN
  /\ local' = [local EXCEPT ![u] = [body |-> object.body, at |-> sync[s].now, id |-> id]]
  /\ born' = [born EXCEPT ![u] = IF local[u] = None THEN @ + 1 ELSE @]
  /\ sync' = [sync EXCEPT ![s] = [@ EXCEPT !.pc = pc, !.objs = [sync[s].objs EXCEPT ![u] = None],
                                          !.event = u, !.id = id, !.etag = object.rev]]
  /\ UNCHANGED <<state, tomb, link, server, world>>
PullEvent(s) == \E u \in Left(sync[s].objs) : At(s, "pull") /\ Adopt(s, u, "pulled")
AdoptEvent(s) == At(s, "adopt") /\ Adopt(s, sync[s].event, "adopted")

(* and its state, which the foreign key refuses if the event is gone.      *)
Conflicting(s) == IF sync[s].tombs = Nothing THEN "push" ELSE "untomb"
After(s) == IF At(s, "pulled") THEN "pull" ELSE IF At(s, "pushed") THEN "push" ELSE Conflicting(s)
SavedWith(s, at) ==
  LET u == sync[s].event IN
  /\ sync[s].pc \in {"pulled", "pushed", "adopted"} /\ Has(u, sync[s].id)
  /\ state' = [state EXCEPT ![u] = [etag |-> sync[s].etag, at |-> at]]
  /\ sync' = [sync EXCEPT ![s] = [@ EXCEPT !.pc = After(s), !.id = 0, !.etag = 0,
                !.rest = sync[s].rest \ {u}, !.event = IF After(s) = "untomb" THEN u ELSE None]]
  /\ cut' = cut \ {u}
  /\ UNCHANGED <<local, tomb, link, born, server, clock, req, faults, late, torn>>
SavedAtTheEnd(s) == SavedWith(s, clock) \* a defect: the instant of the save, not of the sync
SaveState(s) == SavedWith(s, sync[s].now)
RefuseState(s) ==
  /\ sync[s].pc \in {"pulled", "pushed", "adopted"} /\ ~Has(sync[s].event, sync[s].id)
  /\ sync' = [sync EXCEPT ![s] = Idle]
  /\ UNCHANGED <<table, server, world>>

(* What a full listing did not mention goes with what was reported gone, *)
Absent(s) ==
  /\ At(s, "pull") /\ sync[s].objs = Nothing
  /\ sync' = [sync EXCEPT ![s] = [@ EXCEPT !.pc = "drop", !.present = {},
                             !.gone = sync[s].gone \cup (Left(state) \ sync[s].present)]]
  /\ UNCHANGED <<table, server, world>>

(* deleteEvent, if there is a state for the href. *)
Drop(s) == \E u \in sync[s].gone :
  /\ At(s, "drop")
  /\ local' = IF state[u] = None THEN local ELSE [local EXCEPT ![u] = None]
  /\ state' = [state EXCEPT ![u] = None]
  /\ sync' = [sync EXCEPT ![s] = [@ EXCEPT !.gone = sync[s].gone \ {u}]]
  /\ cut' = cut \ {u}
  /\ UNCHANGED <<tomb, link, born, server, clock, req, faults, late, torn>>

-----------------------------------------------------------------------------
(* push: listByCalendar, *)
Load(s) ==
  /\ At(s, "drop") /\ sync[s].gone = {}
  /\ sync' = [sync EXCEPT ![s] = [@ EXCEPT !.pc = "push", !.mine = local]]
  /\ UNCHANGED <<table, server, world>>

(* and for each its state, then putEvent if it is dirty. *)
StateOf(row, u) == IF Has(u, row.id) THEN state[u] ELSE None
EtagOf(st) == IF st = None THEN None ELSE st.etag
ToPut(s) == {u \in Left(sync[s].mine) :
  LET row == sync[s].mine[u] IN Dirty(row, StateOf(row, u), sync[s].linkAt)}
Taken(s, u) == Accepts(u, EtagOf(StateOf(sync[s].mine[u], u)))
PushClean(s) == \E u \in Left(sync[s].mine) \ ToPut(s) :
  /\ At(s, "push")
  /\ sync' = [sync EXCEPT ![s] = [@ EXCEPT !.mine = [sync[s].mine EXCEPT ![u] = None]]]
  /\ UNCHANGED <<table, server, world>>
PutWith(s, etag) == \E u \in ToPut(s) :
  LET row == sync[s].mine[u] IN
  /\ At(s, "push") /\ Taken(s, u)
  /\ remote' = [remote EXCEPT ![u] = [body |-> row.body, rev |-> rev + 1]]
  /\ rev' = rev + 1
  /\ sync' = [sync EXCEPT ![s] = [@ EXCEPT !.pc = "pushed", !.mine = [sync[s].mine EXCEPT ![u] = None],
                                          !.event = u, !.id = row.id, !.etag = etag]]
  /\ UNCHANGED <<table, world>>
PutUnseen(s) == PutWith(s, None) \* a defect: the answer's etag is not taken
Put(s) == PutWith(s, rev + 1)
PutConflict(s) == \E u \in ToPut(s) :
  /\ At(s, "push") /\ ~Taken(s, u)
  /\ sync' = [sync EXCEPT ![s] = [@ EXCEPT !.pc = "resolve", !.event = u,
                                          !.mine = [sync[s].mine EXCEPT ![u] = None]]]
  /\ UNCHANGED <<table, server, world>>

(* resolveRemoteWins *)
Resolve(s) ==
  LET u == sync[s].event IN
  /\ At(s, "resolve")
  /\ sync' = [sync EXCEPT ![s] =
       IF There(u) THEN [@ EXCEPT !.pc = "adopt", !.objs = Fetched({u})]
       ELSE [@ EXCEPT !.pc = Conflicting(s), !.event = IF Conflicting(s) = "untomb" THEN u ELSE None]]
  /\ UNCHANGED <<table, server, world>>

-----------------------------------------------------------------------------
(* pushDeletions: listDeletions, *)
ListDeletions(s) ==
  /\ At(s, "push") /\ sync[s].mine = Nothing
  /\ sync' = [sync EXCEPT ![s] = [@ EXCEPT !.pc = "tombs", !.tombs = tomb]]
  /\ UNCHANGED <<table, server, world>>

(* deleteEvent of each, unless it has another etag by now, *)
DeleteRemote(s) == \E u \in Left(sync[s].tombs) :
  /\ At(s, "tombs") /\ (There(u) => remote[u].rev = sync[s].tombs[u])
  /\ remote' = IF There(u) THEN [remote EXCEPT ![u] = [body |-> None, rev |-> rev + 1]] ELSE remote
  /\ rev' = IF There(u) THEN rev + 1 ELSE rev
  /\ sync' = [sync EXCEPT ![s] = [@ EXCEPT !.pc = "untomb", !.event = u]]
  /\ UNCHANGED <<table, world>>
DeleteConflict(s) == \E u \in Left(sync[s].tombs) :
  /\ At(s, "tombs") /\ There(u) /\ remote[u].rev # sync[s].tombs[u]
  /\ sync' = [sync EXCEPT ![s] = [@ EXCEPT !.pc = "resolve", !.event = u]]
  /\ UNCHANGED <<table, server, world>>

(* and removeDeletion. *)
Untomb(s) ==
  LET u == sync[s].event IN
  /\ At(s, "untomb")
  /\ tomb' = [tomb EXCEPT ![u] = None]
  /\ sync' = [sync EXCEPT ![s] = [@ EXCEPT !.pc = "tombs", !.event = None,
                                          !.tombs = [sync[s].tombs EXCEPT ![u] = None]]]
  /\ UNCHANGED <<local, state, link, born, server, world>>

(* saveCalendarLink, with the token of the listing. *)
EndWith(s, token) ==
  /\ At(s, "tombs") /\ sync[s].tombs = Nothing
  /\ link' = [token |-> token, at |-> sync[s].now]
  /\ sync' = [sync EXCEPT ![s] = Idle]
  /\ cut' = cut \cup sync[s].rest
  /\ UNCHANGED <<local, state, tomb, born, server, clock, req, faults, late, torn>>
EndAhead(s) == EndWith(s, rev) \* a defect: the token of the end, past changes not pulled
End(s) == EndWith(s, sync[s].token)

(* A call throws, or the isolate is evicted. *)
Fail(s) ==
  /\ ~At(s, "idle") /\ faults < MaxFaults
  /\ sync' = [sync EXCEPT ![s] = Idle] /\ faults' = faults + 1
  /\ torn' = IF sync[s].pc \in {"pulled", "adopted"} THEN torn \cup {sync[s].event} ELSE torn
  /\ UNCHANGED <<table, server, clock, req, late, cut>>

-----------------------------------------------------------------------------
(* createCalendarEvent: a new UID; and the load of updateCalendarEvent,     *)
(* both with the instant that will be updatedAt;                           *)
BeginCreate(r) == \E u \in Events :
  /\ req[r].pc = "idle" /\ clock < MaxEdits /\ born[u] = 0 /\ remote[u].rev = 0
  /\ clock' = clock + 1
  /\ born' = [born EXCEPT ![u] = 1]
  /\ req' = [req EXCEPT ![r] = [pc |-> "write", event |-> u, at |-> clock + 1, id |-> 1]]
  /\ UNCHANGED <<local, state, tomb, link, server, sync, faults, late, torn, cut>>
BeginEdit(r) == \E u \in Events :
  /\ req[r].pc = "idle" /\ clock < MaxEdits /\ local[u] # None
  /\ clock' = clock + 1
  /\ req' = [req EXCEPT ![r] = [pc |-> "write", event |-> u, at |-> clock + 1, id |-> local[u].id]]
  /\ torn' = IF u \in InFlight("delete") THEN torn \cup {u} ELSE torn
  /\ UNCHANGED <<table, server, sync, faults, late, cut>>

(* then the write by id: the row comes back if it was deleted, and the      *)
(* unique UID refuses it if the UID has another row by then.               *)
Write(r) ==
  LET q == req[r] IN
  /\ q.pc = "write"
  /\ local' = IF local[q.event] = None \/ Has(q.event, q.id)
              THEN [local EXCEPT ![q.event] = [body |-> q.at, at |-> q.at, id |-> q.id]]
              ELSE local
  /\ req' = [req EXCEPT ![r] = Settled]
  /\ UNCHANGED <<state, tomb, link, born, server, clock, sync, faults, late, torn, cut>>

(* deleteCalendarEvent: the tombstone of a synced event, then its row.     *)
BeginDelete(r) == \E u \in Events :
  /\ req[r].pc = "idle" /\ local[u] # None
  /\ tomb' = IF state[u] = None THEN tomb ELSE [tomb EXCEPT ![u] = state[u].etag]
  /\ req' = [req EXCEPT ![r] = [pc |-> "delete", event |-> u, at |-> 0, id |-> local[u].id]]
  /\ torn' = IF Active = {} /\ u \notin InFlight("write") THEN torn ELSE torn \cup {u}
  /\ UNCHANGED <<local, state, link, born, server, clock, sync, faults, late, cut>>
Delete(r) ==
  LET q == req[r] IN
  /\ q.pc = "delete"
  /\ local' = IF Has(q.event, q.id) THEN [local EXCEPT ![q.event] = None] ELSE local
  /\ state' = IF Has(q.event, q.id) THEN [state EXCEPT ![q.event] = None] ELSE state
  /\ req' = [req EXCEPT ![r] = Settled]
  /\ UNCHANGED <<tomb, link, born, server, clock, sync, faults, late, torn, cut>>

(* Another client of the collection writes or removes an object. *)
RemoteWrite(u) ==
  /\ clock < MaxEdits /\ (remote[u].rev # 0 \/ born[u] = 0)
  /\ clock' = clock + 1 /\ rev' = rev + 1
  /\ remote' = [remote EXCEPT ![u] = [body |-> clock + 1, rev |-> rev + 1]]
  /\ UNCHANGED <<table, sync, req, faults, late, torn, cut>>
RemoteRemove(u) ==
  /\ clock < MaxEdits /\ There(u)
  /\ clock' = clock + 1 /\ rev' = rev + 1
  /\ remote' = [remote EXCEPT ![u] = [body |-> None, rev |-> rev + 1]]
  /\ UNCHANGED <<table, sync, req, faults, late, torn, cut>>

Pull(s) == List(s) \/ Fetch(s) \/ PullEvent(s) \/ Absent(s) \/ Drop(s)
Push(s) == Load(s) \/ PushClean(s) \/ Put(s) \/ PutConflict(s)
PushDeletions(s) == ListDeletions(s) \/ DeleteRemote(s) \/ DeleteConflict(s) \/ Untomb(s)
Sync(s) == \/ Begin(s) \/ Pull(s) \/ Push(s) \/ PushDeletions(s) \/ End(s)
           \/ Resolve(s) \/ AdoptEvent(s) \/ SaveState(s) \/ RefuseState(s)
Request(r) == BeginCreate(r) \/ BeginEdit(r) \/ Write(r) \/ BeginDelete(r) \/ Delete(r)

Next ==
  \/ \E s \in Syncs : Sync(s) \/ Fail(s)
  \/ \E r \in Requests : Request(r)
  \/ \E u \in Events : RemoteWrite(u) \/ RemoteRemove(u)

Spec == Init /\ [][Next]_vars

(* Somebody goes on syncing the calendar. *)
FairSpec == Spec /\ \A s \in Syncs : WF_vars(Sync(s))

-----------------------------------------------------------------------------
(* Types of every variable. *)
TypeOK ==
  /\ local \in [Events -> Row \cup {None}]
  /\ state \in [Events -> EventState \cup {None}]
  /\ tomb \in [Events -> Nat \cup {None}]
  /\ link \in [token : Nat \cup {None}, at : Nat \cup {None}]
  /\ remote \in [Events -> [body : Nat \cup {None}, rev : Nat]]
  /\ rev \in Nat /\ clock \in Nat /\ faults \in Nat
  /\ born \in [Events -> Nat]
  /\ sync \in [Syncs -> Context]
  /\ req \in [Requests -> Change]
  /\ late \subseteq Events /\ torn \subseteq Events /\ cut \subseteq Events

(* An event that is clean, and whose etag is still the remote object's, has *)
(* the remote content: what isDirty takes for clean needs no push.         *)
CleanIsSynced == \A u \in Events \ late :
  /\ local[u] # None /\ state[u] # None
  /\ local[u].at <= state[u].at /\ state[u].etag = remote[u].rev
  => remote[u].body = local[u].body

(* What keeps it so.  A revision of an object has one content; *)
Bounded == \A u \in Events :
  /\ remote[u].rev <= rev
  /\ state[u] # None => state[u].etag <= remote[u].rev /\ state[u].at <= clock

(* syncs run one at a time;                                                *)
OneAtATime == \A s, t \in Active : s # t => late = Events

(* an edit that is written later than a state was saved is stamped later;  *)
Stamped == \A r \in Requests : req[r].pc = "write" =>
  /\ req[r].event \in Events
  /\ req[r].event \notin late =>
       /\ \A s \in Active : sync[s].now < req[r].at
       /\ state[req[r].event] # None => state[req[r].event].at < req[r].at

(* what a sync fetched is not older than what it had, and its content is   *)
(* still the remote's if its revision is;                                  *)
FetchedSound(s) == \A u \in Events : sync[s].objs[u] # None =>
  /\ sync[s].objs[u].rev <= remote[u].rev
  /\ sync[s].objs[u].rev = remote[u].rev => sync[s].objs[u].body = remote[u].body
  /\ sync[s].pc \in {"pull", "pulled", "adopt"} /\ state[u] # None /\ u \notin late
       => state[u].etag <= sync[s].objs[u].rev

(* what it loaded to push is what is there, but for later edits;           *)
LoadedSound(s) == \A u \in Events \ late :
  /\ sync[s].mine[u] # None /\ local[u] # None /\ local[u].at <= sync[s].now
  => local[u].body = sync[s].mine[u].body

(* and the event whose state it will save has the remote's content if the  *)
(* revision is still the remote's, but for later edits.                    *)
HandSound(s) == sync[s].pc \in {"pulled", "pushed", "adopted"} =>
  LET u == sync[s].event IN
  /\ sync[s].pc = "pulled" => sync[s].objs[u] = None
  /\ sync[s].etag <= remote[u].rev
  /\ u \notin late /\ local[u] # None /\ local[u].at <= sync[s].now
     /\ sync[s].etag = remote[u].rev
     => local[u].body = remote[u].body

Stages(s) ==
  /\ sync[s].now <= clock
  /\ sync[s].pc \in {"list", "fetch", "pull", "pulled", "drop"}
     => sync[s].mine = Nothing /\ sync[s].tombs = Nothing
  /\ sync[s].tombs # Nothing => sync[s].mine = Nothing
  /\ sync[s].pc \in {"pulled", "pushed", "resolve", "adopt", "adopted", "untomb"}
     => sync[s].event \in Events
  /\ sync[s].pc \in {"resolve", "adopt"} => sync[s].mine[sync[s].event] = None
  /\ sync[s].pc = "adopt" => sync[s].objs[sync[s].event] # None
SyncSound(s) == Stages(s) /\ FetchedSound(s) /\ LoadedSound(s) /\ HandSound(s)

(* The inductive invariant: all of these together. *)
IInv == /\ TypeOK /\ CleanIsSynced /\ Bounded /\ OneAtATime /\ Stamped
        /\ \A s \in Active : SyncSound(s)

(* Both sides end up with the same, once the edits have come to an end,    *)
(* through failures between any two calls and change sets of more than     *)
(* MaxObjects.  What a sync that came to its end left out of such a set is *)
(* lost to the other side until it changes again: no sync that follows     *)
(* continues there.                                                        *)
Same(u) == IF local[u] = None THEN ~There(u) ELSE remote[u].body = local[u].body
Converges == <>[](\A u \in Events \ (late \cup torn \cup cut) : Same(u))
=============================================================================
