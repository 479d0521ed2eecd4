------------------------------ MODULE Mailbox ------------------------------
(***************************************************************************)
(* A signed-in browser's mailbox beside the mail it shows.                 *)
(*                                                                         *)
(* The browser keeps a list of messages, a cursor, a selection and a       *)
(* loading flag (apps/web/src/store/app-store.ts).  A gesture patches the  *)
(* list at once, sends a request, and undoes the patch when the request    *)
(* fails; a success is followed by a fresh first page.  Nothing in the     *)
(* store orders the requests: any number may be under way, and each        *)
(* answer is handled when it comes.  The service runs the use cases of     *)
(* messages.ts and tagging.ts, one await at a time, over the rows of       *)
(* message-repository.ts; other clients and arriving mail change the same  *)
(* rows.                                                                   *)
(*                                                                         *)
(* A message is a natural number, its place in the order (occurred_at, id) *)
(* that every listing descends and that a cursor names.  All messages are  *)
(* inbound and readable by the viewer (policies are in Permissions).       *)
(***************************************************************************)
EXTENDS Naturals, Sequences, FiniteSets

CONSTANTS
    Msgs,          \* the messages that exist or may arrive
    Stored,        \* those stored from the start
    PageSize,      \* PAGE_SIZE of the store
    Folders,       \* folders the user visits
    Deeds,         \* what the user does to a selection
    MaxCalls,      \* bound: requests of the browser
    MaxForeign     \* bound: arrivals and changes by other clients

ASSUME MailboxAssumption ==
    /\ Msgs \subseteq Nat \ {0} /\ IsFiniteSet(Msgs)
    /\ Stored \subseteq Msgs
    /\ PageSize \in Nat \ {0}
    /\ Folders \subseteq {"INBOX", "SPAM", "TRASH", "ARCHIVED"} /\ "INBOX" \in Folders
    /\ Deeds \subseteq {"spam", "notSpam", "read", "unread", "delete"}
    /\ MaxCalls \in Nat /\ MaxForeign \in Nat

VARIABLES
    mail,       \* the row of every message, its spam mark and its system tags
    view,       \* view and unreadOnly: which list the page's title names
    shown,      \* messages: the list on the screen
    cursor,     \* cursor: where the next page begins, NoCursor when none
    loading,    \* loading: disables "load more"
    selected,   \* selectedIds
    calls,      \* the browser's requests and how far each has come
    foreign,    \* how many changes others made
    \* History, read by no action:
    version,    \* counts the changes of mail
    onScreen,   \* what the list shows: its view, version, end and members
    tangled,    \* the list was put together from pieces of different lists
    unfair      \* messages destroyed by a delete that found them untrashed

client == <<view, shown, cursor, loading, selected>>
history == <<version, onScreen, tangled, unfair>>
mailboxVars == <<mail, client, calls, foreign, history>>

NoCursor == 0
Call == 1 .. MaxCalls
Views == [folder : Folders, unreadOnly : BOOLEAN]
Row == [state : {"coming", "stored", "gone"},
        spam : BOOLEAN, tags : SUBSET {"TRASH", "ARCHIVED"}, read : BOOLEAN]
Item == [id : Msgs, spam : BOOLEAN, read : BOOLEAN]
NoView == [folder |-> "", unreadOnly |-> FALSE]
(* A request: what it does, to which messages, the list to restore, the    *)
(* view and cursor of its query, and the rows the service is holding.      *)
NoCall == [pc |-> "idle", deed |-> "", ids |-> {}, before |-> <<>>,
         purge |-> {}, tag |-> {}, of |-> NoView, after |-> NoCursor, page |-> <<>>,
         next |-> NoCursor, version |-> 0, members |-> {}, due |-> {},
         stale |-> FALSE, clears |-> FALSE]
Over == [NoCall EXCEPT !.pc = "over"]

IsStored(m) == mail[m].state = "stored"
Trashed(m) == "TRASH" \in mail[m].tags
Underway(c) == calls[c].pc \notin {"idle", "over"}
Ids(list) == {list[i].id : i \in DOMAIN list}

----------------------------------------------------------------------------
(* The listing *)

(* What the browser asks for: the inbox is every inbound message, Spam a   *)
(* verdict, and the other folders are system tags.                         *)
viewToFilter(v) ==
    [spamOnly |-> v.folder = "SPAM",
     systemSlugs |-> {v.folder} \cap {"TRASH", "ARCHIVED"},
     unreadOnly |-> v.unreadOnly]

(* What the service makes of it: spam is left out of everything but Spam,  *)
(* and Trash out of everything but Trash.                                  *)
MessageListFilter(input) ==
    [spam |-> input.spamOnly,
     tags |-> input.systemSlugs,
     excludeTags |-> {"TRASH"} \ input.systemSlugs,
     unreadOnly |-> input.unreadOnly]

Matches(filter, row) ==
    /\ row.state = "stored"
    /\ row.spam = filter.spam
    /\ filter.tags = {} \/ filter.tags \cap row.tags # {}
    /\ filter.excludeTags \cap row.tags = {}
    /\ filter.unreadOnly => ~row.read

Lists(v, row) == Matches(MessageListFilter(viewToFilter(v)), row)

InView(v) == {m \in Msgs : Lists(v, mail[m])}

(* The elements of a finite set of numbers, smallest first. *)
Ascending(S) == CHOOSE list \in [1 .. Cardinality(S) -> S] :
    /\ \A i, j \in DOMAIN list : i < j => list[i] < list[j]
    /\ \A x \in S : \E i \in DOMAIN list : list[i] = x

Newest(S) ==
    LET n == Cardinality(S) IN [i \in 1 .. n |-> Ascending(S)[n + 1 - i]]

(* Fault: the row at the cursor is listed once more. *)
RowsFrom(v, after) ==
    LET sorted == Newest({m \in InView(v) : after = NoCursor \/ m <= after})
    IN  SubSeq(sorted, 1, IF Len(sorted) > PageSize THEN PageSize + 1
                                                    ELSE Len(sorted))

(* buildMessageListQuery: the rows below the cursor, newest first, one     *)
(* more than a page holds.                                                 *)
RowsBelow(v, after) ==
    LET below == {m \in InView(v) : after = NoCursor \/ m < after}
        sorted == Newest(below)
    IN  SubSeq(sorted, 1, IF Len(sorted) > PageSize THEN PageSize + 1
                                                    ELSE Len(sorted))

PageOf(rows) == SubSeq(rows, 1, IF Len(rows) > PageSize THEN PageSize
                                                        ELSE Len(rows))

(* Fault: the cursor names the extra row, which then opens no page. *)
ExtraRowCursor(rows) ==
    IF Len(rows) > PageSize THEN rows[PageSize + 1] ELSE NoCursor

NextCursor(rows) ==
    IF Len(rows) > PageSize THEN rows[PageSize] ELSE NoCursor

Node(m) == [id |-> m, spam |-> mail[m].spam, read |-> mail[m].read]

----------------------------------------------------------------------------
(* Bookkeeping of the history variables *)

(* Every change of rows makes a new version.  The members of the list, and *)
(* of a page on its way, are the messages that have been in its view since *)
(* it was read: what leaves the view leaves them.                          *)
StillIn(S, v, rows) == {m \in S : Lists(v, rows[m])}

MailChanges(rows, cs) ==
    /\ mail' = rows
    /\ version' = version + 1
    /\ calls' = [c \in Call |-> IF cs[c].pc # "paged" THEN cs[c] ELSE
                    [cs[c] EXCEPT !.members = StillIn(@, cs[c].of, rows)]]
    /\ onScreen' = [onScreen EXCEPT !.members = StillIn(@, onScreen.of, rows)]

(* The list is rewritten: a pending rollback would restore an older one.   *)
Rewritten(cs) == [c \in Call |-> [cs[c] EXCEPT !.stale = cs[c].deed # ""]]

----------------------------------------------------------------------------
(* Gestures *)

FreshCall(c) == calls[c].pc = "idle" /\ \A d \in Call : d < c => calls[d].pc # "idle"

(* fetchPage: the query carries the view of this moment.                   *)
Asking(v, after) == [NoCall EXCEPT !.pc = "asked", !.of = v, !.after = after]

(* setView drops the selection and the cursor and fetches the first page;  *)
(* the old list stays on the screen until it comes.                        *)
SetView(c, folder) ==
    /\ FreshCall(c)
    /\ view' = [folder |-> folder, unreadOnly |-> FALSE]
    /\ selected' = {}
    /\ cursor' = NoCursor
    /\ loading' = TRUE
    /\ calls' = [calls EXCEPT ![c] = Asking(view', NoCursor)]
    /\ UNCHANGED <<mail, shown, foreign, history>>

(* setUnreadOnly keeps the selection. *)
SetUnreadOnly(c) ==
    /\ FreshCall(c)
    /\ view' = [view EXCEPT !.unreadOnly = ~@]
    /\ cursor' = NoCursor
    /\ loading' = TRUE
    /\ calls' = [calls EXCEPT ![c] = Asking(view', NoCursor)]
    /\ UNCHANGED <<mail, shown, selected, foreign, history>>

ReloadMessages(c) ==
    /\ FreshCall(c)
    /\ cursor' = NoCursor
    /\ loading' = TRUE
    /\ calls' = [calls EXCEPT ![c] = Asking(view, NoCursor)]
    /\ UNCHANGED <<mail, view, shown, selected, foreign, history>>

LoadMore(c) ==
    /\ FreshCall(c)
    /\ cursor # NoCursor /\ ~loading
    /\ loading' = TRUE
    /\ calls' = [calls EXCEPT ![c] = Asking(view, cursor)]
    /\ UNCHANGED <<mail, view, shown, cursor, selected, foreign, history>>

ToggleSelection(id) ==
    /\ id \in Ids(shown)
    /\ selected' = IF id \in selected THEN selected \ {id} ELSE selected \cup {id}
    /\ UNCHANGED <<mail, view, shown, cursor, loading, calls, foreign, history>>

SelectAll ==
    /\ selected' = Ids(shown)
    /\ UNCHANGED <<mail, view, shown, cursor, loading, calls, foreign, history>>

ClearSelection ==
    /\ selected' = {}
    /\ UNCHANGED <<mail, view, shown, cursor, loading, calls, foreign, history>>

(* The marks a deed leaves, on a row or on its copy in the list. *)
Marked(deed, row) ==
    CASE deed = "spam" -> [row EXCEPT !.spam = TRUE]
      [] deed = "notSpam" -> [row EXCEPT !.spam = FALSE]
      [] deed = "read" -> [row EXCEPT !.read = TRUE]
      [] deed = "unread" -> [row EXCEPT !.read = FALSE]
      [] deed = "archive" -> [row EXCEPT !.tags = @ \cup {"ARCHIVED"}]

Remaining(list, ids) ==
    LET kept == Ascending({i \in DOMAIN list : list[i].id \notin ids})
    IN  [i \in DOMAIN kept |-> list[kept[i]]]

PatchedList(deed, ids) ==
    IF deed = "delete" THEN Remaining(shown, ids)
    ELSE [i \in DOMAIN shown |-> IF shown[i].id \in ids
                                 THEN Marked(deed, shown[i]) ELSE shown[i]]

(* A delete may destroy what Trash holds when it is asked for, or what     *)
(* another delete names that is under way beside it.                       *)
Deleting(c) == Underway(c) /\ calls[c].deed = "delete"
Allowed(ids) == {m \in ids : Trashed(m) \/ \E d \in Call : Deleting(d) /\ m \in calls[d].ids}
Overlapping(ids) == [c \in Call |-> IF Deleting(c) THEN
                        [calls[c] EXCEPT !.due = @ \cup (ids \cap calls[c].ids)] ELSE calls[c]]

(* mutateSelected and deleteSelected: patch the list, remember the one     *)
(* before, send the request.                                               *)
Mutate(c, deed) ==
    /\ FreshCall(c)
    /\ selected # {}
    /\ shown' = PatchedList(deed, selected)
    /\ calls' = [Rewritten(IF deed = "delete" THEN Overlapping(selected) ELSE calls)
                    EXCEPT ![c] = [NoCall EXCEPT !.pc = "sent", !.deed = deed,
                        !.ids = selected, !.before = shown, !.due =
                            IF deed = "delete" THEN Allowed(selected) ELSE {}]]
    /\ onScreen' = [onScreen EXCEPT !.members =
                        IF deed = "delete" THEN @ \ selected ELSE @]
    /\ UNCHANGED <<mail, view, cursor, loading, selected, foreign, version, tangled, unfair>>

(* setArchived, through setSystemTagged: no patch, and nothing to undo.    *)
(* When it is over, however it went, the page clears the selection.        *)
SetArchived(c) ==
    /\ FreshCall(c)
    /\ selected # {}
    /\ calls' = [calls EXCEPT ![c] = [NoCall EXCEPT !.pc = "sent", !.deed = "archive",
                                        !.ids = selected]]
    /\ UNCHANGED <<mail, client, foreign, history>>

----------------------------------------------------------------------------
(* The service *)

Go(c, pc) == [calls EXCEPT ![c].pc = pc]

Refuse(c) ==
    /\ calls' = Go(c, "refused")
    /\ UNCHANGED <<mail, version, onScreen>>

(* loadReadableMessages: what no longer exists drops out of the request;   *)
(* a request left with nothing changes nothing.                            *)
Load(c) ==
    /\ calls[c].pc = "sent"
    /\ LET found == {m \in calls[c].ids : IsStored(m)} IN
       calls' = [calls EXCEPT ![c].purge = found,
                    ![c].pc = IF found = {} THEN "answered"
                              ELSE IF calls[c].deed = "delete" THEN "tags" ELSE "apply"]
    /\ UNCHANGED <<mail, client, foreign, history>>

(* setRead, setSpamMarks, clearSpamMarks and addTags.  A mark and a tag    *)
(* reference their message: one purged meanwhile fails the whole batch.    *)
Apply(c) ==
    /\ calls[c].pc = "apply"
    /\ LET deed == calls[c].deed
           live == {m \in calls[c].purge : IsStored(m)}
       IN  IF deed \in {"spam", "archive"} /\ live # calls[c].purge
           THEN Refuse(c)
           ELSE MailChanges([m \in Msgs |-> IF m \in live THEN Marked(deed, mail[m])
                                                          ELSE mail[m]],
                            Go(c, "answered"))
    /\ UNCHANGED <<client, foreign, tangled, unfair>>

(* deleteMessages asks which of the messages carry the Trash tag: those    *)
(* are to be purged, the others get the tag.                               *)
EveryStored(ids) == {m \in ids : IsStored(m)}     \* fault: one stage

AlreadyTrashed(ids) == {m \in ids : IsStored(m) /\ Trashed(m)}

ReadTags(c) ==
    /\ calls[c].pc = "tags"
    /\ LET found == calls[c].purge
           purge == AlreadyTrashed(found)
       IN  calls' = [calls EXCEPT ![c].purge = purge, ![c].tag = found \ purge,
                        ![c].pc = IF purge = found THEN "purge" ELSE "trash"]
    /\ UNCHANGED <<mail, client, foreign, history>>

(* addTags, one batch: a message purged meanwhile fails it. *)
AddTrashTags(c) ==
    /\ calls[c].pc = "trash"
    /\ IF \E m \in calls[c].tag : ~IsStored(m)
       THEN Refuse(c)
       ELSE MailChanges([m \in Msgs |-> IF m \in calls[c].tag
                            THEN [mail[m] EXCEPT !.tags = @ \cup {"TRASH"}] ELSE mail[m]],
                        Go(c, IF calls[c].purge = {} THEN "answered" ELSE "purge"))
    /\ UNCHANGED <<client, foreign, tangled, unfair>>

(* hardDeleteMessages: by the ids decided on before. *)
Purge(c) ==
    /\ calls[c].pc = "purge"
    /\ LET gone == {m \in calls[c].purge : IsStored(m)} IN
       /\ MailChanges([m \in Msgs |-> IF m \in gone
                            THEN [mail[m] EXCEPT !.state = "gone"] ELSE mail[m]],
                      Go(c, "answered"))
       /\ unfair' = unfair \cup (gone \ calls[c].due)
    /\ UNCHANGED <<client, foreign, tangled>>

(* list: one page of the view the query named. *)
List(c) ==
    /\ calls[c].pc = "asked"
    /\ LET rows == RowsBelow(calls[c].of, calls[c].after)
           page == PageOf(rows)
       IN  calls' = [calls EXCEPT ![c].pc = "paged",
                        ![c].page = [i \in DOMAIN page |-> Node(page[i])],
                        ![c].next = NextCursor(rows),
                        ![c].version = version,
                        ![c].members = InView(calls[c].of)]
    /\ UNCHANGED <<mail, client, foreign, history>>

(* A request is lost, the service evicted, or the answer lost: whatever    *)
(* was done stays done, and the browser is told of a failure.              *)
Fail(c) ==
    /\ calls[c].pc \in {"sent", "apply", "tags", "trash", "purge", "answered"}
    /\ calls' = [calls EXCEPT ![c].pc = "refused", ![c].purge = {}, ![c].tag = {},
                              ![c].due = {}]
    /\ UNCHANGED <<mail, client, foreign, history>>

----------------------------------------------------------------------------
(* Answers *)

(* A failed mutation puts back the list as it was before its patch. *)
NotRolledBack(c) == shown     \* fault: the patch stays

RolledBack(c) == calls[c].before

HandleRefused(c) ==
    /\ calls[c].pc = "refused" /\ calls[c].deed # "archive"
    /\ shown' = RolledBack(c)
    /\ calls' = [Rewritten(calls) EXCEPT ![c] = Over]
    /\ tangled' = (tangled \/ calls[c].stale)
    /\ UNCHANGED <<mail, view, cursor, loading, selected, foreign, version, onScreen, unfair>>

ArchiveRefused(c) ==
    /\ calls[c].pc = "refused" /\ calls[c].deed = "archive"
    /\ selected' = {}
    /\ calls' = [calls EXCEPT ![c] = Over]
    /\ UNCHANGED <<mail, view, shown, cursor, loading, foreign, history>>

(* A successful one re-reads the first page of the view of this moment;    *)
(* a delete clears the selection, an archive only once the page is there.  *)
Deselected(c) == IF calls[c].deed = "delete" THEN {} ELSE selected
Rereads(c) == [Asking(view, NoCursor) EXCEPT !.clears = calls[c].deed = "archive"]
HandleDone(c) ==
    /\ calls[c].pc = "answered"
    /\ selected' = Deselected(c)
    /\ loading' = TRUE
    /\ calls' = [calls EXCEPT ![c] = Rereads(c)]
    /\ UNCHANGED <<mail, view, shown, cursor, foreign, history>>

(* A page replaces the list or is appended to it, and ends the loading,    *)
(* whichever request is the one under way.                                 *)
Joined(c) == IF calls[c].after = NoCursor THEN calls[c].page
                                          ELSE shown \o calls[c].page

(* A page comes too late when the list shows something newer, or does not  *)
(* end where the page begins.                                              *)
TooLate(c) ==
    \/ calls[c].version < onScreen.version
    \/ /\ calls[c].after # NoCursor
       /\ tangled \/ calls[c].after # onScreen.end \/ calls[c].of # onScreen.of

HandlePage(c) ==
    /\ calls[c].pc = "paged"
    /\ shown' = Joined(c)
    /\ cursor' = calls[c].next
    /\ loading' = FALSE
    /\ selected' = IF calls[c].clears THEN {} ELSE selected
    /\ calls' = [Rewritten(calls) EXCEPT ![c] = Over]
    /\ tangled' = TooLate(c)
    /\ onScreen' = [of |-> calls[c].of, end |-> calls[c].next,
                    version |-> IF calls[c].after = NoCursor THEN calls[c].version
                                                             ELSE onScreen.version,
                    members |-> IF calls[c].after = NoCursor THEN calls[c].members
                                                             ELSE onScreen.members]
    /\ UNCHANGED <<mail, view, foreign, version, unfair>>

(* A query fails: a toast, and the list stays. *)
FetchFails(c) ==
    /\ calls[c].pc \in {"asked", "paged"}
    /\ loading' = FALSE
    /\ selected' = IF calls[c].clears THEN {} ELSE selected
    /\ calls' = [calls EXCEPT ![c] = Over]
    /\ UNCHANGED <<mail, view, shown, cursor, foreign, history>>

----------------------------------------------------------------------------
(* Others *)

(* Mail arrives at any place of the order, for a fetched mail carries the  *)
(* date of its sender; another client changes a row.                       *)
Foreign(m, row) ==
    /\ foreign < MaxForeign
    /\ row # mail[m]
    /\ foreign' = foreign + 1
    /\ MailChanges([mail EXCEPT ![m] = row],
                   [c \in Call |-> IF "TRASH" \in row.tags /\ m \in calls[c].ids
                                   THEN [calls[c] EXCEPT !.due = @ \cup {m}] ELSE calls[c]])
    /\ UNCHANGED <<client, tangled, unfair>>

Arrive(m) ==
    /\ mail[m].state = "coming"
    /\ \E spam \in BOOLEAN :
          Foreign(m, [mail[m] EXCEPT !.state = "stored", !.spam = spam])

OtherClient(m) ==
    /\ IsStored(m)
    /\ \E row \in {[mail[m] EXCEPT !.read = ~@], [mail[m] EXCEPT !.spam = ~@],
                   [mail[m] EXCEPT !.tags = @ \cup {"TRASH"}],
                   [mail[m] EXCEPT !.tags = @ \ {"TRASH"}], [mail[m] EXCEPT !.state = "gone"]} :
          Foreign(m, row)

----------------------------------------------------------------------------
(* The app opens on its inbox, whose first page is on its way. *)
MailboxInit ==
    /\ mail = [m \in Msgs |-> [state |-> IF m \in Stored THEN "stored" ELSE "coming",
                               spam |-> FALSE, tags |-> {}, read |-> FALSE]]
    /\ view = [folder |-> "INBOX", unreadOnly |-> FALSE]
    /\ shown = <<>> /\ cursor = NoCursor
    /\ loading = TRUE
    /\ selected = {}
    /\ calls = [c \in Call |-> IF c = 1 THEN Asking(view, NoCursor) ELSE NoCall]
    /\ foreign = 0
    /\ version = 0
    /\ onScreen = [of |-> view, end |-> NoCursor, version |-> 0, members |-> {}]
    /\ tangled = TRUE           \* no list yet
    /\ unfair = {}

Gesture(c) ==
    \/ \E f \in Folders : SetView(c, f)
    \/ SetUnreadOnly(c)
    \/ ReloadMessages(c)
    \/ LoadMore(c)
    \/ \E d \in Deeds : Mutate(c, d)
    \/ SetArchived(c)

Serve(c) == Load(c) \/ Apply(c) \/ ReadTags(c) \/ AddTrashTags(c) \/ Purge(c) \/ List(c)

Handle(c) == HandleRefused(c) \/ ArchiveRefused(c) \/ HandleDone(c) \/ HandlePage(c) \/ FetchFails(c)

MailboxNext ==
    \/ \E c \in Call : Gesture(c) \/ Serve(c) \/ Fail(c) \/ Handle(c)
    \/ \E m \in Msgs : ToggleSelection(m) \/ Arrive(m) \/ OtherClient(m)
    \/ SelectAll \/ ClearSelection

MailboxSpec == MailboxInit /\ [][MailboxNext]_mailboxVars

----------------------------------------------------------------------------
(* Properties *)

(* The shape of every variable. *)
Working == {"apply", "tags", "trash", "purge", "refused"}
Mutating == Working \cup {"sent", "answered"}
CallType ==
    [pc : Mutating \cup {"idle", "asked", "paged", "over"},
     deed : Deeds \cup {"", "archive"}, ids : SUBSET Msgs, before : Seq(Item),
     purge : SUBSET Msgs, tag : SUBSET Msgs, of : Views \cup {NoView},
     after : Msgs \cup {NoCursor}, page : Seq(Item), next : Msgs \cup {NoCursor},
     version : Nat, members : SUBSET Msgs, due : SUBSET Msgs,
     stale : BOOLEAN, clears : BOOLEAN]

MailboxTypeOK ==
    /\ mail \in [Msgs -> Row]
    /\ view \in Views /\ shown \in Seq(Item) /\ cursor \in Msgs \cup {NoCursor}
    /\ loading \in BOOLEAN /\ selected \subseteq Msgs
    /\ calls \in [Call -> CallType]
    /\ foreign \in Nat /\ version \in Nat
    /\ onScreen \in [of : Views, end : Msgs \cup {NoCursor}, version : Nat,
                     members : SUBSET Msgs]
    /\ tangled \in BOOLEAN /\ unfair \subseteq Msgs

(* A request carries what its stage needs, and what a delete may destroy   *)
(* covers what it will find trashed.                                       *)
StageInv(c) ==
    LET q == calls[c] IN
    /\ q.deed # "" <=> q.pc \in Mutating
    /\ q.pc = "apply" => q.deed # "delete"
    /\ q.pc \in {"tags", "trash", "purge"} => q.deed = "delete"
    /\ q.pc \in {"asked", "paged"} => q.of \in Views
    /\ q.purge \subseteq q.ids /\ q.tag \subseteq q.ids
    /\ q.deed = "delete" /\ q.pc \in {"sent", "tags"} =>
          \A m \in q.ids : Trashed(m) => m \in q.due
    /\ q.pc \in {"trash", "purge"} => q.purge \subseteq q.due

(* Of two deletes of one message that overlap, each may find what the      *)
(* other has trashed.                                                      *)
OverlapInv(c, d) ==
    /\ calls[c].deed = "delete" /\ calls[c].pc \in {"sent", "tags"}
    /\ calls[d].deed = "delete" /\ calls[d].pc \in {"sent", "tags", "trash"}
    => calls[c].ids \cap calls[d].ids \subseteq calls[c].due

(* The part of a view that a page begins below `after' and ends at `end'. *)
Between(S, after, end) == {m \in S : (after = NoCursor \/ m < after) /\ m >= end}
Descending(list) == \A i, j \in DOMAIN list : i < j => list[i].id > list[j].id
Fresh(list) == \A i \in DOMAIN list : list[i] = Node(list[i].id)

(* A page on its way ends where the next begins, holds every message of    *)
(* its part that has stayed in the view, and is the truth until a row      *)
(* changes.                                                                *)
PageInv(c) ==
    LET q == calls[c]  part == Between(q.members, q.after, q.next) IN
    q.pc = "paged" =>
        /\ q.version <= version /\ q.members \subseteq InView(q.of)
        /\ Descending(q.page) /\ part \subseteq Ids(q.page)
        /\ \A m \in Ids(q.page) : m >= q.next /\ (q.after # NoCursor => m < q.after)
        /\ q.after # NoCursor => q.next < q.after
        /\ q.version = version => /\ q.members = InView(q.of)
                                  /\ Ids(q.page) = part /\ Fresh(q.page)

(* Of two pages of a view, the one read later knows all the members the    *)
(* other still has.                                                        *)
LaterPage(c, d) ==
    /\ calls[c].pc = "paged" /\ calls[d].pc = "paged"
    /\ calls[c].of = calls[d].of /\ calls[c].version >= calls[d].version
    => calls[d].members \subseteq calls[c].members

Whole(list) == /\ Descending(list)
               /\ \A m \in Ids(list) : m >= onScreen.end
               /\ \A m \in onScreen.members : m >= onScreen.end => m \in Ids(list)

(* A mutation whose rollback would restore the list that is on the screen  *)
(* but for its patch; and one that has yet to change a row or to fail.     *)
Patching(c) == calls[c].deed \notin {"", "archive"}
Pending(c) == Patching(c) /\ ~calls[c].stale
Effective(c) == \/ calls[c].pc \in Working
                \/ calls[c].pc = "sent" /\ \E m \in calls[c].ids : IsStored(m)

ScreenInv ==
    /\ onScreen.version <= version
    /\ \A c, d \in Call : Pending(c) /\ Pending(d) => c = d
    /\ ~tangled =>
          /\ onScreen.members \subseteq InView(onScreen.of)
          /\ Whole(shown)
          /\ \A c \in Call : Pending(c) => Whole(calls[c].before)
          /\ \A c \in Call : /\ calls[c].pc = "paged" /\ calls[c].of = onScreen.of
                             /\ calls[c].version >= onScreen.version
                             => onScreen.members \subseteq calls[c].members

(* While no row has changed since the list was read, the list is honest or *)
(* a mutation will change a row or put the honest list back, unless one    *)
(* that came from before the list will change a row or spoil it.           *)
Honest(list) == Ids(list) = Between(InView(onScreen.of), NoCursor, onScreen.end) /\ Fresh(list)

HonestInv ==
    ~tangled /\ onScreen.version = version =>
        \/ \E c \in Call : Patching(c) /\ calls[c].stale /\ Effective(c)
        \/ /\ \A c \in Call : Pending(c) => Honest(calls[c].before)
           /\ Honest(shown) \/ \E c \in Call : Pending(c) /\ Effective(c)

(* The inductive invariant of the mailbox. *)
MailboxInv ==
    /\ MailboxTypeOK /\ ScreenInv /\ HonestInv /\ unfair = {}
    /\ \A c \in Call : StageInv(c) /\ PageInv(c)
    /\ \A c, d \in Call : c # d => OverlapInv(c, d)
    /\ \A c, d \in Call : LaterPage(c, d)

(* Paging skips and repeats nothing: unless a late answer was put into the *)
(* list, it descends without a message twice, and every message that has   *)
(* been in the view since its first page was read, and lies above where    *)
(* the last page ended, is on the screen, whatever arrived or left while   *)
(* the pages were read.                                                    *)
PagesWhole ==
    ~tangled =>
        /\ \A i, j \in DOMAIN shown : i < j => shown[i].id > shown[j].id
        /\ \A m \in onScreen.members : m >= onScreen.end => m \in Ids(shown)

(* Patches and rollbacks leave an honest list: when nothing is under way   *)
(* and no row has changed since the list was read, every row on the screen *)
(* is one of its view and carries the marks the service has, unless a late *)
(* answer or a late rollback was put into the list.                        *)
Quiet == \A c \in Call : ~Underway(c)
HonestWhenQuiet ==
    Quiet /\ ~tangled /\ onScreen.version = version =>
        /\ Ids(shown) = {m \in InView(onScreen.of) : m >= onScreen.end}
        /\ \A i \in DOMAIN shown : shown[i] = Node(shown[i].id)

(* Deleting has two stages: what a delete destroys was in Trash when the   *)
(* user asked for it, or was put there by somebody else or by another      *)
(* delete that was under way at that moment.                               *)
DestroysOnlyTrash == unfair = {}
=============================================================================
