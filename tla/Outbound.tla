------------------------------ MODULE Outbound ------------------------------
(***************************************************************************)
(* Outbound mail: saving, sending, retrying and deleting messages          *)
(* (usecases/send.ts, drafts.ts, messages.ts, entities/message.ts,         *)
(* repositories/message-repository.ts).                                    *)
(*                                                                         *)
(* Every request is a Worker invocation that may be suspended at any await *)
(* and evicted there for good.  A step is the work between two awaits: one *)
(* SQL statement or batch, one blob access, one call to the provider.  A   *)
(* request keeps in memory the row it read, and saves that whole row back. *)
(***************************************************************************)
EXTENDS Integers

CONSTANTS
  Msgs,        \* message ids the requests may draw
  Requests,    \* one-shot requests
  Versions,    \* what a composer writes: bodies and recipients of one edit
  Incomplete,  \* versions with no To recipient or no body: drafts only
  Transport,   \* "raw": the provider sends `raw'; "structured": it assembles
               \* the MIME itself from the fields and ignores `raw'
  None         \* no row, no blob, nothing held in memory

ASSUME VersionsAssumption == Incomplete \subseteq Versions
ASSUME TransportAssumption == Transport \in {"raw", "structured"}

VARIABLES
  fresh,     \* message ids not drawn yet
  rows,      \* the messages table
  rcpts,     \* the message_recipients table: the version last written
  blobs,     \* the raw MIME sources in the blob store
  req,       \* requests in flight
  accepted,  \* history: provider calls that mailed the message to someone
  mailed,    \* history: the last mail the provider accepted in full
  partial,   \* history: messages a failed call mailed to some recipients
  raced,     \* history: messages two requests in flight overlapped on
  torn,      \* history: drafts whose edit was evicted between its two writes
  purged     \* history: messages deleted permanently

tables == <<rows, rcpts, blobs>>
history == <<accepted, mailed, partial, raced, torn, purged>>
vars == <<fresh, tables, req, history>>

(* The columns of messages the pipeline reads: MailStatus, DeliveryStatus, *)
(* subject/from/bodies as one version, raw_key, rfc_message_id.            *)
Row == [status : {"DRAFT", "SENT"}, delivery : {"QUEUED", "SENT", "FAILED"},
        body : Versions, raw : BOOLEAN, rfc : BOOLEAN]
Source == [body : Versions, to : Versions \cup {None}]
Mail == [body : Versions, to : Versions]

Kinds == {"send", "create", "edit", "dispatch", "retry", "delete"}
Pcs == {"readTo", "storeRaw", "insert", "save", "recipients", "readRaw",
        "deliver", "record", "deleteRow", "deleteRaw"}
Idle == [pc |-> "idle", kind |-> None, msg |-> None, row |-> None,
         to |-> None, source |-> None, ok |-> FALSE]
Running == [pc : Pcs \cup {"done", "evicted"}, kind : Kinds, msg : Msgs,
            row : Row, to : Versions \cup {None}, source : Source \cup {None},
            ok : BOOLEAN]

ASSUME NoneAssumption ==
  None \notin Row \cup Source \cup Mail \cup Versions \cup Msgs \cup Kinds

InFlight(r, m) == req[r].msg = m /\ req[r].pc \in Pcs

-----------------------------------------------------------------------------
(* Defects the properties below must catch, each a plausible slip in the   *)
(* operator of the same shape that follows.                                *)
CanRetryQueued(row) == row # None /\ row.delivery \in {"FAILED", "QUEUED"}
IsDraftOrFailed(row) ==
  row # None /\ (row.status = "DRAFT" \/ row.delivery = "FAILED")
SettledBySending(row, ok) == [row EXCEPT !.delivery = "SENT"]
SettledOnSuccess(row, ok) ==
  IF ok THEN [row EXCEPT !.delivery = "SENT"] ELSE row
UpsertKeepsStatus(old, new) ==
  IF old = None THEN new ELSE [new EXCEPT !.rfc = old.rfc, !.status = old.status]

(* retrySend's guard. *)
CanRetry(row) == row # None /\ row.delivery = "FAILED"

(* loadOwnDraft's guard. *)
IsDraft(row) == row # None /\ row.status = "DRAFT"

(* createOutboundMessage, createDraftMessage *)
NewMessage(v) == [status |-> "SENT", delivery |-> "QUEUED", body |-> v,
                  raw |-> TRUE, rfc |-> TRUE]
NewDraft(v) == [status |-> "DRAFT", delivery |-> "QUEUED", body |-> v,
                raw |-> FALSE, rfc |-> FALSE]

(* updateDraftMessage *)
Edited(row, v) == [row EXCEPT !.body = v]

(* submitDraft, and the fields sendDraft adds to it. *)
Submitted(row) == [row EXCEPT !.status = "SENT", !.delivery = "QUEUED",
                              !.raw = TRUE, !.rfc = TRUE]

(* requeueMessage *)
Requeued(row) == [row EXCEPT !.delivery = "QUEUED"]

(* markMessageSent, markMessageFailed *)
Settled(row, ok) == [row EXCEPT !.delivery = IF ok THEN "SENT" ELSE "FAILED"]

(* save: INSERT ... ON CONFLICT(id) DO UPDATE of every column but the ones *)
(* fixed at insert time, rfc_message_id among them.                        *)
Upsert(old, new) == IF old = None THEN new ELSE [new EXCEPT !.rfc = old.rfc]

(* What reaches the provider: the raw source, or what it is made from. *)
MailOf(q) ==
  IF Transport = "raw" /\ q.source # None
  THEN [body |-> q.source.body, to |-> q.to]
  ELSE [body |-> q.row.body, to |-> q.to]

-----------------------------------------------------------------------------
Init ==
  /\ fresh = Msgs
  /\ rows = [m \in Msgs |-> None]
  /\ rcpts = [m \in Msgs |-> None]
  /\ blobs = [m \in Msgs |-> None]
  /\ req = [r \in Requests |-> Idle]
  /\ accepted = [m \in Msgs |-> 0]
  /\ mailed = [m \in Msgs |-> None]
  /\ partial = {} /\ raced = {} /\ torn = {} /\ purged = {}

(* A request takes up message m; it may overlap with another one there. *)
Begin(r, kind, m, pc, row, to) ==
  /\ req[r].pc = "idle"
  /\ req' = [req EXCEPT ![r] = [Idle EXCEPT
       !.pc = pc, !.kind = kind, !.msg = m, !.row = row, !.to = to]]
  /\ raced' = IF \E s \in Requests : InFlight(s, m) THEN raced \cup {m} ELSE raced
  /\ UNCHANGED <<tables, accepted, mailed, partial, torn, purged>>

(* sendMessage: validated, the attachments loaded, a fresh id drawn. *)
BeginSend(r) == \E m \in fresh, v \in Versions \ Incomplete :
  /\ Begin(r, "send", m, "storeRaw", NewMessage(v), v)
  /\ fresh' = fresh \ {m}

(* saveDraft without a draftId. *)
BeginCreate(r) == \E m \in fresh, v \in Versions :
  /\ Begin(r, "create", m, "insert", NewDraft(v), v)
  /\ fresh' = fresh \ {m}

(* saveDraft with a draftId: findById, then the edit of the row it found. *)
BeginEdit(r) == \E m \in Msgs, v \in Versions :
  /\ IsDraft(rows[m])
  /\ Begin(r, "edit", m, "save", Edited(rows[m], v), v)
  /\ UNCHANGED fresh

(* sendDraft: findById. *)
BeginDispatch(r) == \E m \in Msgs :
  /\ IsDraft(rows[m])
  /\ Begin(r, "dispatch", m, "readTo", rows[m], None)
  /\ UNCHANGED fresh

(* retrySend: findById and its guard. *)
BeginRetry(r) == \E m \in Msgs :
  /\ CanRetry(rows[m])
  /\ Begin(r, "retry", m, "readTo", rows[m], None)
  /\ UNCHANGED fresh

(* deleteMessages on a message that is in the trash already. *)
BeginDelete(r) == \E m \in Msgs :
  /\ rows[m] # None
  /\ Begin(r, "delete", m, "deleteRow", rows[m], None)
  /\ UNCHANGED fresh

(* listRecipients.  sendDraft refuses a draft without To or body; retrySend *)
(* requeues the row it holds.                                              *)
ReadTo(r) ==
  LET q == req[r]  found == rcpts[q.msg] IN
  /\ q.pc = "readTo"
  /\ req' = [req EXCEPT ![r] =
       IF q.kind = "retry"
       THEN [q EXCEPT !.pc = "save", !.to = found, !.row = Requeued(q.row)]
       ELSE IF found \in Incomplete \cup {None} \/ q.row.body \in Incomplete
       THEN [q EXCEPT !.pc = "done"]
       ELSE [q EXCEPT !.pc = "storeRaw", !.to = found, !.row = Submitted(q.row)]]
  /\ UNCHANGED <<fresh, tables, history>>

(* The MIME source is built and put under the message's key. *)
StoreRaw(r) ==
  LET q == req[r]  source == [body |-> q.row.body, to |-> q.to] IN
  /\ q.pc = "storeRaw"
  /\ blobs' = [blobs EXCEPT ![q.msg] = source]
  /\ req' = [req EXCEPT ![r] =
       [q EXCEPT !.source = source, !.pc = IF q.kind = "send" THEN "insert" ELSE "save"]]
  /\ UNCHANGED <<fresh, rows, rcpts, history>>

(* insertWithRelations: the row and its recipients in one batch. *)
Insert(r) ==
  LET q == req[r] IN
  /\ q.pc = "insert"
  /\ rows' = [rows EXCEPT ![q.msg] = Upsert(@, q.row)]
  /\ rcpts' = [rcpts EXCEPT ![q.msg] = q.to]
  /\ req' = [req EXCEPT ![r].pc = IF q.kind = "send" THEN "deliver" ELSE "done"]
  /\ UNCHANGED <<fresh, blobs, history>>

(* save of the edited, submitted or requeued row. *)
Save(r) ==
  LET q == req[r] IN
  /\ q.pc = "save"
  /\ rows' = [rows EXCEPT ![q.msg] = Upsert(@, q.row)]
  /\ req' = [req EXCEPT ![r].pc = IF q.kind = "edit" THEN "recipients"
                                    ELSE IF q.kind = "retry" THEN "readRaw"
                                    ELSE "deliver"]
  /\ UNCHANGED <<fresh, rcpts, blobs, history>>

(* replaceRecipients; its foreign key fails when the row is gone. *)
ReplaceRecipients(r) ==
  LET q == req[r] IN
  /\ q.pc = "recipients"
  /\ rcpts' = IF rows[q.msg] = None THEN rcpts ELSE [rcpts EXCEPT ![q.msg] = q.to]
  /\ req' = [req EXCEPT ![r].pc = "done"]
  /\ UNCHANGED <<fresh, rows, blobs, history>>

(* retrySend reads the stored source back, when the row has one. *)
ReadRaw(r) ==
  LET q == req[r] IN
  /\ q.pc = "readRaw"
  /\ req' = [req EXCEPT ![r] =
       [q EXCEPT !.pc = "deliver", !.source = IF q.row.raw THEN blobs[q.msg] ELSE None]]
  /\ UNCHANGED <<fresh, tables, history>>

(* The provider takes the mail (one without recipients reaches nobody), *)
DeliverAccepted(r) ==
  LET q == req[r] IN
  /\ q.pc = "deliver"
  /\ IF q.to = None THEN UNCHANGED <<accepted, mailed>>
     ELSE /\ accepted' = [accepted EXCEPT ![q.msg] = @ + 1]
          /\ mailed' = [mailed EXCEPT ![q.msg] = MailOf(q)]
  /\ req' = [req EXCEPT ![r].pc = "record", ![r].ok = TRUE]
  /\ UNCHANGED <<fresh, tables, partial, raced, torn, purged>>

(* or refuses it, *)
DeliverRefused(r) ==
  /\ req[r].pc = "deliver"
  /\ req' = [req EXCEPT ![r].pc = "record", ![r].ok = FALSE]
  /\ UNCHANGED <<fresh, tables, history>>

(* or fails it although some recipients were reached: the answer was lost,  *)
(* or the request for a later one of the fan-out failed.                   *)
DeliverPartly(r) ==
  LET q == req[r] IN
  /\ q.pc = "deliver" /\ q.to # None
  /\ accepted' = [accepted EXCEPT ![q.msg] = @ + 1]
  /\ partial' = partial \cup {q.msg}
  /\ req' = [req EXCEPT ![r].pc = "record", ![r].ok = FALSE]
  /\ UNCHANGED <<fresh, tables, mailed, raced, torn, purged>>

(* deliver's second half: save of the outcome. *)
Record(r) ==
  LET q == req[r] IN
  /\ q.pc = "record"
  /\ rows' = [rows EXCEPT ![q.msg] = Upsert(@, Settled(q.row, q.ok))]
  /\ req' = [req EXCEPT ![r].pc = "done"]
  /\ UNCHANGED <<fresh, rcpts, blobs, history>>

(* hardDeleteMessages: the row, and the recipients by cascade; then the     *)
(* blob, whose failed delete is swallowed.                                 *)
DeleteRow(r) ==
  LET q == req[r] IN
  /\ q.pc = "deleteRow"
  /\ rows' = [rows EXCEPT ![q.msg] = None]
  /\ rcpts' = [rcpts EXCEPT ![q.msg] = None]
  /\ purged' = purged \cup {q.msg}
  /\ req' = [req EXCEPT ![r].pc = IF q.row.raw THEN "deleteRaw" ELSE "done"]
  /\ UNCHANGED <<fresh, blobs, accepted, mailed, partial, raced, torn>>

DeleteRaw(r) ==
  LET q == req[r] IN
  /\ q.pc = "deleteRaw"
  /\ blobs' \in {blobs, [blobs EXCEPT ![q.msg] = None]}
  /\ req' = [req EXCEPT ![r].pc = "done"]
  /\ UNCHANGED <<fresh, rows, rcpts, history>>

(* The Worker is evicted at an await and the request never resumes. *)
Evict(r) ==
  LET q == req[r] IN
  /\ q.pc \in Pcs
  /\ req' = [req EXCEPT ![r].pc = "evicted"]
  /\ torn' = IF q.pc = "recipients" THEN torn \cup {q.msg} ELSE torn
  /\ UNCHANGED <<fresh, tables, accepted, mailed, partial, raced, purged>>

Start(r) == \/ BeginSend(r) \/ BeginCreate(r) \/ BeginEdit(r)
            \/ BeginDispatch(r) \/ BeginRetry(r) \/ BeginDelete(r)
Resume(r) == \/ ReadTo(r) \/ StoreRaw(r) \/ Insert(r) \/ Save(r)
             \/ ReplaceRecipients(r) \/ ReadRaw(r) \/ DeliverAccepted(r)
             \/ DeliverRefused(r) \/ DeliverPartly(r) \/ Record(r) \/ DeleteRow(r) \/ DeleteRaw(r)

Next == \E r \in Requests : Start(r) \/ Resume(r) \/ Evict(r)

Spec == Init /\ [][Next]_vars

(* The runtime resumes an awaiting request whose call answered. *)
FairSpec == Spec /\ \A r \in Requests : WF_vars(Resume(r))

-----------------------------------------------------------------------------
Sound(m) == m \notin raced \cup partial

(* Types of every variable. *)
TypeOK ==
  /\ fresh \subseteq Msgs
  /\ rows \in [Msgs -> Row \cup {None}]
  /\ rcpts \in [Msgs -> Versions \cup {None}]
  /\ blobs \in [Msgs -> Source \cup {None}]
  /\ req \in [Requests -> {Idle} \cup Running]
  /\ accepted \in [Msgs -> Nat]
  /\ mailed \in [Msgs -> Mail \cup {None}]
  /\ partial \subseteq Msgs /\ raced \subseteq Msgs
  /\ torn \subseteq Msgs /\ purged \subseteq Msgs

(* The inductive invariant, message by message.  Of a message left alone   *)
(* one request at most is in flight, and what that request holds in memory *)
(* still agrees with the tables, at every await it may be suspended at.    *)
QueuedRow(row) == row # None /\ row.status = "SENT" /\ row.delivery = "QUEUED"

Holds(q) ==
  LET row == rows[q.msg]  n == accepted[q.msg] IN
  \/ /\ \/ q.kind = "send" /\ q.pc \in {"storeRaw", "insert"} /\ q.row.status = "SENT"
        \/ q.kind = "create" /\ q.pc = "insert" /\ q.row.status = "DRAFT"
     /\ row = None /\ n = 0 /\ q.msg \notin purged
     /\ q.row.delivery = "QUEUED" /\ q.to # None
  \/ /\ q.kind = "edit" /\ q.pc \in {"save", "recipients"}
     /\ IsDraft(row) /\ IsDraft(q.row) /\ q.row.delivery = "QUEUED" /\ q.to # None
  \/ q.kind = "dispatch" /\ q.pc = "readTo" /\ IsDraft(row)
  \/ /\ q.kind = "dispatch" /\ q.pc \in {"storeRaw", "save"}
     /\ IsDraft(row) /\ QueuedRow(q.row) /\ q.to # None
  \/ q.kind = "retry" /\ q.pc = "readTo" /\ CanRetry(row) /\ q.row.status = "SENT"
  \/ /\ q.kind = "retry" /\ q.pc = "save"
     /\ CanRetry(row) /\ QueuedRow(q.row) /\ q.to # None
  \/ /\ \/ q.kind = "retry" /\ q.pc = "readRaw"
        \/ q.kind \in {"send", "dispatch", "retry"} /\ q.pc = "deliver"
     /\ QueuedRow(row) /\ QueuedRow(q.row) /\ q.to # None /\ n = 0
  \/ /\ q.kind \in {"send", "dispatch", "retry"} /\ q.pc = "record"
     /\ QueuedRow(row) /\ QueuedRow(q.row) /\ n = IF q.ok THEN 1 ELSE 0
  \/ q.kind = "delete" /\ q.pc = "deleteRow" /\ row # None
  \/ q.kind = "delete" /\ q.pc = "deleteRaw" /\ row = None

RowTruth(m) ==
  IF rows[m] = None THEN accepted[m] <= 1
  ELSE /\ rcpts[m] # None
       /\ rows[m].status = "DRAFT" => rows[m].delivery = "QUEUED" /\ accepted[m] = 0
       /\ rows[m].delivery = "FAILED" => accepted[m] = 0
       /\ rows[m].delivery = "QUEUED" => accepted[m] <= 1
       /\ rows[m].delivery = "SENT" => accepted[m] = 1
       /\ m \notin purged

MsgInv(m) ==
  /\ m \in fresh => /\ rows[m] = None /\ accepted[m] = 0 /\ m \notin purged
                    /\ \A r \in Requests : req[r].msg # m
  /\ Sound(m) =>
       /\ \A r, s \in Requests : InFlight(r, m) /\ InFlight(s, m) => r = s
       /\ \A r \in Requests : InFlight(r, m) => Holds(req[r])
       /\ RowTruth(m)

(* Tables, history and requests agree on every message. *)
IInv == TypeOK /\ \A m \in Msgs : MsgInv(m)

(* The same for what the tables store, of a message no two requests        *)
(* overlapped on: the blob of a sent row is the row and its recipients, and *)
(* a request in flight carries what it read or is about to write.          *)
Stored(m) == [body |-> rows[m].body, to |-> rcpts[m]]
Built(q) == [body |-> q.row.body, to |-> q.to]

Carries(q) ==
  LET m == q.msg  row == rows[m] IN
  \/ /\ q.kind = "send" /\ q.pc \in {"storeRaw", "insert"}
     /\ row = None /\ mailed[m] = None /\ q.to # None /\ q.row = NewMessage(q.to)
     /\ q.pc = "insert" => blobs[m] = Built(q) /\ q.source = Built(q)
  \/ /\ q.kind = "create" /\ q.pc = "insert"
     /\ row = None /\ mailed[m] = None /\ q.to # None /\ q.row = NewDraft(q.to)
  \/ /\ q.kind = "edit" /\ q.pc \in {"save", "recipients"} /\ IsDraft(row)
     /\ IsDraft(q.row) /\ q.row.delivery = "QUEUED"
     /\ q.to # None /\ q.row.body = q.to
     /\ q.pc = "recipients" => row.body = q.to
  \/ q.kind = "dispatch" /\ q.pc = "readTo" /\ IsDraft(row) /\ q.row = row
  \/ /\ q.kind = "dispatch" /\ q.pc \in {"storeRaw", "save"} /\ IsDraft(row)
     /\ q.row = Submitted(row) /\ q.to = rcpts[m]
     /\ q.pc = "save" => blobs[m] = Built(q) /\ q.source = Built(q)
  \/ q.kind = "retry" /\ q.pc = "readTo" /\ CanRetry(row) /\ q.row = row
  \/ /\ q.kind = "retry" /\ q.pc = "save" /\ CanRetry(row)
     /\ q.row = Requeued(row) /\ q.to = rcpts[m]
  \/ /\ \/ q.kind = "retry" /\ q.pc = "readRaw"
        \/ /\ q.kind \in {"send", "dispatch", "retry"} /\ q.pc \in {"deliver", "record"}
           /\ q.source \in {None, Stored(m)}
     /\ row # None /\ row.status = "SENT" /\ q.row.status = "SENT"
     /\ q.row.body = row.body /\ q.to = rcpts[m]
  \/ q.kind = "delete" /\ q.pc = "deleteRow" /\ row # None
  \/ q.kind = "delete" /\ q.pc = "deleteRaw" /\ row = None

Rewriting(m) == \E r \in Requests : InFlight(r, m) /\ req[r].pc = "recipients"

StoredTruth(m) == rows[m] # None =>
  /\ rcpts[m] # None
  /\ rows[m].status = "DRAFT" => rows[m].delivery = "QUEUED"
  /\ rows[m].status = "SENT" => blobs[m] = Stored(m)
  /\ mailed[m] # None => rows[m].status = "SENT" /\ mailed[m] = Stored(m)
  /\ rows[m].body = rcpts[m] \/ m \in torn \/ Rewriting(m)

StoredInv(m) ==
  /\ m \in fresh => rows[m] = None /\ mailed[m] = None
                    /\ \A r \in Requests : req[r].msg # m
  /\ m \notin raced =>
       /\ \A r, s \in Requests : InFlight(r, m) /\ InFlight(s, m) => r = s
       /\ \A r \in Requests : InFlight(r, m) => Carries(req[r])
       /\ StoredTruth(m)

(* The whole inductive invariant. *)
PipelineInv == IInv /\ \A m \in Msgs : StoredInv(m)

(* A message no two requests overlapped on, and no failed provider call    *)
(* mailed to somebody, is mailed at most once: through refusals, retries   *)
(* and evictions at any await (the guards of sendDraft and retrySend).     *)
MailedAtMostOnce == \A m \in Msgs : Sound(m) => accepted[m] <= 1

(* The delivery status of such a message tells the truth: SENT rows were   *)
(* mailed, FAILED rows and drafts were not (deliver's bookkeeping).        *)
StatusTellsTruth == \A m \in Msgs : Sound(m) /\ rows[m] # None =>
  /\ rows[m].delivery = "SENT" => accepted[m] = 1
  /\ rows[m].delivery = "FAILED" \/ rows[m].status = "DRAFT" => accepted[m] = 0

(* What was mailed is what the tables say was mailed: the last body and    *)
(* recipients the composer saved, however often the send was retried; and  *)
(* both are of one edit, unless an edit was cut in half.                   *)
MailedAsStored == \A m \in Msgs \ raced :
  mailed[m] # None /\ rows[m] # None =>
    /\ mailed[m].body = rows[m].body /\ mailed[m].to = rcpts[m]
    /\ m \notin torn => mailed[m].body = mailed[m].to

(* A dispatched message settles as SENT or FAILED, or is gone, unless a    *)
(* request on it was evicted, whatever else overlaps with the dispatch.    *)
EveryDispatchSettles == \A m \in Msgs :
  QueuedRow(rows[m]) ~> \/ ~QueuedRow(rows[m])
               \/ \E r \in Requests : req[r].msg = m /\ req[r].pc = "evicted"

(* Refinement: where a message is in the life MailPromise gives it. *)
Phase(m) ==
  IF ~Sound(m) THEN "loose"
  ELSE IF rows[m] = None THEN IF m \in purged THEN "gone" ELSE "none"
  ELSE IF rows[m].status = "DRAFT" THEN "draft"
  ELSE IF rows[m].delivery = "QUEUED" THEN "queued"
  ELSE IF rows[m].delivery = "SENT" THEN "sent" ELSE "failed"
Phases == [m \in Msgs |-> Phase(m)]
HandedOver == {m \in Msgs : accepted[m] > 0}
Promise == INSTANCE MailPromise WITH phase <- Phases, handed <- HandedOver

(* The pipeline keeps the promise for every message left alone. *)
KeepsPromise == Promise!Spec
=============================================================================
