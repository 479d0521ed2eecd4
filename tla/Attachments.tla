---------------------------- MODULE Attachments ----------------------------
(***************************************************************************)
(* Attachments from upload to removal: staged uploads, the messages and    *)
(* calendar events that take them, permanent deletion, and the sweep of    *)
(* uploads nothing took (http/attachments.ts, usecases/send.ts, drafts.ts, *)
(* calendar-event-details.ts, messages.ts, email-auth.ts,                  *)
(* repositories/message-repository.ts, calendar-event-repository.ts).      *)
(*                                                                         *)
(* A step is the work between two awaits.  A request or the sweep may be   *)
(* evicted at any of them.  Requests are one-shot, the sweep recurs: each  *)
(* isolate runs it once.                                                   *)
(***************************************************************************)
EXTENDS Naturals

CONSTANTS
  Files,     \* attachment ids; the blob of a file has its id in its key
  Messages,  \* message ids
  Events,    \* calendar events
  Requests,  \* one-shot requests: sends, draft saves, claims, deletions
  Staged,    \* message_id IS NULL
  None

ASSUME IdsAssumption ==
  /\ Staged \notin Messages /\ None \notin Messages \cup Events \cup {Staged}

VARIABLES
  upload,    \* where the upload of each file is
  rows,      \* the attachments table: the message_id of each file
  blobs,     \* files whose blob is in the store
  aged,      \* files uploaded more than STAGED_ATTACHMENT_TTL_MS ago
  messages,  \* life of each message
  claims,    \* event_attachments: the event that took each file
  req,       \* requests in flight
  sweep,     \* sweepStaged
  contested  \* history: files one activity took while another deleted them,
             \* or the sweep left between its removal of blob and row

vars == <<upload, rows, blobs, aged, messages, claims, req, sweep, contested>>

Kinds == {"send", "draft", "claim", "delete"}
TakePcs == {"read", "bind", "save", "attach"}
DeletePcs == {"deleteRow", "deleteBlobs"}
Pcs == TakePcs \cup DeletePcs \cup {"claim"}
Live == {"draft", "sent"}
Lives == Live \cup {"none", "new", "gone"}
Idle == [pc |-> "idle", kind |-> None, owner |-> None, files |-> {}]
Running == [pc : Pcs \cup {"done"}, kind : Kinds, owner : Messages \cup Events,
            files : SUBSET Files]

(* Files the requests in flight are giving to a message, and files they or *)
(* the sweep are going to delete.                                          *)
Takes(r) == IF req[r].pc \in TakePcs THEN req[r].files ELSE {}
Deletes(r) == IF req[r].pc \in DeletePcs THEN req[r].files ELSE {}
Sweeping == IF sweep.pc = "idle" THEN {} ELSE sweep.files
Taken == UNION {Takes(r) : r \in Requests}
Doomed == Sweeping \cup UNION {Deletes(r) : r \in Requests}

-----------------------------------------------------------------------------
(* Defects the properties below must catch, each a plausible slip in the   *)
(* operator of the same shape that follows.                                *)
StaleBound == {f \in Files : rows[f] # None /\ f \in aged}
StaleYoung == {f \in Files : rows[f] = Staged /\ f \notin aged}

(* listStaleStagedAttachments *)
Stale == {f \in Files : rows[f] = Staged /\ f \in aged}

(* The rows left when the files in S are deleted, and the claims: they     *)
(* cascade with the row.                                                   *)
Without(S) == [f \in Files |-> IF f \in S THEN None ELSE rows[f]]
ClaimsWithout(S) == [f \in Files |-> IF f \in S THEN None ELSE claims[f]]

-----------------------------------------------------------------------------
Init ==
  /\ upload = [f \in Files |-> "none"]
  /\ rows = [f \in Files |-> None]
  /\ blobs = {} /\ aged = {} /\ contested = {}
  /\ messages = [m \in Messages |-> "none"]
  /\ claims = [f \in Files |-> None]
  /\ req = [r \in Requests |-> Idle]
  /\ sweep = [pc |-> "idle", files |-> {}]

(* POST /attachments: the blob, then the staged row. *)
UploadBlob(f) ==
  /\ upload[f] = "none"
  /\ upload' = [upload EXCEPT ![f] = "row"]
  /\ blobs' = blobs \cup {f}
  /\ UNCHANGED <<rows, aged, messages, claims, req, sweep, contested>>

UploadRow(f) ==
  /\ upload[f] = "row"
  /\ upload' = [upload EXCEPT ![f] = "done"]
  /\ rows' = [rows EXCEPT ![f] = Staged]
  /\ UNCHANGED <<blobs, aged, messages, claims, req, sweep, contested>>

(* A day passes since the upload. *)
Age(f) ==
  /\ upload[f] = "done" /\ f \notin aged
  /\ aged' = aged \cup {f}
  /\ UNCHANGED <<upload, rows, blobs, messages, claims, req, sweep, contested>>

(* A request takes up some files; its rivals are the files that others have *)
(* taken up for the opposite end.                                          *)
Begin(r, pc, kind, owner, files, rivals) ==
  /\ req[r].pc = "idle"
  /\ req' = [req EXCEPT ![r] = [pc |-> pc, kind |-> kind, owner |-> owner, files |-> files]]
  /\ contested' = contested \cup (files \cap rivals)
  /\ UNCHANGED <<upload, rows, blobs, aged, claims, sweep>>

(* loadOutboundAttachments finds the row, whoever it belongs to; the send   *)
(* or the draft is a new message, or an edit of a draft.                   *)
BeginNew(r) == \E m \in Messages, f \in Files, kind \in {"send", "draft"} :
  /\ messages[m] = "none" /\ rows[f] # None
  /\ Begin(r, IF kind = "send" THEN "read" ELSE "bind", kind, m, {f}, Doomed)
  /\ messages' = [messages EXCEPT ![m] = "new"]

BeginEdit(r) == \E m \in Messages, f \in Files :
  /\ messages[m] = "draft" /\ rows[f] # None
  /\ Begin(r, "save", "draft", m, {f}, Doomed)
  /\ UNCHANGED messages

(* readAttachmentBytes: the send fails when the blob is missing. *)
ReadBytes(r) ==
  /\ req[r].pc = "read"
  /\ req' = [req EXCEPT ![r].pc = IF req[r].files \subseteq blobs THEN "bind" ELSE "done"]
  /\ UNCHANGED <<upload, rows, blobs, aged, messages, claims, sweep, contested>>

(* attachToMessage: an upsert of message_id, which inserts the row again   *)
(* when it is gone.                                                        *)
Attached(r) == [f \in Files |-> IF f \in req[r].files THEN req[r].owner ELSE rows[f]]

(* insertWithRelations: the new message and its files in one transaction. *)
Bind(r) ==
  /\ req[r].pc = "bind"
  /\ rows' = Attached(r)
  /\ messages' = [messages EXCEPT ![req[r].owner] = IF req[r].kind = "send" THEN "sent" ELSE "draft"]
  /\ req' = [req EXCEPT ![r].pc = "done"]
  /\ UNCHANGED <<upload, blobs, aged, claims, sweep, contested>>

(* An edit saves the message, by an upsert too, and then each file with     *)
(* saveAttachment, which fails when the message is gone again.             *)
Save(r) ==
  /\ req[r].pc = "save"
  /\ messages' = [messages EXCEPT ![req[r].owner] = "draft"]
  /\ req' = [req EXCEPT ![r].pc = "attach"]
  /\ UNCHANGED <<upload, rows, blobs, aged, claims, sweep, contested>>

Attach(r) ==
  /\ req[r].pc = "attach"
  /\ rows' = IF messages[req[r].owner] \in Live THEN Attached(r) ELSE rows
  /\ req' = [req EXCEPT ![r].pc = "done"]
  /\ UNCHANGED <<upload, blobs, aged, messages, claims, sweep, contested>>

(* attachFileToEvent: the file is staged and no other event has it. *)
BeginClaim(r) == \E e \in Events, f \in Files :
  /\ rows[f] = Staged /\ claims[f] \in {None, e}
  /\ Begin(r, "claim", "claim", e, {f}, {})
  /\ UNCHANGED messages

(* attachAttachment: the INSERT checks again that the file is staged, and   *)
(* the unique index that it has no claim.                                  *)
Claim(r) ==
  LET taken == {f \in req[r].files : rows[f] = Staged /\ claims[f] = None} IN
  /\ req[r].pc = "claim"
  /\ claims' = [f \in Files |-> IF f \in taken THEN req[r].owner ELSE claims[f]]
  /\ req' = [req EXCEPT ![r].pc = "done"]
  /\ UNCHANGED <<upload, rows, blobs, aged, messages, sweep, contested>>

(* detachFileFromEvent, or the deletion of the event: the claim goes, the   *)
(* staged row stays.                                                       *)
Detach(f) ==
  /\ claims[f] # None
  /\ claims' = [claims EXCEPT ![f] = None]
  /\ UNCHANGED <<upload, rows, blobs, aged, messages, req, sweep, contested>>

\* Defect: the blobs go before the row.
BeginDeleteBlobsFirst(r) == \E m \in Messages :
  /\ messages[m] \in Live
  /\ Begin(r, "deleteBlobs", "delete", m, {f \in Files : rows[f] = m}, Taken)
  /\ UNCHANGED messages

(* hardDeleteMessages: the attachments listed, the row deleted with what   *)
(* cascades from it, then the blobs of those listed; a failed blob delete  *)
(* is swallowed.                                                           *)
BeginDelete(r) == \E m \in Messages :
  /\ messages[m] \in Live
  /\ Begin(r, "deleteRow", "delete", m, {f \in Files : rows[f] = m}, Taken)
  /\ UNCHANGED messages

DeleteRow(r) ==
  LET cascade == {f \in Files : rows[f] = req[r].owner} IN
  /\ req[r].pc = "deleteRow"
  /\ messages' = [messages EXCEPT ![req[r].owner] = "gone"]
  /\ rows' = Without(cascade)
  /\ claims' = ClaimsWithout(cascade)
  /\ req' = [req EXCEPT ![r].pc = "deleteBlobs"]
  /\ UNCHANGED <<upload, blobs, aged, sweep, contested>>

DeleteBlobs(r) ==
  /\ req[r].pc = "deleteBlobs"
  /\ \E deleted \in SUBSET req[r].files : blobs' = blobs \ deleted
  /\ req' = [req EXCEPT ![r].pc = "done"]
  /\ UNCHANGED <<upload, rows, aged, messages, claims, sweep, contested>>

(* sweepStaged: the stale rows listed, their blobs deleted, each failure   *)
(* swallowed, then the rows listed deleted.                                *)
SweepList ==
  /\ sweep.pc = "idle" /\ Stale # {}
  /\ sweep' = [pc |-> "blobs", files |-> Stale]
  /\ contested' = contested \cup (Stale \cap Taken)
  /\ UNCHANGED <<upload, rows, blobs, aged, messages, claims, req>>

SweepBlobs ==
  /\ sweep.pc = "blobs"
  /\ sweep' = [sweep EXCEPT !.pc = "rows"]
  /\ \E deleted \in SUBSET sweep.files : blobs' = blobs \ deleted
  /\ UNCHANGED <<upload, rows, aged, messages, claims, req, contested>>

SweepRows ==
  /\ sweep.pc = "rows"
  /\ sweep' = [pc |-> "idle", files |-> {}]
  /\ rows' = Without(sweep.files)
  /\ claims' = ClaimsWithout(sweep.files)
  /\ UNCHANGED <<upload, blobs, aged, messages, req, contested>>

(* Evictions. *)
EvictUpload(f) ==
  /\ upload[f] = "row"
  /\ upload' = [upload EXCEPT ![f] = "evicted"]
  /\ UNCHANGED <<rows, blobs, aged, messages, claims, req, sweep, contested>>

EvictRequest(r) ==
  /\ req[r].pc \in Pcs
  /\ req' = [req EXCEPT ![r].pc = "done"]
  /\ UNCHANGED <<upload, rows, blobs, aged, messages, claims, sweep, contested>>

EvictSweep ==
  /\ sweep.pc # "idle"
  /\ contested' = IF sweep.pc = "rows" THEN contested \cup sweep.files ELSE contested
  /\ sweep' = [pc |-> "idle", files |-> {}]
  /\ UNCHANGED <<upload, rows, blobs, aged, messages, claims, req>>

Request(r) ==
  \/ BeginNew(r) \/ BeginEdit(r) \/ ReadBytes(r) \/ Bind(r) \/ Save(r) \/ Attach(r)
  \/ BeginClaim(r) \/ Claim(r)
  \/ BeginDelete(r) \/ DeleteRow(r) \/ DeleteBlobs(r)
Sweep == SweepList \/ SweepBlobs \/ SweepRows

Next ==
  \/ \E f \in Files : UploadBlob(f) \/ UploadRow(f) \/ Age(f) \/ Detach(f) \/ EvictUpload(f)
  \/ \E r \in Requests : Request(r) \/ EvictRequest(r)
  \/ Sweep \/ EvictSweep

Spec == Init /\ [][Next]_vars

(* Isolates keep starting, and one of their sweeps at last runs to its end. *)
FairSpec == Spec /\ WF_vars(SweepList) /\ SF_vars(SweepBlobs) /\ SF_vars(SweepRows)

-----------------------------------------------------------------------------
(* Types of every variable. *)
TypeOK ==
  /\ upload \in [Files -> {"none", "row", "done", "evicted"}]
  /\ rows \in [Files -> Messages \cup {Staged, None}]
  /\ blobs \subseteq Files /\ aged \subseteq Files /\ contested \subseteq Files
  /\ messages \in [Messages -> Lives]
  /\ claims \in [Files -> Events \cup {None}]
  /\ req \in [Requests -> {Idle} \cup Running]
  /\ sweep \in [pc : {"idle", "blobs", "rows"}, files : SUBSET Files]

(* Every attachment row leads to its bytes, save one the sweep is about to *)
(* delete: a file nobody took while another was deleting it is readable as *)
(* long as it has a row (order of upload, of deletion and of the sweep).   *)
FilesReadable == \A f \in Files \ contested :
  rows[f] # None => f \in blobs \/ (rows[f] = Staged /\ f \in Sweeping)

(* What makes it inductive: nobody takes an uncontested file another is    *)
(* deleting, rows and blobs are as their reader found them, and an upload  *)
(* has no row until its last step.                                         *)
Apart == \A f \in Files \ contested : f \notin Taken \cap Doomed

UploadOrder == \A f \in Files :
  /\ upload[f] # "done" => rows[f] = None /\ f \notin Taken \cup Doomed
  /\ upload[f] = "row" => f \in blobs

AsRead == \A r \in Requests :
  /\ req[r].pc \in TakePcs \cup DeletePcs => req[r].owner \in Messages
  /\ req[r].pc = "claim" => req[r].owner \in Events
  /\ Takes(r) \ contested \subseteq blobs
  /\ \A f \in Deletes(r) \ contested :
       /\ rows[f] \in {req[r].owner, None}
       /\ req[r].pc = "deleteBlobs" => rows[f] = None

SweptAsListed ==
  /\ Sweeping \subseteq aged
  /\ \A f \in Sweeping \ contested :
       /\ rows[f] = Staged
       /\ sweep.pc = "blobs" => f \in blobs

(* The inductive invariant: all of these together. *)
IInv == TypeOK /\ FilesReadable /\ Apart /\ UploadOrder /\ AsRead /\ SweptAsListed

(* An upload less than a day old only goes away with its message. *)
YoungKept == [][\A f \in Files :
  rows[f] # None /\ rows'[f] = None /\ f \notin aged
  => rows[f] \in Messages /\ messages'[rows[f]] = "gone"]_vars

(* An upload nothing took, neither a message nor a calendar event, is       *)
(* reclaimed a day later: its row goes unless something takes it first,    *)
(* though sweeps are evicted and blobs fail to go.                         *)
StagedReclaimed == \A f \in Files :
  rows[f] = Staged /\ f \in aged /\ claims[f] = None
  ~> rows[f] # Staged \/ claims[f] # None

(* What an event took stays readable. *)
EventFilesReadable == \A f \in Files : claims[f] # None => f \in blobs
=============================================================================
