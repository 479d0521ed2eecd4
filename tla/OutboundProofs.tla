--------------------------- MODULE OutboundProofs ---------------------------
(***************************************************************************)
(* Proofs about Outbound for any number of messages and requests: the      *)
(* inductive invariant IInv, from it that a message left alone is mailed   *)
(* at most once and that its status tells the truth; with StoredInv, that  *)
(* what was mailed is what the tables store; and that the pipeline         *)
(* implements MailPromise.                                                 *)
(***************************************************************************)
EXTENDS Outbound, TLAPS

-----------------------------------------------------------------------------
(* A request in flight is a full record, of a known message. *)
LEMMA InFlightType ==
  ASSUME TypeOK, NEW r \in Requests, req[r].pc \in Pcs
  PROVE  req[r] \in Running
<1>1. req[r] \in {Idle} \cup Running  BY DEF TypeOK
<1>2. req[r] # Idle  BY DEF Idle, Pcs
<1> QED  BY <1>1, <1>2

(* What moving the program counter of a request record does, field by field. *)
LEMMA PcUpdate ==
  ASSUME NEW q \in Running, NEW p \in Pcs \cup {"done", "evicted"}
  PROVE  /\ [q EXCEPT !.pc = p] \in Running
         /\ [q EXCEPT !.pc = p].pc = p /\ [q EXCEPT !.pc = p].msg = q.msg
         /\ [q EXCEPT !.pc = p].kind = q.kind /\ [q EXCEPT !.pc = p].row = q.row
         /\ [q EXCEPT !.pc = p].to = q.to /\ [q EXCEPT !.pc = p].source = q.source
         /\ [q EXCEPT !.pc = p].ok = q.ok
BY DEF Running

(* The table of requests after one of them changes. *)
LEMMA ReqUpdate ==
  ASSUME TypeOK, NEW r \in Requests, NEW q \in {Idle} \cup Running
  PROVE  /\ [req EXCEPT ![r] = q] \in [Requests -> {Idle} \cup Running]
         /\ [req EXCEPT ![r] = q][r] = q
         /\ \A s \in Requests : s # r => [req EXCEPT ![r] = q][s] = req[s]
BY DEF TypeOK

(* A step that only moves the program counter of a request in flight. *)
LEMMA PcStep ==
  ASSUME TypeOK, NEW r \in Requests, req[r] \in Running,
         NEW p \in Pcs \cup {"done", "evicted"}, req' = [req EXCEPT ![r].pc = p]
  PROVE  /\ req'[r] \in Running /\ req'[r].pc = p /\ req'[r].msg = req[r].msg
         /\ req'[r].kind = req[r].kind /\ req'[r].row = req[r].row
         /\ req'[r].to = req[r].to /\ req'[r].source = req[r].source
         /\ req'[r].ok = req[r].ok
         /\ req' \in [Requests -> {Idle} \cup Running]
         /\ \A s \in Requests : s # r => req'[s] = req[s]
<1>1. req' = [req EXCEPT ![r] = [req[r] EXCEPT !.pc = p]]  BY DEF TypeOK
<1>2. [req[r] EXCEPT !.pc = p] \in Running  BY PcUpdate
<1>3. req'[r] = [req[r] EXCEPT !.pc = p]  BY <1>1 DEF TypeOK
<1> QED  BY <1>1, <1>2, <1>3, PcUpdate, ReqUpdate

(* The rows the pipeline builds, and the status they carry. *)
LEMMA NewRowTypes ==
  ASSUME NEW v \in Versions
  PROVE  /\ NewMessage(v) \in Row /\ NewMessage(v).status = "SENT"
         /\ NewMessage(v).delivery = "QUEUED"
         /\ NewDraft(v) \in Row /\ NewDraft(v).status = "DRAFT"
         /\ NewDraft(v).delivery = "QUEUED"
BY DEF NewMessage, NewDraft, Row

LEMMA RowTypes ==
  ASSUME NEW row \in Row
  PROVE  /\ row # None
         /\ Submitted(row) \in Row /\ QueuedRow(Submitted(row))
         /\ Requeued(row) \in Row /\ Requeued(row).status = row.status
         /\ Requeued(row).delivery = "QUEUED"
BY NoneAssumption DEF Submitted, Requeued, QueuedRow, Row

LEMMA EditedType ==
  ASSUME NEW row \in Row, NEW v \in Versions
  PROVE  /\ Edited(row, v) \in Row /\ Edited(row, v).status = row.status
         /\ Edited(row, v).delivery = row.delivery
BY DEF Edited, Row

LEMMA SettledType ==
  ASSUME NEW row \in Row, NEW ok \in BOOLEAN
  PROVE  /\ Settled(row, ok) \in Row /\ Settled(row, ok).status = row.status
         /\ Settled(row, ok).delivery = IF ok THEN "SENT" ELSE "FAILED"
BY DEF Settled, Row

(* What a save leaves in the table: every column but the Message-ID. *)
LEMMA UpsertType ==
  ASSUME NEW old \in Row \cup {None}, NEW row \in Row
  PROVE  /\ Upsert(old, row) \in Row /\ Upsert(old, row) # None
         /\ Upsert(old, row).status = row.status
         /\ Upsert(old, row).delivery = row.delivery
BY NoneAssumption DEF Upsert, Row

(* The mail handed to the provider is well formed. *)
LEMMA MailType ==
  ASSUME NEW q \in Running, q.to # None
  PROVE  MailOf(q) \in Mail
BY DEF MailOf, Mail, Running, Row, Source

-----------------------------------------------------------------------------
(* Initially no message exists and no request runs. *)
LEMMA InitInv == Init => IInv
<1> SUFFICES ASSUME Init PROVE IInv  OBVIOUS
<1>1. TypeOK  BY DEF Init, TypeOK
<1>2. ASSUME NEW m \in Msgs PROVE MsgInv(m)
  BY NoneAssumption DEF Init, MsgInv, RowTruth, InFlight, Idle, Pcs
<1> QED  BY <1>1, <1>2 DEF IInv

-----------------------------------------------------------------------------
(* The part of a step that concerns the messages it does not touch. *)
LEMMA OtherMessages ==
  ASSUME IInv, NEW r \in Requests, NEW m \in Msgs,
         \A s \in Requests : s # r => req'[s] = req[s],
         req[r].msg # m, req'[r].msg # m,
         rows'[m] = rows[m], rcpts'[m] = rcpts[m], accepted'[m] = accepted[m],
         m \in purged' <=> m \in purged, m \in fresh' => m \in fresh,
         Sound(m)' => Sound(m)
  PROVE  MsgInv(m)'
<1>1. MsgInv(m)  BY DEF IInv
<1>2. m \in fresh' => /\ rows'[m] = None /\ accepted'[m] = 0 /\ m \notin purged'
                      /\ \A s \in Requests : req'[s].msg # m
  BY <1>1 DEF MsgInv
<1>3. \A s \in Requests : InFlight(s, m)' => s # r /\ InFlight(s, m)
  BY DEF InFlight
<1>4. ASSUME Sound(m)'
      PROVE  \A s, t \in Requests : InFlight(s, m)' /\ InFlight(t, m)' => s = t
  BY <1>1, <1>3, <1>4 DEF MsgInv
<1>5. ASSUME Sound(m)', NEW s \in Requests, InFlight(s, m)'
      PROVE  Holds(req[s])'
  <2>1. Holds(req[s]) /\ req'[s] = req[s] /\ req[s].msg = m
    BY <1>1, <1>3, <1>5 DEF MsgInv, InFlight
  <2> QED  BY <2>1 DEF Holds
<1>6. ASSUME Sound(m)' PROVE RowTruth(m)'
  BY <1>1, <1>6 DEF MsgInv, RowTruth
<1> QED  BY <1>2, <1>4, <1>5, <1>6 DEF MsgInv

(* The part that concerns the message of the request that takes the step:  *)
(* no other request is in flight on it, so it is enough that this one goes *)
(* on to hold what it should.                                              *)
LEMMA OwnMessage ==
  ASSUME IInv, NEW r \in Requests, NEW m \in Msgs, InFlight(r, m),
         \A s \in Requests : s # r => req'[s] = req[s],
         req'[r].msg = m, fresh' = fresh, Sound(m)' => Sound(m),
         Sound(m)' => RowTruth(m)',
         Sound(m)' /\ req'[r].pc \in Pcs => Holds(req[r])'
  PROVE  MsgInv(m)'
<1>1. MsgInv(m)  BY DEF IInv
<1>2. m \notin fresh'  BY <1>1 DEF MsgInv, InFlight
<1>3. \A s \in Requests : InFlight(s, m)' => InFlight(s, m)
  BY DEF InFlight
<1>4. ASSUME Sound(m)', NEW s \in Requests, InFlight(s, m)' PROVE s = r
  BY <1>1, <1>3, <1>4 DEF MsgInv
<1>5. ASSUME Sound(m)', NEW s \in Requests, InFlight(s, m)' PROVE Holds(req[s])'
  BY <1>4, <1>5 DEF InFlight
<1> QED  BY <1>2, <1>4, <1>5 DEF MsgInv

(* A step of a request in flight that leaves every other message alone. *)
LEMMA ResumeInv ==
  ASSUME IInv, NEW r \in Requests, req[r].pc \in Pcs,
         \A s \in Requests : s # r => req'[s] = req[s],
         req'[r].msg = req[r].msg,
         TypeOK', fresh' = fresh, raced' = raced, partial \subseteq partial',
         \A m \in Msgs : m # req[r].msg =>
           /\ rows'[m] = rows[m] /\ rcpts'[m] = rcpts[m] /\ accepted'[m] = accepted[m]
           /\ m \in purged' <=> m \in purged,
         Sound(req[r].msg)' /\ Sound(req[r].msg) /\ RowTruth(req[r].msg) /\ Holds(req[r])
           => RowTruth(req[r].msg)' /\ (req'[r].pc \in Pcs => Holds(req[r])')
  PROVE  IInv'
<1>0. TypeOK /\ req[r] \in Running  BY InFlightType DEF IInv
<1>2. \A m \in Msgs : Sound(m)' => Sound(m)  BY DEF Sound
<1>3. InFlight(r, req[r].msg) /\ req[r].msg \in Msgs
  BY <1>0 DEF InFlight, Running
<1>4. ASSUME NEW m \in Msgs, m # req[r].msg PROVE MsgInv(m)'
  <2>1. /\ rows'[m] = rows[m] /\ rcpts'[m] = rcpts[m] /\ accepted'[m] = accepted[m]
        /\ m \in purged' <=> m \in purged
    BY <1>4
  <2>2. req'[r].msg # m /\ m \in fresh' => m \in fresh  BY <1>4
  <2>3. Sound(m)' => Sound(m)  BY <1>2
  <2> QED  BY <1>4, <2>1, <2>2, <2>3, OtherMessages
<1>5. ASSUME NEW m \in Msgs, m = req[r].msg PROVE MsgInv(m)'
  <2>1. MsgInv(m) /\ InFlight(r, m) /\ (Sound(m)' => Sound(m))
    BY <1>2, <1>3, <1>5 DEF IInv
  <2>2. Sound(m)' => Holds(req[r]) /\ RowTruth(m)
    BY <2>1 DEF MsgInv
  <2>3. Sound(m)' => RowTruth(m)' /\ (req'[r].pc \in Pcs => Holds(req[r])')
    <3>1. Sound(m)' = Sound(req[r].msg)' /\ RowTruth(m)' = RowTruth(req[r].msg)'
      BY <1>5 DEF Sound, RowTruth
    <3> QED  BY <1>5, <2>1, <2>2, <3>1
  <2>4. req'[r].msg = m  BY <1>5
  <2> QED  BY <2>1, <2>3, <2>4, OwnMessage
<1> QED  BY <1>4, <1>5 DEF IInv

-----------------------------------------------------------------------------
(* ReadTo: sendDraft and retrySend hold the recipients they found. *)
LEMMA ReadToInv ==
  ASSUME IInv, NEW r \in Requests, ReadTo(r)
  PROVE  IInv'
<1>0. /\ TypeOK /\ req[r] \in Running /\ req[r].pc = "readTo" /\ req[r].pc \in Pcs
      /\ req[r].msg \in Msgs /\ req[r].row \in Row
      /\ rcpts[req[r].msg] \in Versions \cup {None}
  BY InFlightType DEF IInv, ReadTo, TypeOK, Running, Pcs
<1>1. PICK q \in Running :
        /\ req' = [req EXCEPT ![r] = q] /\ q.msg = req[r].msg /\ q.kind = req[r].kind
        /\ \/ /\ q.kind = "retry" /\ q.pc = "save" /\ q.to = rcpts[q.msg]
              /\ q.row = Requeued(req[r].row)
           \/ q.pc = "done"
           \/ /\ q.kind # "retry" /\ q.pc = "storeRaw" /\ q.to = rcpts[q.msg]
              /\ q.to # None /\ q.row = Submitted(req[r].row)
  <2>0. "save" \in Pcs /\ "storeRaw" \in Pcs /\ Requeued(req[r].row) \in Row
        /\ Submitted(req[r].row) \in Row
    BY <1>0, RowTypes DEF Pcs
  <2>1. LET new == [req[r] EXCEPT !.pc = "save", !.to = rcpts[req[r].msg],
                                  !.row = Requeued(req[r].row)] IN
        /\ new \in Running /\ new.pc = "save" /\ new.to = rcpts[req[r].msg]
        /\ new.row = Requeued(req[r].row) /\ new.msg = req[r].msg /\ new.kind = req[r].kind
    BY <1>0, <2>0 DEF Running
  <2>2. LET new == [req[r] EXCEPT !.pc = "storeRaw", !.to = rcpts[req[r].msg],
                                  !.row = Submitted(req[r].row)] IN
        /\ new \in Running /\ new.pc = "storeRaw" /\ new.to = rcpts[req[r].msg]
        /\ new.row = Submitted(req[r].row) /\ new.msg = req[r].msg /\ new.kind = req[r].kind
    BY <1>0, <2>0 DEF Running
  <2>3. LET new == [req[r] EXCEPT !.pc = "done"] IN
        new \in Running /\ new.pc = "done" /\ new.msg = req[r].msg /\ new.kind = req[r].kind
    BY <1>0, PcUpdate
  <2> QED  BY <2>1, <2>2, <2>3 DEF ReadTo
<1>2. /\ req'[r] = q /\ \A s \in Requests : s # r => req'[s] = req[s]
      /\ req' \in [Requests -> {Idle} \cup Running]
  BY <1>0, <1>1, ReqUpdate
<1>3. UNCHANGED <<fresh, rows, rcpts, blobs, accepted, mailed, partial, raced, torn, purged>>
  BY DEF ReadTo, tables, history
<1>4. TypeOK'  BY <1>0, <1>2, <1>3 DEF TypeOK
<1>5. ASSUME RowTruth(req[r].msg), Holds(req[r])
      PROVE  RowTruth(req[r].msg)' /\ (req'[r].pc \in Pcs => Holds(req[r])')
  <2>1. RowTruth(req[r].msg)'  BY <1>0, <1>1, <1>2, <1>3, <1>5 DEF RowTruth
  <2>2. CASE q.kind = "retry" /\ q.pc = "save" /\ q.to = rcpts[q.msg]
             /\ q.row = Requeued(req[r].row)
    <3>1. /\ CanRetry(rows[q.msg]) /\ req[r].row.status = "SENT" /\ rcpts[q.msg] # None
      BY <1>0, <1>1, <1>5, <2>2 DEF Holds, RowTruth, CanRetry
    <3>2. QueuedRow(q.row)
      BY <1>0, <2>2, <3>1, RowTypes DEF QueuedRow
    <3> QED  BY <1>1, <1>2, <1>3, <2>1, <2>2, <3>1, <3>2 DEF Holds, CanRetry
  <2>3. CASE q.pc = "done"
    BY <1>2, <2>1, <2>3 DEF Pcs
  <2>4. CASE q.kind # "retry" /\ q.pc = "storeRaw" /\ q.to # None
             /\ q.row = Submitted(req[r].row)
    <3>1. q.kind = "dispatch" /\ IsDraft(rows[q.msg])
      BY <1>0, <1>1, <1>5, <2>4 DEF Holds
    <3>2. QueuedRow(q.row)
      BY <1>0, <2>4, RowTypes
    <3> QED  BY <1>1, <1>2, <1>3, <2>1, <2>4, <3>1, <3>2 DEF Holds, IsDraft
  <2> QED  BY <1>1, <2>2, <2>3, <2>4
<1> QED  BY <1>0, <1>1, <1>2, <1>3, <1>4, <1>5, ResumeInv

(* StoreRaw: the MIME source is in the blob store before any row names it. *)
LEMMA StoreRawInv ==
  ASSUME IInv, NEW r \in Requests, StoreRaw(r)
  PROVE  IInv'
<1>0. /\ TypeOK /\ req[r] \in Running /\ req[r].pc = "storeRaw" /\ req[r].pc \in Pcs
      /\ req[r].msg \in Msgs
  BY InFlightType DEF IInv, StoreRaw, Running, Pcs
<1>1. PICK q \in Running :
        /\ req' = [req EXCEPT ![r] = q] /\ q.msg = req[r].msg /\ q.kind = req[r].kind
        /\ q.pc = (IF q.kind = "send" THEN "insert" ELSE "save")
        /\ q.to = req[r].to /\ q.row = req[r].row /\ q.source \in Source
        /\ blobs' = [blobs EXCEPT ![q.msg] = q.source]
  <2> DEFINE src == [body |-> req[r].row.body, to |-> req[r].to]
             pc == IF req[r].kind = "send" THEN "insert" ELSE "save"
             new == [req[r] EXCEPT !.source = src, !.pc = pc]
  <2>1. src \in Source  BY <1>0 DEF Running, Source, Row
  <2>2. pc \in Pcs  BY DEF Pcs
  <2>3. /\ new \in Running /\ new.msg = req[r].msg /\ new.kind = req[r].kind
        /\ new.pc = pc /\ new.to = req[r].to /\ new.row = req[r].row /\ new.source = src
    <3> HIDE DEF src, pc
    <3>1. new \in Running  BY <1>0, <2>1, <2>2 DEF Running
    <3>2. /\ new.msg = req[r].msg /\ new.kind = req[r].kind /\ new.pc = pc
          /\ new.to = req[r].to /\ new.row = req[r].row /\ new.source = src
      BY <1>0 DEF Running
    <3> QED  BY <3>1, <3>2
  <2>4. req' = [req EXCEPT ![r] = new] /\ blobs' = [blobs EXCEPT ![req[r].msg] = src]
    BY DEF StoreRaw
  <2> HIDE DEF new
  <2> QED  BY <2>1, <2>3, <2>4
<1>2. /\ req'[r] = q /\ \A s \in Requests : s # r => req'[s] = req[s]
      /\ req' \in [Requests -> {Idle} \cup Running]
  BY <1>0, <1>1, ReqUpdate
<1>3. UNCHANGED <<fresh, rows, rcpts, accepted, mailed, partial, raced, torn, purged>>
  BY DEF StoreRaw, history
<1>4. TypeOK'  BY <1>0, <1>1, <1>2, <1>3 DEF TypeOK
<1>5. ASSUME RowTruth(req[r].msg), Holds(req[r])
      PROVE  RowTruth(req[r].msg)' /\ (req'[r].pc \in Pcs => Holds(req[r])')
  <2>1. RowTruth(req[r].msg)'  BY <1>1, <1>2, <1>3, <1>5 DEF RowTruth
  <2>2. Holds(req[r])'
    BY <1>0, <1>1, <1>2, <1>3, <1>5 DEF Holds, IsDraft
  <2> QED  BY <2>1, <2>2
<1> QED  BY <1>0, <1>1, <1>2, <1>3, <1>4, <1>5, ResumeInv

(* Insert: the fresh message and its recipients appear together. *)
LEMMA InsertInv ==
  ASSUME IInv, NEW r \in Requests, Insert(r)
  PROVE  IInv'
<1>0. /\ TypeOK /\ req[r] \in Running /\ req[r].pc = "insert" /\ req[r].pc \in Pcs
      /\ req[r].msg \in Msgs /\ req[r].row \in Row /\ req[r].to \in Versions \cup {None}
      /\ rows[req[r].msg] \in Row \cup {None}
  BY InFlightType DEF IInv, Insert, Running, Pcs, TypeOK
<1>1. PICK q \in Running :
        /\ req' = [req EXCEPT ![r] = q] /\ q.msg = req[r].msg /\ q.kind = req[r].kind
        /\ q.pc = (IF q.kind = "send" THEN "deliver" ELSE "done")
        /\ q.to = req[r].to /\ q.row = req[r].row
  <2> DEFINE pc == IF req[r].kind = "send" THEN "deliver" ELSE "done"
  <2>1. pc \in Pcs \cup {"done", "evicted"}  BY DEF Pcs
  <2>2. req' = [req EXCEPT ![r].pc = pc]  BY DEF Insert
  <2> HIDE DEF pc
  <2>3. /\ req'[r] \in Running /\ req'[r].pc = pc /\ req'[r].msg = req[r].msg
        /\ req'[r].kind = req[r].kind /\ req'[r].row = req[r].row
        /\ req'[r].to = req[r].to
    BY <1>0, <2>1, <2>2, PcStep
  <2>4. req' = [req EXCEPT ![r] = req'[r]]  BY <1>0, <2>2 DEF TypeOK
  <2> QED  BY <2>3, <2>4 DEF pc
<1>2. /\ req'[r] = q /\ \A s \in Requests : s # r => req'[s] = req[s]
      /\ req' \in [Requests -> {Idle} \cup Running]
  BY <1>0, <1>1, ReqUpdate
<1>3. /\ UNCHANGED <<fresh, blobs, accepted, mailed, partial, raced, torn, purged>>
      /\ rows' = [rows EXCEPT ![q.msg] = Upsert(rows[q.msg], q.row)]
      /\ rcpts' = [rcpts EXCEPT ![q.msg] = q.to]
  BY <1>1 DEF Insert, history
<1>4. /\ Upsert(rows[q.msg], q.row) \in Row /\ Upsert(rows[q.msg], q.row) # None
      /\ Upsert(rows[q.msg], q.row).status = q.row.status
      /\ Upsert(rows[q.msg], q.row).delivery = q.row.delivery
  BY <1>0, <1>1, UpsertType
<1>5. TypeOK'  BY <1>0, <1>1, <1>2, <1>3, <1>4 DEF TypeOK
<1>6. /\ rows'[q.msg] = Upsert(rows[q.msg], q.row) /\ rcpts'[q.msg] = q.to
      /\ \A m \in Msgs : m # q.msg => rows'[m] = rows[m] /\ rcpts'[m] = rcpts[m]
  BY <1>0, <1>1, <1>3 DEF TypeOK
<1>7. ASSUME RowTruth(req[r].msg), Holds(req[r])
      PROVE  RowTruth(req[r].msg)' /\ (req'[r].pc \in Pcs => Holds(req[r])')
  <2>1. /\ q.kind \in {"send", "create"} /\ q.to # None /\ q.row.delivery = "QUEUED"
        /\ accepted[q.msg] = 0 /\ q.msg \notin purged
        /\ q.row.status = IF q.kind = "send" THEN "SENT" ELSE "DRAFT"
    BY <1>0, <1>1, <1>7 DEF Holds
  <2>2. RowTruth(req[r].msg)'
    BY <1>0, <1>1, <1>2, <1>3, <1>4, <1>6, <2>1 DEF RowTruth
  <2>3. CASE q.kind = "send"
    <3>1. QueuedRow(rows'[q.msg]) /\ QueuedRow(q.row)
      BY <1>0, <1>1, <1>4, <1>6, <2>1, <2>3, RowTypes DEF QueuedRow
    <3> QED  BY <1>1, <1>2, <1>3, <2>1, <2>2, <2>3, <3>1 DEF Holds
  <2>4. CASE q.kind = "create"
    BY <1>1, <1>2, <2>2, <2>4 DEF Pcs
  <2> QED  BY <2>1, <2>3, <2>4
<1> QED  BY <1>0, <1>1, <1>2, <1>3, <1>5, <1>6, <1>7, ResumeInv

(* Save: an edited draft stays one, a submitted or requeued row is QUEUED. *)
LEMMA SaveInv ==
  ASSUME IInv, NEW r \in Requests, Save(r)
  PROVE  IInv'
<1>0. /\ TypeOK /\ req[r] \in Running /\ req[r].pc = "save" /\ req[r].pc \in Pcs
      /\ req[r].msg \in Msgs /\ req[r].row \in Row
      /\ rows[req[r].msg] \in Row \cup {None}
  BY InFlightType DEF IInv, Save, Running, Pcs, TypeOK
<1>1. PICK q \in Running :
        /\ req' = [req EXCEPT ![r] = q] /\ q.msg = req[r].msg /\ q.kind = req[r].kind
        /\ q.pc = (IF q.kind = "edit" THEN "recipients"
                   ELSE IF q.kind = "retry" THEN "readRaw" ELSE "deliver")
        /\ q.to = req[r].to /\ q.row = req[r].row
  <2> DEFINE pc == IF req[r].kind = "edit" THEN "recipients"
                   ELSE IF req[r].kind = "retry" THEN "readRaw" ELSE "deliver"
  <2>1. pc \in Pcs \cup {"done", "evicted"}  BY DEF Pcs
  <2>2. req' = [req EXCEPT ![r].pc = pc]  BY DEF Save
  <2> HIDE DEF pc
  <2>3. /\ req'[r] \in Running /\ req'[r].pc = pc /\ req'[r].msg = req[r].msg
        /\ req'[r].kind = req[r].kind /\ req'[r].row = req[r].row
        /\ req'[r].to = req[r].to
    BY <1>0, <2>1, <2>2, PcStep
  <2>4. req' = [req EXCEPT ![r] = req'[r]]  BY <1>0, <2>2 DEF TypeOK
  <2> QED  BY <2>3, <2>4 DEF pc
<1>2. /\ req'[r] = q /\ \A s \in Requests : s # r => req'[s] = req[s]
      /\ req' \in [Requests -> {Idle} \cup Running]
  BY <1>0, <1>1, ReqUpdate
<1>3. /\ UNCHANGED <<fresh, rcpts, blobs, accepted, mailed, partial, raced, torn, purged>>
      /\ rows' = [rows EXCEPT ![q.msg] = Upsert(rows[q.msg], q.row)]
  BY <1>1 DEF Save, history
<1>4. /\ Upsert(rows[q.msg], q.row) \in Row /\ Upsert(rows[q.msg], q.row) # None
      /\ Upsert(rows[q.msg], q.row).status = q.row.status
      /\ Upsert(rows[q.msg], q.row).delivery = q.row.delivery
  BY <1>0, <1>1, UpsertType
<1>5. TypeOK'  BY <1>0, <1>1, <1>2, <1>3, <1>4 DEF TypeOK
<1>6. /\ rows'[q.msg] = Upsert(rows[q.msg], q.row)
      /\ \A m \in Msgs : m # q.msg => rows'[m] = rows[m]
  BY <1>0, <1>1, <1>3 DEF TypeOK
<1>7. ASSUME RowTruth(req[r].msg), Holds(req[r])
      PROVE  RowTruth(req[r].msg)' /\ (req'[r].pc \in Pcs => Holds(req[r])')
  <2>1. q.row # None /\ q.to # None /\ rows[q.msg] # None /\ rcpts[q.msg] # None
        /\ accepted[q.msg] = 0 /\ q.msg \notin purged
    BY <1>0, <1>1, <1>7, RowTypes DEF Holds, RowTruth, IsDraft, CanRetry
  <2>2. CASE q.kind = "edit"
    <3>1. IsDraft(q.row) /\ q.row.delivery = "QUEUED"
      BY <1>0, <1>1, <1>7, <2>2 DEF Holds
    <3>2. RowTruth(req[r].msg)'
      BY <1>1, <1>3, <1>4, <1>6, <2>1, <3>1 DEF RowTruth, IsDraft
    <3> QED  BY <1>1, <1>2, <1>3, <1>4, <1>6, <2>1, <2>2, <3>1, <3>2 DEF Holds, IsDraft
  <2>3. CASE q.kind \in {"dispatch", "retry"}
    <3>1. QueuedRow(q.row)
      BY <1>0, <1>1, <1>7, <2>3 DEF Holds
    <3>2. RowTruth(req[r].msg)'
      BY <1>1, <1>3, <1>4, <1>6, <2>1, <3>1 DEF RowTruth, QueuedRow
    <3>3. QueuedRow(rows'[q.msg])  BY <1>4, <1>6, <3>1 DEF QueuedRow
    <3> QED  BY <1>1, <1>2, <1>3, <2>1, <2>3, <3>1, <3>2, <3>3 DEF Holds
  <2>4. q.kind \in {"edit", "dispatch", "retry"}
    BY <1>0, <1>1, <1>7 DEF Holds
  <2> QED  BY <2>2, <2>3, <2>4
<1> QED  BY <1>0, <1>1, <1>2, <1>3, <1>5, <1>6, <1>7, ResumeInv

(* ReplaceRecipients: the second write of an edit. *)
LEMMA ReplaceRecipientsInv ==
  ASSUME IInv, NEW r \in Requests, ReplaceRecipients(r)
  PROVE  IInv'
<1>0. /\ TypeOK /\ req[r] \in Running /\ req[r].pc = "recipients" /\ req[r].pc \in Pcs
      /\ req[r].msg \in Msgs /\ req[r].to \in Versions \cup {None}
  BY InFlightType DEF IInv, ReplaceRecipients, Running, Pcs, TypeOK
<1>1. /\ req'[r].pc = "done" /\ req'[r].msg = req[r].msg
      /\ req' \in [Requests -> {Idle} \cup Running]
      /\ \A s \in Requests : s # r => req'[s] = req[s]
  BY <1>0, PcStep DEF ReplaceRecipients
<1>2. /\ UNCHANGED <<fresh, rows, blobs, accepted, mailed, partial, raced, torn, purged>>
      /\ rcpts' = IF rows[req[r].msg] = None THEN rcpts
                  ELSE [rcpts EXCEPT ![req[r].msg] = req[r].to]
  BY DEF ReplaceRecipients, history
<1>3. TypeOK'  BY <1>0, <1>1, <1>2 DEF TypeOK
<1>4. /\ rows[req[r].msg] # None => rcpts'[req[r].msg] = req[r].to
      /\ \A m \in Msgs : m # req[r].msg => rcpts'[m] = rcpts[m]
  BY <1>0, <1>2 DEF TypeOK
<1>5. ASSUME RowTruth(req[r].msg), Holds(req[r])
      PROVE  RowTruth(req[r].msg)' /\ (req'[r].pc \in Pcs => Holds(req[r])')
  <2>1. req[r].to # None  BY <1>0, <1>5 DEF Holds
  <2>2. RowTruth(req[r].msg)'  BY <1>1, <1>2, <1>4, <1>5, <2>1 DEF RowTruth
  <2>3. req'[r].pc \notin Pcs  BY <1>1 DEF Pcs
  <2> QED  BY <2>2, <2>3
<1> QED  BY <1>0, <1>1, <1>2, <1>3, <1>4, <1>5, ResumeInv

(* ReadRaw: the request now holds the stored source. *)
LEMMA ReadRawInv ==
  ASSUME IInv, NEW r \in Requests, ReadRaw(r)
  PROVE  IInv'
<1>0. /\ TypeOK /\ req[r] \in Running /\ req[r].pc = "readRaw" /\ req[r].pc \in Pcs
      /\ req[r].msg \in Msgs /\ blobs[req[r].msg] \in Source \cup {None}
  BY InFlightType DEF IInv, ReadRaw, Running, Pcs, TypeOK
<1>1. PICK q \in Running :
        /\ req' = [req EXCEPT ![r] = q] /\ q.msg = req[r].msg /\ q.kind = req[r].kind
        /\ q.pc = "deliver" /\ q.to = req[r].to /\ q.row = req[r].row
  <2> DEFINE src == IF req[r].row.raw THEN blobs[req[r].msg] ELSE None
             new == [req[r] EXCEPT !.pc = "deliver", !.source = src]
  <2>1. src \in Source \cup {None} /\ "deliver" \in Pcs  BY <1>0 DEF Pcs
  <2>2. /\ new \in Running /\ new.msg = req[r].msg /\ new.kind = req[r].kind
        /\ new.pc = "deliver" /\ new.to = req[r].to /\ new.row = req[r].row
    <3> HIDE DEF src
    <3> QED  BY <1>0, <2>1 DEF Running
  <2> QED  BY <2>2 DEF ReadRaw
<1>2. /\ req'[r] = q /\ \A s \in Requests : s # r => req'[s] = req[s]
      /\ req' \in [Requests -> {Idle} \cup Running]
  BY <1>0, <1>1, ReqUpdate
<1>3. UNCHANGED <<fresh, tables, accepted, mailed, partial, raced, torn, purged>>
  BY DEF ReadRaw, history
<1>4. TypeOK'  BY <1>0, <1>2, <1>3 DEF TypeOK, tables
<1>5. ASSUME RowTruth(req[r].msg), Holds(req[r])
      PROVE  RowTruth(req[r].msg)' /\ (req'[r].pc \in Pcs => Holds(req[r])')
  <2>1. RowTruth(req[r].msg)'  BY <1>1, <1>2, <1>3, <1>5 DEF RowTruth, tables
  <2>2. q.kind = "retry" /\ QueuedRow(rows[q.msg]) /\ QueuedRow(q.row)
        /\ q.to # None /\ accepted[q.msg] = 0
    BY <1>0, <1>1, <1>5 DEF Holds
  <2> QED  BY <1>1, <1>2, <1>3, <2>1, <2>2 DEF Holds, tables, QueuedRow
<1> QED  BY <1>0, <1>1, <1>2, <1>3, <1>4, <1>5, ResumeInv DEF tables

(* The answers of the provider: what they do to the request and the count. *)
LEMMA OutcomeStep ==
  ASSUME TypeOK, NEW r \in Requests, req[r] \in Running, NEW ok \in BOOLEAN,
         req' = [req EXCEPT ![r].pc = "record", ![r].ok = ok]
  PROVE  /\ req'[r] \in Running /\ req'[r].pc = "record" /\ req'[r].msg = req[r].msg
         /\ req'[r].kind = req[r].kind /\ req'[r].row = req[r].row /\ req'[r].ok = ok
         /\ req' \in [Requests -> {Idle} \cup Running]
         /\ \A s \in Requests : s # r => req'[s] = req[s]
<1>1. PICK q \in Running :
        /\ req' = [req EXCEPT ![r] = q] /\ q.pc = "record" /\ q.msg = req[r].msg
        /\ q.kind = req[r].kind /\ q.row = req[r].row /\ q.ok = ok
  <2> DEFINE new == [req[r] EXCEPT !.pc = "record", !.ok = ok]
  <2>1. /\ new \in Running /\ new.pc = "record" /\ new.msg = req[r].msg
        /\ new.kind = req[r].kind /\ new.row = req[r].row /\ new.ok = ok
    BY DEF Running, Pcs
  <2>2. req' = [req EXCEPT ![r] = new]  BY DEF TypeOK
  <2> QED  BY <2>1, <2>2
<1>2. /\ [req EXCEPT ![r] = q] \in [Requests -> {Idle} \cup Running]
      /\ [req EXCEPT ![r] = q][r] = q
      /\ \A s \in Requests : s # r => [req EXCEPT ![r] = q][s] = req[s]
  BY ReqUpdate
<1> QED  BY <1>1, <1>2

LEMMA DeliverAcceptedInv ==
  ASSUME IInv, NEW r \in Requests, DeliverAccepted(r)
  PROVE  IInv'
<1>0. /\ TypeOK /\ req[r] \in Running /\ req[r].pc = "deliver" /\ req[r].pc \in Pcs
      /\ req[r].msg \in Msgs /\ accepted[req[r].msg] \in Nat
  BY InFlightType DEF IInv, DeliverAccepted, Running, Pcs, TypeOK
<1>1. /\ req'[r] \in Running /\ req'[r].pc = "record" /\ req'[r].msg = req[r].msg
      /\ req'[r].kind = req[r].kind /\ req'[r].row = req[r].row /\ req'[r].ok = TRUE
      /\ req' \in [Requests -> {Idle} \cup Running]
      /\ \A s \in Requests : s # r => req'[s] = req[s]
  BY <1>0, OutcomeStep DEF DeliverAccepted
<1>2. UNCHANGED <<fresh, rows, rcpts, blobs, partial, raced, torn, purged>>
  BY DEF DeliverAccepted, tables
<1>3. \/ req[r].to = None /\ UNCHANGED <<accepted, mailed>>
      \/ /\ req[r].to # None
         /\ accepted' = [accepted EXCEPT ![req[r].msg] = @ + 1]
         /\ mailed' = [mailed EXCEPT ![req[r].msg] = MailOf(req[r])]
  BY DEF DeliverAccepted
<1>4. TypeOK'
  <2>1. CASE req[r].to = None  BY <1>0, <1>1, <1>2, <1>3, <2>1 DEF TypeOK
  <2>2. CASE req[r].to # None
    <3>1. MailOf(req[r]) \in Mail  BY <1>0, <2>2, MailType
    <3>2. mailed' \in [Msgs -> Mail \cup {None}] /\ accepted' \in [Msgs -> Nat]
      BY <1>0, <1>3, <2>2, <3>1 DEF TypeOK
    <3> QED  BY <1>0, <1>1, <1>2, <3>2 DEF TypeOK
  <2> QED  BY <2>1, <2>2
<1>5. /\ req[r].to # None => accepted'[req[r].msg] = accepted[req[r].msg] + 1
      /\ \A m \in Msgs : m # req[r].msg => accepted'[m] = accepted[m]
  BY <1>0, <1>3 DEF TypeOK
<1>6. ASSUME RowTruth(req[r].msg), Holds(req[r])
      PROVE  RowTruth(req[r].msg)' /\ (req'[r].pc \in Pcs => Holds(req[r])')
  <2>1. /\ req[r].kind \in {"send", "dispatch", "retry"} /\ req[r].to # None
        /\ QueuedRow(rows[req[r].msg]) /\ QueuedRow(req[r].row)
        /\ accepted[req[r].msg] = 0
    BY <1>0, <1>6 DEF Holds
  <2>2. accepted'[req[r].msg] = 1  BY <1>5, <2>1
  <2>3. RowTruth(req[r].msg)'
    BY <1>1, <1>2, <1>6, <2>1, <2>2 DEF RowTruth, QueuedRow
  <2>4. Holds(req[r])'  BY <1>1, <1>2, <2>1, <2>2 DEF Holds, QueuedRow
  <2> QED  BY <2>3, <2>4
<1> QED  BY <1>0, <1>1, <1>2, <1>4, <1>5, <1>6, ResumeInv

LEMMA DeliverRefusedInv ==
  ASSUME IInv, NEW r \in Requests, DeliverRefused(r)
  PROVE  IInv'
<1>0. /\ TypeOK /\ req[r] \in Running /\ req[r].pc = "deliver" /\ req[r].pc \in Pcs
      /\ req[r].msg \in Msgs
  BY InFlightType DEF IInv, DeliverRefused, Running, Pcs
<1>1. /\ req'[r] \in Running /\ req'[r].pc = "record" /\ req'[r].msg = req[r].msg
      /\ req'[r].kind = req[r].kind /\ req'[r].row = req[r].row /\ req'[r].ok = FALSE
      /\ req' \in [Requests -> {Idle} \cup Running]
      /\ \A s \in Requests : s # r => req'[s] = req[s]
  BY <1>0, OutcomeStep DEF DeliverRefused
<1>2. UNCHANGED <<fresh, rows, rcpts, blobs, accepted, mailed, partial, raced, torn, purged>>
  BY DEF DeliverRefused, tables, history
<1>3. TypeOK'  BY <1>0, <1>1, <1>2 DEF TypeOK
<1>4. ASSUME RowTruth(req[r].msg), Holds(req[r])
      PROVE  RowTruth(req[r].msg)' /\ (req'[r].pc \in Pcs => Holds(req[r])')
  <2>1. /\ req[r].kind \in {"send", "dispatch", "retry"}
        /\ QueuedRow(rows[req[r].msg]) /\ QueuedRow(req[r].row)
        /\ accepted[req[r].msg] = 0
    BY <1>0, <1>4 DEF Holds
  <2>2. RowTruth(req[r].msg)'  BY <1>1, <1>2, <1>4 DEF RowTruth
  <2>3. Holds(req[r])'  BY <1>1, <1>2, <2>1 DEF Holds, QueuedRow
  <2> QED  BY <2>2, <2>3
<1> QED  BY <1>0, <1>1, <1>2, <1>3, <1>4, ResumeInv

(* A partial delivery puts the message outside the promise. *)
LEMMA DeliverPartlyInv ==
  ASSUME IInv, NEW r \in Requests, DeliverPartly(r)
  PROVE  IInv'
<1>0. /\ TypeOK /\ req[r] \in Running /\ req[r].pc = "deliver" /\ req[r].pc \in Pcs
      /\ req[r].msg \in Msgs /\ accepted[req[r].msg] \in Nat
  BY InFlightType DEF IInv, DeliverPartly, Running, Pcs, TypeOK
<1>1. /\ req'[r] \in Running /\ req'[r].msg = req[r].msg
      /\ req' \in [Requests -> {Idle} \cup Running]
      /\ \A s \in Requests : s # r => req'[s] = req[s]
  BY <1>0, OutcomeStep DEF DeliverPartly
<1>2. /\ UNCHANGED <<fresh, rows, rcpts, blobs, mailed, raced, torn, purged>>
      /\ partial' = partial \cup {req[r].msg}
      /\ accepted' = [accepted EXCEPT ![req[r].msg] = @ + 1]
  BY DEF DeliverPartly, tables
<1>3. TypeOK'  BY <1>0, <1>1, <1>2 DEF TypeOK
<1>4. \A m \in Msgs : m # req[r].msg => accepted'[m] = accepted[m]
  BY <1>0, <1>2 DEF TypeOK
<1>5. ~Sound(req[r].msg)'  BY <1>1, <1>2 DEF Sound
<1> QED  BY <1>0, <1>1, <1>2, <1>3, <1>4, <1>5, ResumeInv

(* Record: the status says whether the mail went out. *)
LEMMA RecordInv ==
  ASSUME IInv, NEW r \in Requests, Record(r)
  PROVE  IInv'
<1> DEFINE new == Settled(req[r].row, req[r].ok)
           saved == Upsert(rows[req[r].msg], new)
<1>0. /\ TypeOK /\ req[r] \in Running /\ req[r].pc = "record" /\ req[r].pc \in Pcs
      /\ req[r].msg \in Msgs /\ req[r].row \in Row /\ req[r].ok \in BOOLEAN
      /\ rows[req[r].msg] \in Row \cup {None}
  BY InFlightType DEF IInv, Record, Running, Pcs, TypeOK
<1>1. /\ req'[r].pc = "done" /\ req'[r].msg = req[r].msg
      /\ req' \in [Requests -> {Idle} \cup Running]
      /\ \A s \in Requests : s # r => req'[s] = req[s]
  BY <1>0, PcStep DEF Record
<1>2. /\ UNCHANGED <<fresh, rcpts, blobs, accepted, mailed, partial, raced, torn, purged>>
      /\ rows' = [rows EXCEPT ![req[r].msg] = saved]
  BY DEF Record, history
<1>3. /\ saved \in Row /\ saved # None /\ saved.status = req[r].row.status
      /\ saved.delivery = IF req[r].ok THEN "SENT" ELSE "FAILED"
  <2>1. /\ new \in Row /\ new.status = req[r].row.status
        /\ new.delivery = IF req[r].ok THEN "SENT" ELSE "FAILED"
    BY <1>0, SettledType
  <2> HIDE DEF new
  <2> QED  BY <1>0, <2>1, UpsertType
<1> HIDE DEF saved
<1>4. TypeOK'  BY <1>0, <1>1, <1>2, <1>3 DEF TypeOK
<1>5. /\ rows'[req[r].msg] = saved
      /\ \A m \in Msgs : m # req[r].msg => rows'[m] = rows[m]
  BY <1>0, <1>2 DEF TypeOK
<1>6. ASSUME RowTruth(req[r].msg), Holds(req[r])
      PROVE  RowTruth(req[r].msg)' /\ (req'[r].pc \in Pcs => Holds(req[r])')
  <2>1. /\ QueuedRow(rows[req[r].msg]) /\ QueuedRow(req[r].row)
        /\ accepted[req[r].msg] = IF req[r].ok THEN 1 ELSE 0
    BY <1>0, <1>6 DEF Holds
  <2>2. rcpts[req[r].msg] # None /\ req[r].msg \notin purged
    BY <1>6, <2>1 DEF RowTruth, QueuedRow
  <2>3. RowTruth(req[r].msg)'
    BY <1>1, <1>2, <1>3, <1>5, <2>1, <2>2 DEF RowTruth, QueuedRow
  <2>4. req'[r].pc \notin Pcs  BY <1>1 DEF Pcs
  <2> QED  BY <2>3, <2>4
<1> QED  BY <1>0, <1>1, <1>2, <1>4, <1>5, <1>6, ResumeInv

LEMMA DeleteRowInv ==
  ASSUME IInv, NEW r \in Requests, DeleteRow(r)
  PROVE  IInv'
<1> DEFINE pc == IF req[r].row.raw THEN "deleteRaw" ELSE "done"
<1>0. /\ TypeOK /\ req[r] \in Running /\ req[r].pc = "deleteRow" /\ req[r].pc \in Pcs
      /\ req[r].msg \in Msgs /\ pc \in Pcs \cup {"done", "evicted"}
  BY InFlightType DEF IInv, DeleteRow, Running, Pcs
<1>1. req' = [req EXCEPT ![r].pc = pc]  BY DEF DeleteRow
<1>2. /\ req'[r].pc = pc /\ req'[r].msg = req[r].msg /\ req'[r].kind = req[r].kind
      /\ req' \in [Requests -> {Idle} \cup Running]
      /\ \A s \in Requests : s # r => req'[s] = req[s]
  <2> HIDE DEF pc
  <2> QED  BY <1>0, <1>1, PcStep
<1>3. /\ UNCHANGED <<fresh, blobs, accepted, mailed, partial, raced, torn>>
      /\ rows' = [rows EXCEPT ![req[r].msg] = None]
      /\ rcpts' = [rcpts EXCEPT ![req[r].msg] = None]
      /\ purged' = purged \cup {req[r].msg}
  BY DEF DeleteRow
<1>4. TypeOK'  BY <1>0, <1>2, <1>3 DEF TypeOK
<1>5. /\ rows'[req[r].msg] = None
      /\ \A m \in Msgs : m # req[r].msg => rows'[m] = rows[m] /\ rcpts'[m] = rcpts[m]
                                           /\ (m \in purged' <=> m \in purged)
  BY <1>0, <1>3 DEF TypeOK
<1>6. ASSUME RowTruth(req[r].msg), Holds(req[r])
      PROVE  RowTruth(req[r].msg)' /\ (req'[r].pc \in Pcs => Holds(req[r])')
  <2>1. req[r].kind = "delete" /\ rows[req[r].msg] # None  BY <1>0, <1>6 DEF Holds
  <2>2. accepted[req[r].msg] <= 1
    BY <1>0, <1>6, <2>1 DEF RowTruth, TypeOK, Row
  <2>3. RowTruth(req[r].msg)'  BY <1>2, <1>3, <1>5, <2>2 DEF RowTruth
  <2>4. req'[r].pc \in Pcs => Holds(req[r])'
    BY <1>2, <1>5, <2>1 DEF Holds, Pcs
  <2> QED  BY <2>3, <2>4
<1> QED  BY <1>0, <1>2, <1>3, <1>4, <1>5, <1>6, ResumeInv

LEMMA DeleteRawInv ==
  ASSUME IInv, NEW r \in Requests, DeleteRaw(r)
  PROVE  IInv'
<1>0. /\ TypeOK /\ req[r] \in Running /\ req[r].pc = "deleteRaw" /\ req[r].pc \in Pcs
      /\ req[r].msg \in Msgs
  BY InFlightType DEF IInv, DeleteRaw, Running, Pcs
<1>1. /\ req'[r].pc = "done" /\ req'[r].msg = req[r].msg
      /\ req' \in [Requests -> {Idle} \cup Running]
      /\ \A s \in Requests : s # r => req'[s] = req[s]
  BY <1>0, PcStep DEF DeleteRaw
<1>2. /\ UNCHANGED <<fresh, rows, rcpts, accepted, mailed, partial, raced, torn, purged>>
      /\ blobs' \in [Msgs -> Source \cup {None}]
  BY <1>0 DEF DeleteRaw, history, TypeOK
<1>3. TypeOK'  BY <1>0, <1>1, <1>2 DEF TypeOK
<1>4. ASSUME RowTruth(req[r].msg)
      PROVE  RowTruth(req[r].msg)' /\ (req'[r].pc \in Pcs => Holds(req[r])')
  <2>1. RowTruth(req[r].msg)'  BY <1>1, <1>2, <1>4 DEF RowTruth
  <2>2. req'[r].pc \notin Pcs  BY <1>1 DEF Pcs
  <2> QED  BY <2>1, <2>2
<1> QED  BY <1>0, <1>1, <1>2, <1>3, <1>4, ResumeInv

(* Evict: what a request held is lost, the tables stay as they were. *)
LEMMA EvictInv ==
  ASSUME IInv, NEW r \in Requests, Evict(r)
  PROVE  IInv'
<1>0. TypeOK /\ req[r] \in Running /\ req[r].pc \in Pcs /\ req[r].msg \in Msgs
  BY InFlightType DEF IInv, Evict, Running
<1>1. /\ req'[r].pc = "evicted" /\ req'[r].msg = req[r].msg
      /\ req' \in [Requests -> {Idle} \cup Running]
      /\ \A s \in Requests : s # r => req'[s] = req[s]
  BY <1>0, PcStep DEF Evict
<1>2. /\ UNCHANGED <<fresh, rows, rcpts, blobs, accepted, mailed, partial, raced, purged>>
      /\ torn' \subseteq Msgs
  BY <1>0 DEF Evict, tables, TypeOK
<1>3. TypeOK'  BY <1>0, <1>1, <1>2 DEF TypeOK
<1>4. ASSUME RowTruth(req[r].msg)
      PROVE  RowTruth(req[r].msg)' /\ (req'[r].pc \in Pcs => Holds(req[r])')
  <2>1. RowTruth(req[r].msg)'  BY <1>1, <1>2, <1>4 DEF RowTruth
  <2>2. req'[r].pc \notin Pcs  BY <1>1 DEF Pcs
  <2> QED  BY <2>1, <2>2
<1> QED  BY <1>0, <1>1, <1>2, <1>3, <1>4, ResumeInv

-----------------------------------------------------------------------------
(* Begin: the request record, and who else was at work on the message. *)
LEMMA BeginFacts ==
  ASSUME TypeOK, NEW r \in Requests, NEW kind \in Kinds, NEW m \in Msgs, NEW pc \in Pcs,
         NEW row \in Row, NEW to \in Versions \cup {None}, Begin(r, kind, m, pc, row, to)
  PROVE  /\ req'[r] \in Running /\ req'[r].pc = pc /\ req'[r].kind = kind
         /\ req'[r].msg = m /\ req'[r].row = row /\ req'[r].to = to
         /\ req' \in [Requests -> {Idle} \cup Running]
         /\ \A s \in Requests : s # r => req'[s] = req[s]
         /\ req[r].pc \notin Pcs /\ req[r].msg \notin Msgs
         /\ raced \subseteq raced' /\ raced' \subseteq Msgs
         /\ \A s \in Requests : InFlight(s, m) => m \in raced'
         /\ UNCHANGED <<rows, rcpts, blobs, accepted, mailed, partial, torn, purged>>
<1> DEFINE new == [Idle EXCEPT !.pc = pc, !.kind = kind, !.msg = m, !.row = row, !.to = to]
<1>1. /\ new \in Running /\ new.pc = pc /\ new.kind = kind /\ new.msg = m
      /\ new.row = row /\ new.to = to
  BY DEF Idle, Running
<1>2. req' = [req EXCEPT ![r] = new]  BY DEF Begin
<1> HIDE DEF new
<1>3. /\ req'[r] = new /\ req' \in [Requests -> {Idle} \cup Running]
      /\ \A s \in Requests : s # r => req'[s] = req[s]
  BY <1>1, <1>2, ReqUpdate
<1>4. req[r].pc = "idle" /\ req[r] \in {Idle} \cup Running  BY DEF Begin, TypeOK
<1>5. req[r].pc \notin Pcs /\ req[r].msg \notin Msgs
  <2>1. req[r] \notin Running  BY <1>4 DEF Running, Pcs
  <2> QED  BY <1>4, <2>1, NoneAssumption DEF Idle, Pcs
<1>6. /\ raced \subseteq raced' /\ raced' \subseteq Msgs
      /\ \A s \in Requests : InFlight(s, m) => m \in raced'
  BY DEF Begin, TypeOK
<1> QED  BY <1>1, <1>3, <1>5, <1>6 DEF Begin, tables

(* A request that begins: an overlap is noted, so it is enough that it     *)
(* begins with what it should hold.                                        *)
LEMMA StartInv ==
  ASSUME IInv, NEW r \in Requests, NEW kind \in Kinds, NEW m \in Msgs, NEW pc \in Pcs,
         NEW row \in Row, NEW to \in Versions \cup {None}, Begin(r, kind, m, pc, row, to),
         fresh' \subseteq fresh, m \notin fresh',
         Sound(m) => Holds(req[r])'
  PROVE  IInv'
<1>0. TypeOK  BY DEF IInv
<1>1. /\ req'[r] \in Running /\ req'[r].msg = m
      /\ req' \in [Requests -> {Idle} \cup Running]
      /\ \A s \in Requests : s # r => req'[s] = req[s]
      /\ req[r].pc \notin Pcs /\ req[r].msg \notin Msgs
  BY <1>0, BeginFacts
<1>2. /\ raced \subseteq raced' /\ raced' \subseteq Msgs
      /\ \A s \in Requests : InFlight(s, m) => m \in raced'
      /\ UNCHANGED <<rows, rcpts, blobs, accepted, mailed, partial, torn, purged>>
  BY <1>0, BeginFacts
<1>3. TypeOK'  BY <1>0, <1>1, <1>2 DEF TypeOK
<1>4. \A n \in Msgs : Sound(n)' => Sound(n)  BY <1>2 DEF Sound
<1>5. ASSUME NEW n \in Msgs, n # m PROVE MsgInv(n)'
  <2>1. req[r].msg # n /\ req'[r].msg # n /\ (n \in fresh' => n \in fresh)
    BY <1>1, <1>5
  <2> QED  BY <1>1, <1>2, <1>4, <2>1, OtherMessages
<1>6. MsgInv(m)'
  <2>1. MsgInv(m) /\ (Sound(m)' => Sound(m))  BY <1>4 DEF IInv
  <2>2. ASSUME Sound(m)', NEW s \in Requests, InFlight(s, m)' PROVE s = r
    <3>1. ~InFlight(s, m)  BY <1>2, <2>2 DEF Sound
    <3> QED  BY <1>1, <2>2, <3>1 DEF InFlight
  <2>3. Sound(m)' => RowTruth(m)'  BY <1>2, <2>1 DEF MsgInv, RowTruth
  <2>4. ASSUME Sound(m)', NEW s \in Requests, InFlight(s, m)' PROVE Holds(req[s])'
    BY <2>1, <2>2, <2>4
  <2> QED  BY <2>2, <2>3, <2>4 DEF MsgInv
<1> QED  BY <1>3, <1>5, <1>6 DEF IInv

LEMMA BeginSendInv ==
  ASSUME IInv, NEW r \in Requests, BeginSend(r)
  PROVE  IInv'
<1>1. PICK m \in fresh, v \in Versions :
        /\ Begin(r, "send", m, "storeRaw", NewMessage(v), v) /\ fresh' = fresh \ {m}
  BY VersionsAssumption DEF BeginSend
<1>2. TypeOK /\ m \in Msgs /\ MsgInv(m) /\ "send" \in Kinds /\ "storeRaw" \in Pcs
      /\ v # None
  BY NoneAssumption DEF IInv, TypeOK, Kinds, Pcs
<1>3. NewMessage(v) \in Row /\ NewMessage(v).status = "SENT"
      /\ NewMessage(v).delivery = "QUEUED"
  BY NewRowTypes
<1>4. /\ req'[r].pc = "storeRaw" /\ req'[r].kind = "send" /\ req'[r].msg = m
      /\ req'[r].row = NewMessage(v) /\ req'[r].to = v
      /\ UNCHANGED <<rows, accepted, purged>>
  BY <1>1, <1>2, <1>3, BeginFacts
<1>5. rows[m] = None /\ accepted[m] = 0 /\ m \notin purged  BY <1>2 DEF MsgInv
<1>6. Holds(req[r])'  BY <1>2, <1>3, <1>4, <1>5 DEF Holds
<1> QED  BY <1>1, <1>2, <1>3, <1>6, StartInv

LEMMA BeginCreateInv ==
  ASSUME IInv, NEW r \in Requests, BeginCreate(r)
  PROVE  IInv'
<1>1. PICK m \in fresh, v \in Versions :
        /\ Begin(r, "create", m, "insert", NewDraft(v), v) /\ fresh' = fresh \ {m}
  BY DEF BeginCreate
<1>2. TypeOK /\ m \in Msgs /\ MsgInv(m) /\ "create" \in Kinds /\ "insert" \in Pcs
      /\ v # None
  BY NoneAssumption DEF IInv, TypeOK, Kinds, Pcs
<1>3. NewDraft(v) \in Row /\ NewDraft(v).status = "DRAFT"
      /\ NewDraft(v).delivery = "QUEUED"
  BY NewRowTypes
<1>4. /\ req'[r].pc = "insert" /\ req'[r].kind = "create" /\ req'[r].msg = m
      /\ req'[r].row = NewDraft(v) /\ req'[r].to = v
      /\ UNCHANGED <<rows, accepted, purged>>
  BY <1>1, <1>2, <1>3, BeginFacts
<1>5. rows[m] = None /\ accepted[m] = 0 /\ m \notin purged  BY <1>2 DEF MsgInv
<1>6. Holds(req[r])'  BY <1>2, <1>3, <1>4, <1>5 DEF Holds
<1> QED  BY <1>1, <1>2, <1>3, <1>6, StartInv

LEMMA BeginEditInv ==
  ASSUME IInv, NEW r \in Requests, BeginEdit(r)
  PROVE  IInv'
<1>1. PICK m \in Msgs, v \in Versions :
        /\ IsDraft(rows[m]) /\ Begin(r, "edit", m, "save", Edited(rows[m], v), v)
        /\ fresh' = fresh
  BY DEF BeginEdit
<1>2. TypeOK /\ MsgInv(m) /\ rows[m] \in Row /\ "edit" \in Kinds /\ "save" \in Pcs
      /\ v # None
  BY <1>1, NoneAssumption DEF IInv, TypeOK, IsDraft, Kinds, Pcs
<1>3. /\ Edited(rows[m], v) \in Row /\ Edited(rows[m], v) # None
      /\ Edited(rows[m], v).status = rows[m].status
      /\ Edited(rows[m], v).delivery = rows[m].delivery
  BY <1>2, EditedType, RowTypes
<1>4. /\ req'[r].pc = "save" /\ req'[r].kind = "edit" /\ req'[r].msg = m
      /\ req'[r].row = Edited(rows[m], v) /\ req'[r].to = v
      /\ UNCHANGED <<rows, accepted, purged>>
  BY <1>1, <1>2, <1>3, BeginFacts
<1>5. m \notin fresh'  BY <1>1, <1>2 DEF MsgInv, IsDraft
<1>6. ASSUME Sound(m) PROVE Holds(req[r])'
  <2>1. rows[m].delivery = "QUEUED"  BY <1>1, <1>2, <1>6 DEF MsgInv, RowTruth, IsDraft
  <2> QED  BY <1>1, <1>2, <1>3, <1>4, <2>1 DEF Holds, IsDraft
<1> QED  BY <1>1, <1>2, <1>3, <1>5, <1>6, StartInv

LEMMA BeginDispatchInv ==
  ASSUME IInv, NEW r \in Requests, BeginDispatch(r)
  PROVE  IInv'
<1>1. PICK m \in Msgs :
        /\ IsDraft(rows[m]) /\ Begin(r, "dispatch", m, "readTo", rows[m], None)
        /\ fresh' = fresh
  BY DEF BeginDispatch
<1>2. TypeOK /\ MsgInv(m) /\ rows[m] \in Row /\ "dispatch" \in Kinds /\ "readTo" \in Pcs
  BY <1>1 DEF IInv, TypeOK, IsDraft, Kinds, Pcs
<1>3. /\ req'[r].pc = "readTo" /\ req'[r].kind = "dispatch" /\ req'[r].msg = m
      /\ UNCHANGED <<rows, accepted, purged>>
  BY <1>1, <1>2, BeginFacts
<1>4. m \notin fresh'  BY <1>1, <1>2 DEF MsgInv, IsDraft
<1>5. Holds(req[r])'  BY <1>1, <1>3 DEF Holds, IsDraft
<1> QED  BY <1>1, <1>2, <1>4, <1>5, StartInv

LEMMA BeginRetryInv ==
  ASSUME IInv, NEW r \in Requests, BeginRetry(r)
  PROVE  IInv'
<1>1. PICK m \in Msgs :
        /\ CanRetry(rows[m]) /\ Begin(r, "retry", m, "readTo", rows[m], None)
        /\ fresh' = fresh
  BY DEF BeginRetry
<1>2. TypeOK /\ MsgInv(m) /\ rows[m] \in Row /\ "retry" \in Kinds /\ "readTo" \in Pcs
  BY <1>1 DEF IInv, TypeOK, CanRetry, Kinds, Pcs
<1>3. /\ req'[r].pc = "readTo" /\ req'[r].kind = "retry" /\ req'[r].msg = m
      /\ req'[r].row = rows[m] /\ UNCHANGED <<rows, accepted, purged>>
  BY <1>1, <1>2, BeginFacts
<1>4. m \notin fresh'  BY <1>1, <1>2 DEF MsgInv, CanRetry
<1>5. ASSUME Sound(m) PROVE Holds(req[r])'
  <2>1. rows[m].status = "SENT"
    BY <1>1, <1>2, <1>5 DEF MsgInv, RowTruth, CanRetry, Row
  <2> QED  BY <1>1, <1>3, <2>1 DEF Holds, CanRetry
<1> QED  BY <1>1, <1>2, <1>4, <1>5, StartInv

LEMMA BeginDeleteInv ==
  ASSUME IInv, NEW r \in Requests, BeginDelete(r)
  PROVE  IInv'
<1>1. PICK m \in Msgs :
        /\ rows[m] # None /\ Begin(r, "delete", m, "deleteRow", rows[m], None)
        /\ fresh' = fresh
  BY DEF BeginDelete
<1>2. TypeOK /\ MsgInv(m) /\ rows[m] \in Row /\ "delete" \in Kinds /\ "deleteRow" \in Pcs
  BY <1>1 DEF IInv, TypeOK, Kinds, Pcs
<1>3. /\ req'[r].pc = "deleteRow" /\ req'[r].kind = "delete" /\ req'[r].msg = m
      /\ UNCHANGED <<rows, accepted, purged>>
  BY <1>1, <1>2, BeginFacts
<1>4. m \notin fresh'  BY <1>1, <1>2 DEF MsgInv
<1>5. Holds(req[r])'  BY <1>1, <1>3 DEF Holds
<1> QED  BY <1>1, <1>2, <1>4, <1>5, StartInv

-----------------------------------------------------------------------------
LEMMA NextInv == IInv /\ [Next]_vars => IInv'
<1> SUFFICES ASSUME IInv, [Next]_vars PROVE IInv'  OBVIOUS
<1>1. CASE Next
  <2>1. PICK r \in Requests : Start(r) \/ Resume(r) \/ Evict(r)  BY <1>1 DEF Next
  <2>2. CASE Start(r)
    BY <2>2, BeginSendInv, BeginCreateInv, BeginEditInv, BeginDispatchInv,
       BeginRetryInv, BeginDeleteInv DEF Start
  <2>3. CASE Resume(r)
    BY <2>3, ReadToInv, StoreRawInv, InsertInv, SaveInv, ReplaceRecipientsInv,
       ReadRawInv, DeliverAcceptedInv, DeliverRefusedInv, DeliverPartlyInv,
       RecordInv, DeleteRowInv, DeleteRawInv DEF Resume
  <2>4. CASE Evict(r)  BY <2>4, EvictInv
  <2> QED  BY <2>1, <2>2, <2>3, <2>4
<1>2. CASE UNCHANGED vars
  <2>1. TypeOK'  BY <1>2 DEF IInv, TypeOK, vars, tables, history
  <2>2. ASSUME NEW m \in Msgs PROVE MsgInv(m)'
    <3>1. MsgInv(m)  BY DEF IInv
    <3>2. UNCHANGED <<fresh, rows, rcpts, req, accepted, partial, raced, purged>>
      BY <1>2 DEF vars, tables, history
    <3> QED  BY <3>1, <3>2 DEF MsgInv, Sound, InFlight, Holds, RowTruth
  <2> QED  BY <2>1, <2>2 DEF IInv
<1> QED  BY <1>1, <1>2

(* In every reachable state what a request holds of a message left alone   *)
(* agrees with the tables.                                                 *)
LEMMA StatusInvariant == Spec => []IInv
BY InitInv, NextInv, PTL DEF Spec

(* No message left alone is mailed twice (guards of sendDraft, retrySend). *)
THEOREM MailedOnce == Spec => []MailedAtMostOnce
<1>1. IInv => MailedAtMostOnce
  <2> SUFFICES ASSUME IInv, NEW m \in Msgs, Sound(m) PROVE accepted[m] <= 1
    BY DEF MailedAtMostOnce
  <2>1. RowTruth(m) /\ rows[m] \in Row \cup {None} /\ accepted[m] \in Nat
    BY DEF IInv, MsgInv, TypeOK
  <2> QED  BY <2>1 DEF RowTruth, Row
<1> QED  BY <1>1, StatusInvariant, PTL

(* The delivery status of a message left alone tells the truth (deliver). *)
THEOREM TruthfulStatus == Spec => []StatusTellsTruth
<1>1. IInv => StatusTellsTruth
  BY DEF IInv, MsgInv, RowTruth, StatusTellsTruth
<1> QED  BY <1>1, StatusInvariant, PTL

-----------------------------------------------------------------------------
(* What the tables store.  Initially nothing is stored or held. *)
LEMMA InitStored ==
  ASSUME Init, NEW m \in Msgs
  PROVE  StoredInv(m)
BY NoneAssumption DEF Init, StoredInv, StoredTruth, InFlight, Idle, Pcs

(* A message that a step does not touch. *)
LEMMA StoredOther ==
  ASSUME NEW r \in Requests, NEW m \in Msgs, StoredInv(m),
         \A s \in Requests : s # r => req'[s] = req[s],
         req[r].msg # m, req'[r].msg # m,
         rows'[m] = rows[m], rcpts'[m] = rcpts[m], blobs'[m] = blobs[m],
         mailed'[m] = mailed[m], m \in torn => m \in torn',
         m \in fresh' => m \in fresh, m \in raced => m \in raced'
  PROVE  StoredInv(m)'
<1>1. m \in fresh' => /\ rows'[m] = None /\ mailed'[m] = None
                      /\ \A s \in Requests : req'[s].msg # m
  BY DEF StoredInv
<1>2. /\ \A s \in Requests : InFlight(s, m)' <=> InFlight(s, m)
      /\ \A s \in Requests : InFlight(s, m) => s # r
  BY DEF InFlight
<1>3. ASSUME m \notin raced'
      PROVE  \A s, t \in Requests : InFlight(s, m)' /\ InFlight(t, m)' => s = t
  BY <1>2, <1>3 DEF StoredInv
<1>4. ASSUME m \notin raced', NEW s \in Requests, InFlight(s, m)'
      PROVE  Carries(req[s])'
  <2>1. Carries(req[s]) /\ req'[s] = req[s] /\ req[s].msg = m
    BY <1>2, <1>4 DEF StoredInv, InFlight
  <2> QED  BY <2>1 DEF Carries, Stored
<1>5. ASSUME m \notin raced' PROVE StoredTruth(m)'
  <2>1. Rewriting(m) => Rewriting(m)'
    BY <1>2 DEF Rewriting
  <2>2. StoredTruth(m)  BY <1>5 DEF StoredInv
  <2> QED  BY <2>1, <2>2 DEF StoredTruth, Stored
<1> QED  BY <1>1, <1>3, <1>4, <1>5 DEF StoredInv

(* The step of a request in flight: enough that what it carries and what   *)
(* the tables say of its own message go on to agree.                       *)
Agrees(r) ==
  /\ Carries(req[r]) /\ StoredTruth(req[r].msg)
  /\ Rewriting(req[r].msg) => req[r].pc = "recipients"

LEMMA StoredStep ==
  ASSUME PipelineInv, NEW r \in Requests, req[r].pc \in Pcs,
         \A s \in Requests : s # r => req'[s] = req[s],
         req'[r].msg = req[r].msg, fresh' = fresh, raced' = raced, torn \subseteq torn',
         \A m \in Msgs : m # req[r].msg =>
           /\ rows'[m] = rows[m] /\ rcpts'[m] = rcpts[m]
           /\ blobs'[m] = blobs[m] /\ mailed'[m] = mailed[m],
         Agrees(r) => /\ StoredTruth(req[r].msg)'
                      /\ req'[r].pc \in Pcs => Carries(req[r])'
  PROVE  \A m \in Msgs : StoredInv(m)'
<1>0. TypeOK /\ req[r] \in Running /\ \A m \in Msgs : StoredInv(m)
  BY InFlightType DEF PipelineInv, IInv
<1>1. ASSUME NEW m \in Msgs, m # req[r].msg PROVE StoredInv(m)'
  BY <1>0, <1>1, StoredOther
<1>2. ASSUME NEW m \in Msgs, m = req[r].msg PROVE StoredInv(m)'
  <2>1. StoredInv(m) /\ InFlight(r, m)  BY <1>0, <1>2 DEF InFlight
  <2>2. m \notin fresh'  BY <1>2, <2>1 DEF StoredInv
  <2>3. \A s \in Requests : s # r => (InFlight(s, m)' <=> InFlight(s, m))
    BY DEF InFlight
  <2>4. ASSUME m \notin raced' PROVE StoredTruth(m)' /\ (req'[r].pc \in Pcs => Carries(req[r])')
    <3>1. \A s \in Requests : InFlight(s, m) => s = r
      BY <2>1, <2>4 DEF StoredInv
    <3>2. Agrees(r)
      BY <1>2, <2>1, <2>4, <3>1 DEF Agrees, Rewriting, StoredInv
    <3>3. StoredTruth(m)' = StoredTruth(req[r].msg)'
      BY <1>2 DEF StoredTruth, Stored, Rewriting, InFlight
    <3> QED  BY <3>2, <3>3
  <2>5. ASSUME m \notin raced', NEW s \in Requests, InFlight(s, m)'
        PROVE  s = r
    BY <2>1, <2>3, <2>5 DEF StoredInv
  <2>6. ASSUME m \notin raced', NEW s \in Requests, InFlight(s, m)'
        PROVE  Carries(req[s])'
    BY <2>4, <2>5, <2>6 DEF InFlight
  <2> QED  BY <2>2, <2>4, <2>5, <2>6 DEF StoredInv
<1> QED  BY <1>1, <1>2

(* What a request in flight is, in every step below. *)
LEMMA FlightFacts ==
  ASSUME PipelineInv, NEW r \in Requests, req[r].pc \in Pcs
  PROVE  /\ TypeOK /\ req[r] \in Running /\ req[r].msg \in Msgs
         /\ req[r].row \in Row /\ req[r].row # None
         /\ req[r].to \in Versions \cup {None}
         /\ rows[req[r].msg] \in Row \cup {None}
         /\ rcpts[req[r].msg] \in Versions \cup {None}
         /\ req[r].source \in Source \cup {None}
         /\ req[r].kind \in Kinds /\ req[r].ok \in BOOLEAN
BY InFlightType, RowTypes DEF PipelineInv, IInv, TypeOK, Running

(* What the helpers on rows do to the body and the status. *)
LEMMA RowBodies ==
  ASSUME NEW row \in Row
  PROVE  /\ Submitted(row).body = row.body /\ Submitted(row).status = "SENT"
         /\ Requeued(row).body = row.body /\ Requeued(row).status = row.status
         /\ \A ok \in BOOLEAN : /\ Settled(row, ok).body = row.body
                                /\ Settled(row, ok).status = row.status
         /\ \A v \in Versions : Edited(row, v).body = v
         /\ \A old \in Row \cup {None} : /\ Upsert(old, row).body = row.body
                                         /\ Upsert(old, row).status = row.status
                                         /\ Upsert(old, row).delivery = row.delivery
                                         /\ Upsert(old, row) # None
<1>1. /\ Submitted(row).body = row.body /\ Submitted(row).status = "SENT"
      /\ Requeued(row).body = row.body /\ Requeued(row).status = row.status
      /\ \A v \in Versions : Edited(row, v).body = v
  BY DEF Submitted, Requeued, Edited, Row
<1>2. \A ok \in BOOLEAN : Settled(row, ok).body = row.body /\ Settled(row, ok).status = row.status
  BY DEF Settled, Row
<1>3. ASSUME NEW old \in Row \cup {None} PROVE Upsert(old, row).body = row.body
  BY DEF Upsert, Row
<1> QED  BY <1>1, <1>2, <1>3, UpsertType

LEMMA ReadToStored ==
  ASSUME PipelineInv, NEW r \in Requests, ReadTo(r)
  PROVE  \A m \in Msgs : StoredInv(m)'
<1>0. req[r].pc = "readTo" /\ req[r].pc \in Pcs  BY DEF ReadTo, Pcs
<1>1. /\ TypeOK /\ req[r] \in Running /\ req[r].msg \in Msgs /\ req[r].row \in Row
      /\ req[r].row # None /\ rows[req[r].msg] \in Row \cup {None}
      /\ rcpts[req[r].msg] \in Versions \cup {None}
  BY <1>0, FlightFacts
<1>2. UNCHANGED <<fresh, rows, rcpts, blobs, mailed, raced, torn>>
  BY DEF ReadTo, tables, history
<1>3. /\ req'[r].msg = req[r].msg /\ req'[r].kind = req[r].kind
      /\ \/ /\ req[r].kind = "retry" /\ req'[r].pc = "save" /\ req'[r].to = rcpts[req[r].msg]
            /\ req'[r].row = Requeued(req[r].row)
         \/ req'[r].pc = "done"
         \/ /\ req[r].kind # "retry" /\ req'[r].pc = "storeRaw"
            /\ req'[r].to = rcpts[req[r].msg] /\ req'[r].row = Submitted(req[r].row)
      /\ \A s \in Requests : s # r => req'[s] = req[s]
  <2>1. /\ \/ /\ req[r].kind = "retry"
              /\ req'[r] = [req[r] EXCEPT !.pc = "save", !.to = rcpts[req[r].msg],
                                          !.row = Requeued(req[r].row)]
           \/ req'[r] = [req[r] EXCEPT !.pc = "done"]
           \/ /\ req[r].kind # "retry"
              /\ req'[r] = [req[r] EXCEPT !.pc = "storeRaw", !.to = rcpts[req[r].msg],
                                          !.row = Submitted(req[r].row)]
        /\ \A s \in Requests : s # r => req'[s] = req[s]
    BY <1>1 DEF ReadTo, TypeOK
  <2> QED  BY <1>1, <2>1 DEF Running
<1>4. ASSUME Agrees(r)
      PROVE  StoredTruth(req[r].msg)' /\ (req'[r].pc \in Pcs => Carries(req[r])')
  <2>1. StoredTruth(req[r].msg)'
    BY <1>2, <1>3, <1>4, <1>0 DEF Agrees, StoredTruth, Stored, Rewriting
  <2>2. CASE req'[r].pc = "save"
    <3>1. /\ req[r].kind = "retry" /\ CanRetry(rows[req[r].msg])
          /\ req[r].row = rows[req[r].msg]
      BY <1>0, <1>3, <1>4, <2>2 DEF Agrees, Carries
    <3> QED  BY <1>2, <1>3, <2>1, <2>2, <3>1 DEF Carries, CanRetry
  <2>3. CASE req'[r].pc = "storeRaw"
    <3>1. /\ req[r].kind = "dispatch" /\ IsDraft(rows[req[r].msg])
          /\ req[r].row = rows[req[r].msg]
      BY <1>0, <1>3, <1>4, <2>3 DEF Agrees, Carries
    <3> QED  BY <1>2, <1>3, <2>1, <2>3, <3>1 DEF Carries, IsDraft
  <2> QED  BY <1>3, <2>1, <2>2, <2>3 DEF Pcs
<1> QED  BY <1>0, <1>2, <1>3, <1>4, StoredStep

LEMMA StoreRawStored ==
  ASSUME PipelineInv, NEW r \in Requests, StoreRaw(r)
  PROVE  \A m \in Msgs : StoredInv(m)'
<1>0. req[r].pc = "storeRaw" /\ req[r].pc \in Pcs  BY DEF StoreRaw, Pcs
<1>1. TypeOK /\ req[r] \in Running /\ req[r].msg \in Msgs
  BY <1>0, FlightFacts
<1>2. UNCHANGED <<fresh, rows, rcpts, mailed, raced, torn>>
  BY DEF StoreRaw, history
<1>3. /\ req'[r].msg = req[r].msg /\ req'[r].kind = req[r].kind
      /\ req'[r].row = req[r].row /\ req'[r].to = req[r].to
      /\ req'[r].source = Built(req[r])
      /\ req'[r].pc = IF req[r].kind = "send" THEN "insert" ELSE "save"
      /\ \A s \in Requests : s # r => req'[s] = req[s]
  <2>1. /\ req'[r] = [req[r] EXCEPT !.source = Built(req[r]),
                        !.pc = IF req[r].kind = "send" THEN "insert" ELSE "save"]
        /\ \A s \in Requests : s # r => req'[s] = req[s]
    BY <1>1 DEF StoreRaw, TypeOK, Built
  <2> QED  BY <1>1, <2>1 DEF Running
<1>4. /\ blobs'[req[r].msg] = Built(req[r])
      /\ \A m \in Msgs : m # req[r].msg => blobs'[m] = blobs[m]
  BY <1>1 DEF StoreRaw, TypeOK, Built
<1>5. ASSUME Agrees(r)
      PROVE  StoredTruth(req[r].msg)' /\ (req'[r].pc \in Pcs => Carries(req[r])')
  <2>1. \/ /\ req[r].kind = "send" /\ rows[req[r].msg] = None /\ mailed[req[r].msg] = None
           /\ req[r].to # None /\ req[r].row = NewMessage(req[r].to)
        \/ /\ req[r].kind = "dispatch" /\ IsDraft(rows[req[r].msg])
           /\ req[r].row = Submitted(rows[req[r].msg]) /\ req[r].to = rcpts[req[r].msg]
    BY <1>0, <1>5 DEF Agrees, Carries
  <2>2. StoredTruth(req[r].msg)'
    BY <1>0, <1>2, <1>3, <1>5, <2>1 DEF Agrees, StoredTruth, Stored, Rewriting, IsDraft
  <2>3. Built(req[r])' = Built(req[r])
    BY <1>3 DEF Built
  <2>4. Carries(req[r])'
    BY <1>2, <1>3, <1>4, <2>1, <2>3 DEF Carries, IsDraft
  <2> QED  BY <2>2, <2>4
<1> QED  BY <1>0, <1>2, <1>3, <1>4, <1>5, StoredStep

LEMMA InsertStored ==
  ASSUME PipelineInv, NEW r \in Requests, Insert(r)
  PROVE  \A m \in Msgs : StoredInv(m)'
<1>0. req[r].pc = "insert" /\ req[r].pc \in Pcs  BY DEF Insert, Pcs
<1>1. /\ TypeOK /\ req[r] \in Running /\ req[r].msg \in Msgs /\ req[r].row \in Row
      /\ req[r].to \in Versions \cup {None}
  BY <1>0, FlightFacts
<1>2. UNCHANGED <<fresh, blobs, mailed, raced, torn>>
  BY DEF Insert, history
<1>3. /\ req'[r].msg = req[r].msg /\ req'[r].kind = req[r].kind
      /\ req'[r].row = req[r].row /\ req'[r].to = req[r].to
      /\ req'[r].source = req[r].source
      /\ req'[r].pc = IF req[r].kind = "send" THEN "deliver" ELSE "done"
      /\ \A s \in Requests : s # r => req'[s] = req[s]
  <2>1. /\ req'[r] = [req[r] EXCEPT !.pc = IF req[r].kind = "send" THEN "deliver" ELSE "done"]
        /\ \A s \in Requests : s # r => req'[s] = req[s]
    BY <1>1 DEF Insert, TypeOK
  <2> QED  BY <1>1, <2>1 DEF Running
<1>4. /\ rows'[req[r].msg] = Upsert(rows[req[r].msg], req[r].row)
      /\ rcpts'[req[r].msg] = req[r].to
      /\ \A m \in Msgs : m # req[r].msg => rows'[m] = rows[m] /\ rcpts'[m] = rcpts[m]
  BY <1>1 DEF Insert, TypeOK
<1>5. ASSUME Agrees(r)
      PROVE  StoredTruth(req[r].msg)' /\ (req'[r].pc \in Pcs => Carries(req[r])')
  <2>1. /\ rows[req[r].msg] = None /\ mailed[req[r].msg] = None /\ req[r].to \in Versions
        /\ \/ /\ req[r].kind = "send" /\ req[r].row = NewMessage(req[r].to)
              /\ blobs[req[r].msg] = Built(req[r]) /\ req[r].source = Built(req[r])
           \/ req[r].kind = "create" /\ req[r].row = NewDraft(req[r].to)
    BY <1>0, <1>1, <1>5 DEF Agrees, Carries
  <2>2. rows'[req[r].msg] = req[r].row  BY <1>4, <2>1 DEF Upsert
  <2>3. /\ req[r].row.body = req[r].to /\ req[r].row.delivery = "QUEUED"
        /\ req[r].row.status = IF req[r].kind = "send" THEN "SENT" ELSE "DRAFT"
        /\ req[r].row # None /\ req[r].to # None
    BY <1>1, <2>1, RowTypes, NoneAssumption DEF NewMessage, NewDraft
  <2>4. Stored(req[r].msg)' = Built(req[r])
    BY <1>3, <1>4, <2>2 DEF Stored, Built
  <2>5. StoredTruth(req[r].msg)'
    BY <1>2, <1>3, <1>4, <2>1, <2>2, <2>3, <2>4 DEF StoredTruth
  <2>6. CASE req[r].kind = "send"
    BY <1>2, <1>3, <1>4, <2>1, <2>2, <2>3, <2>4, <2>5, <2>6 DEF Carries
  <2>7. CASE req[r].kind = "create"
    BY <1>3, <2>5, <2>7 DEF Pcs
  <2> QED  BY <2>1, <2>6, <2>7
<1> QED  BY <1>0, <1>2, <1>3, <1>4, <1>5, StoredStep

LEMMA SaveStored ==
  ASSUME PipelineInv, NEW r \in Requests, Save(r)
  PROVE  \A m \in Msgs : StoredInv(m)'
<1>0. req[r].pc = "save" /\ req[r].pc \in Pcs  BY DEF Save, Pcs
<1>1. /\ TypeOK /\ req[r] \in Running /\ req[r].msg \in Msgs /\ req[r].row \in Row
      /\ rows[req[r].msg] \in Row \cup {None}
  BY <1>0, FlightFacts
<1>2. UNCHANGED <<fresh, rcpts, blobs, mailed, raced, torn>>
  BY DEF Save, history
<1>3. /\ req'[r].msg = req[r].msg /\ req'[r].kind = req[r].kind
      /\ req'[r].row = req[r].row /\ req'[r].to = req[r].to
      /\ req'[r].source = req[r].source
      /\ req'[r].pc = IF req[r].kind = "edit" THEN "recipients"
                      ELSE IF req[r].kind = "retry" THEN "readRaw" ELSE "deliver"
      /\ \A s \in Requests : s # r => req'[s] = req[s]
  <2>1. /\ req'[r] = [req[r] EXCEPT !.pc = IF req[r].kind = "edit" THEN "recipients"
                      ELSE IF req[r].kind = "retry" THEN "readRaw" ELSE "deliver"]
        /\ \A s \in Requests : s # r => req'[s] = req[s]
    BY <1>1 DEF Save, TypeOK
  <2> QED  BY <1>1, <2>1 DEF Running
<1>4. /\ rows'[req[r].msg] = Upsert(rows[req[r].msg], req[r].row)
      /\ \A m \in Msgs : m # req[r].msg => rows'[m] = rows[m]
  BY <1>1 DEF Save, TypeOK
<1>5. /\ rows'[req[r].msg].body = req[r].row.body
      /\ rows'[req[r].msg].status = req[r].row.status
      /\ rows'[req[r].msg].delivery = req[r].row.delivery
      /\ rows'[req[r].msg] # None
  BY <1>1, <1>4, RowBodies
<1>6. ASSUME Agrees(r)
      PROVE  StoredTruth(req[r].msg)' /\ (req'[r].pc \in Pcs => Carries(req[r])')
  <2>1. CASE req[r].kind = "edit"
    <3>1. /\ IsDraft(rows[req[r].msg]) /\ IsDraft(req[r].row)
          /\ req[r].row.delivery = "QUEUED" /\ req[r].to # None
          /\ req[r].row.body = req[r].to
      BY <1>0, <1>6, <2>1 DEF Agrees, Carries
    <3>2. InFlight(r, req[r].msg)' /\ req'[r].pc = "recipients"
      BY <1>3, <2>1 DEF InFlight, Pcs
    <3>3. StoredTruth(req[r].msg)'
      <4>1. Rewriting(req[r].msg)'  BY <3>2, <1>3 DEF Rewriting
      <4>2. rcpts[req[r].msg] # None /\ mailed[req[r].msg] = None
        BY <1>6, <3>1 DEF Agrees, StoredTruth, IsDraft
      <4> QED  BY <1>2, <1>3, <1>5, <3>1, <4>1, <4>2 DEF StoredTruth, IsDraft
    <3>4. Carries(req[r])'
      BY <1>3, <1>5, <2>1, <3>1 DEF Carries, IsDraft
    <3> QED  BY <3>3, <3>4
  <2>2. CASE req[r].kind \in {"dispatch", "retry"}
    <3>1. /\ rows[req[r].msg] # None /\ rows[req[r].msg] \in Row
          /\ req[r].to = rcpts[req[r].msg]
          /\ \/ /\ req[r].kind = "dispatch" /\ IsDraft(rows[req[r].msg])
                /\ req[r].row = Submitted(rows[req[r].msg])
                /\ blobs[req[r].msg] = Built(req[r]) /\ req[r].source = Built(req[r])
             \/ /\ req[r].kind = "retry" /\ CanRetry(rows[req[r].msg])
                /\ req[r].row = Requeued(rows[req[r].msg])
      BY <1>0, <1>1, <1>6, <2>2 DEF Agrees, Carries, IsDraft, CanRetry
    <3>2. StoredTruth(req[r].msg) /\ ~Rewriting(req[r].msg)
      BY <1>0, <1>6 DEF Agrees
    <3>3. rows[req[r].msg].status = "SENT" \/ req[r].kind = "dispatch"
      BY <3>1, <3>2 DEF StoredTruth, CanRetry, Row
    <3>4. /\ req[r].row.body = rows[req[r].msg].body /\ req[r].row.status = "SENT"
      BY <3>1, <3>3, RowBodies
    <3>5. /\ Stored(req[r].msg)' = Stored(req[r].msg)
          /\ Stored(req[r].msg) = Built(req[r])
      BY <1>2, <1>3, <1>5, <3>1, <3>4 DEF Stored, Built
    <3>6. mailed[req[r].msg] # None => mailed[req[r].msg] = Stored(req[r].msg)
      BY <3>1, <3>2 DEF StoredTruth
    <3>7. blobs[req[r].msg] = Stored(req[r].msg)
      BY <3>1, <3>2, <3>3, <3>5 DEF StoredTruth
    <3>8. StoredTruth(req[r].msg)'
      BY <1>2, <1>3, <1>5, <3>1, <3>2, <3>4, <3>5, <3>6, <3>7 DEF StoredTruth
    <3>9. Carries(req[r])'
      BY <1>2, <1>3, <1>5, <2>2, <3>1, <3>4, <3>5 DEF Carries
    <3> QED  BY <3>8, <3>9
  <2>3. req[r].kind \in {"edit", "dispatch", "retry"}
    BY <1>0, <1>6 DEF Agrees, Carries
  <2> QED  BY <2>1, <2>2, <2>3
<1> QED  BY <1>0, <1>2, <1>3, <1>4, <1>6, StoredStep

LEMMA ReplaceRecipientsStored ==
  ASSUME PipelineInv, NEW r \in Requests, ReplaceRecipients(r)
  PROVE  \A m \in Msgs : StoredInv(m)'
<1>0. req[r].pc = "recipients" /\ req[r].pc \in Pcs  BY DEF ReplaceRecipients, Pcs
<1>1. /\ TypeOK /\ req[r] \in Running /\ req[r].msg \in Msgs
  BY <1>0, FlightFacts
<1>2. UNCHANGED <<fresh, rows, blobs, mailed, raced, torn>>
  BY DEF ReplaceRecipients, history
<1>3. /\ req'[r].pc = "done" /\ req'[r].msg = req[r].msg
      /\ \A s \in Requests : s # r => req'[s] = req[s]
  BY <1>1, PcStep DEF ReplaceRecipients
<1>4. /\ rows[req[r].msg] # None => rcpts'[req[r].msg] = req[r].to
      /\ \A m \in Msgs : m # req[r].msg => rcpts'[m] = rcpts[m]
  BY <1>1 DEF ReplaceRecipients, TypeOK
<1>5. ASSUME Agrees(r)
      PROVE  StoredTruth(req[r].msg)' /\ (req'[r].pc \in Pcs => Carries(req[r])')
  <2>1. /\ IsDraft(rows[req[r].msg]) /\ req[r].to # None
        /\ rows[req[r].msg].body = req[r].to
    BY <1>0, <1>5 DEF Agrees, Carries
  <2>2. StoredTruth(req[r].msg)'
    BY <1>2, <1>3, <1>4, <1>5, <2>1 DEF Agrees, StoredTruth, IsDraft
  <2> QED  BY <1>3, <2>2 DEF Pcs
<1> QED  BY <1>0, <1>2, <1>3, <1>4, <1>5, StoredStep

LEMMA ReadRawStored ==
  ASSUME PipelineInv, NEW r \in Requests, ReadRaw(r)
  PROVE  \A m \in Msgs : StoredInv(m)'
<1>0. req[r].pc = "readRaw" /\ req[r].pc \in Pcs  BY DEF ReadRaw, Pcs
<1>1. /\ TypeOK /\ req[r] \in Running /\ req[r].msg \in Msgs
  BY <1>0, FlightFacts
<1>2. UNCHANGED <<fresh, rows, rcpts, blobs, mailed, raced, torn>>
  BY DEF ReadRaw, tables, history
<1>3. /\ req'[r].msg = req[r].msg /\ req'[r].kind = req[r].kind
      /\ req'[r].row = req[r].row /\ req'[r].to = req[r].to
      /\ req'[r].source \in {None, blobs[req[r].msg]} /\ req'[r].pc = "deliver"
      /\ \A s \in Requests : s # r => req'[s] = req[s]
  <2>1. /\ req'[r] = [req[r] EXCEPT !.pc = "deliver",
                        !.source = IF req[r].row.raw THEN blobs[req[r].msg] ELSE None]
        /\ \A s \in Requests : s # r => req'[s] = req[s]
    BY <1>1 DEF ReadRaw, TypeOK
  <2> QED  BY <1>1, <2>1 DEF Running
<1>4. ASSUME Agrees(r)
      PROVE  StoredTruth(req[r].msg)' /\ (req'[r].pc \in Pcs => Carries(req[r])')
  <2>1. /\ req[r].kind = "retry" /\ rows[req[r].msg] # None
        /\ rows[req[r].msg].status = "SENT" /\ req[r].row.status = "SENT"
        /\ req[r].row.body = rows[req[r].msg].body /\ req[r].to = rcpts[req[r].msg]
        /\ StoredTruth(req[r].msg) /\ ~Rewriting(req[r].msg)
    BY <1>0, <1>4 DEF Agrees, Carries
  <2>2. blobs[req[r].msg] = Stored(req[r].msg)  BY <2>1 DEF StoredTruth
  <2>3. Stored(req[r].msg)' = Stored(req[r].msg)  BY <1>2, <1>3 DEF Stored
  <2>4. StoredTruth(req[r].msg)'
    BY <1>2, <1>3, <2>1, <2>3 DEF StoredTruth
  <2>5. Carries(req[r])'
    BY <1>2, <1>3, <2>1, <2>2, <2>3 DEF Carries
  <2> QED  BY <2>4, <2>5
<1> QED  BY <1>0, <1>2, <1>3, <1>4, StoredStep

(* The three answers of the provider: only an acceptance is on record. *)
LEMMA DeliverStored ==
  ASSUME PipelineInv, NEW r \in Requests,
         DeliverAccepted(r) \/ DeliverRefused(r) \/ DeliverPartly(r)
  PROVE  \A m \in Msgs : StoredInv(m)'
<1>0. req[r].pc = "deliver" /\ req[r].pc \in Pcs
  BY DEF DeliverAccepted, DeliverRefused, DeliverPartly, Pcs
<1>1. /\ TypeOK /\ req[r] \in Running /\ req[r].msg \in Msgs
  BY <1>0, FlightFacts
<1>2. UNCHANGED <<fresh, rows, rcpts, blobs, raced, torn>>
  BY DEF DeliverAccepted, DeliverRefused, DeliverPartly, tables, history
<1>3. /\ req'[r].msg = req[r].msg /\ req'[r].kind = req[r].kind
      /\ req'[r].row = req[r].row /\ req'[r].to = req[r].to
      /\ req'[r].source = req[r].source /\ req'[r].pc = "record"
      /\ \A s \in Requests : s # r => req'[s] = req[s]
  <2>1. /\ \E ok \in BOOLEAN : req'[r] = [req[r] EXCEPT !.pc = "record", !.ok = ok]
        /\ \A s \in Requests : s # r => req'[s] = req[s]
    <3>1. \E ok \in BOOLEAN : req' = [req EXCEPT ![r].pc = "record", ![r].ok = ok]
      BY DEF DeliverAccepted, DeliverRefused, DeliverPartly
    <3> QED  BY <1>1, <3>1 DEF TypeOK
  <2> QED  BY <1>1, <2>1 DEF Running
<1>4. /\ mailed'[req[r].msg] \in {mailed[req[r].msg], MailOf(req[r])}
      /\ \A m \in Msgs : m # req[r].msg => mailed'[m] = mailed[m]
  BY <1>1 DEF DeliverAccepted, DeliverRefused, DeliverPartly, history, TypeOK
<1>5. ASSUME Agrees(r)
      PROVE  StoredTruth(req[r].msg)' /\ (req'[r].pc \in Pcs => Carries(req[r])')
  <2>1. /\ req[r].kind \in {"send", "dispatch", "retry"} /\ rows[req[r].msg] # None
        /\ rows[req[r].msg].status = "SENT" /\ req[r].row.status = "SENT"
        /\ req[r].row.body = rows[req[r].msg].body /\ req[r].to = rcpts[req[r].msg]
        /\ req[r].source \in {None, Stored(req[r].msg)}
        /\ StoredTruth(req[r].msg) /\ ~Rewriting(req[r].msg)
    BY <1>0, <1>5 DEF Agrees, Carries
  <2>2. MailOf(req[r]) = Stored(req[r].msg)
    BY <2>1 DEF MailOf, Stored
  <2>3. Stored(req[r].msg)' = Stored(req[r].msg)  BY <1>2, <1>3 DEF Stored
  <2>4. StoredTruth(req[r].msg)'
    BY <1>2, <1>3, <1>4, <2>1, <2>2, <2>3 DEF StoredTruth
  <2>5. Carries(req[r])'
    BY <1>2, <1>3, <2>1, <2>3 DEF Carries
  <2> QED  BY <2>4, <2>5
<1> QED  BY <1>0, <1>2, <1>3, <1>4, <1>5, StoredStep

LEMMA RecordStored ==
  ASSUME PipelineInv, NEW r \in Requests, Record(r)
  PROVE  \A m \in Msgs : StoredInv(m)'
<1>0. req[r].pc = "record" /\ req[r].pc \in Pcs  BY DEF Record, Pcs
<1>1. /\ TypeOK /\ req[r] \in Running /\ req[r].msg \in Msgs /\ req[r].row \in Row
      /\ rows[req[r].msg] \in Row \cup {None} /\ req[r].ok \in BOOLEAN
  BY <1>0, FlightFacts
<1>2. UNCHANGED <<fresh, rcpts, blobs, mailed, raced, torn>>
  BY DEF Record, history
<1>3. /\ req'[r].pc = "done" /\ req'[r].msg = req[r].msg
      /\ \A s \in Requests : s # r => req'[s] = req[s]
  BY <1>1, PcStep DEF Record
<1>4. /\ rows'[req[r].msg] = Upsert(rows[req[r].msg], Settled(req[r].row, req[r].ok))
      /\ \A m \in Msgs : m # req[r].msg => rows'[m] = rows[m]
  BY <1>1 DEF Record, TypeOK
<1>5. /\ rows'[req[r].msg].body = req[r].row.body
      /\ rows'[req[r].msg].status = req[r].row.status
      /\ rows'[req[r].msg] # None
  <2>1. Settled(req[r].row, req[r].ok) \in Row  BY <1>1, SettledType
  <2> QED  BY <1>1, <1>4, <2>1, RowBodies
<1>6. ASSUME Agrees(r)
      PROVE  StoredTruth(req[r].msg)' /\ (req'[r].pc \in Pcs => Carries(req[r])')
  <2>1. /\ rows[req[r].msg] # None
        /\ rows[req[r].msg].status = "SENT" /\ req[r].row.status = "SENT"
        /\ req[r].row.body = rows[req[r].msg].body
        /\ StoredTruth(req[r].msg) /\ ~Rewriting(req[r].msg)
    BY <1>0, <1>6 DEF Agrees, Carries
  <2>2. Stored(req[r].msg)' = Stored(req[r].msg)
    BY <1>2, <1>3, <1>5, <2>1 DEF Stored
  <2>3. StoredTruth(req[r].msg)'
    BY <1>2, <1>3, <1>5, <2>1, <2>2 DEF StoredTruth
  <2> QED  BY <1>3, <2>3 DEF Pcs
<1> QED  BY <1>0, <1>2, <1>3, <1>4, <1>6, StoredStep

LEMMA DeleteStored ==
  ASSUME PipelineInv, NEW r \in Requests, DeleteRow(r) \/ DeleteRaw(r)
  PROVE  \A m \in Msgs : StoredInv(m)'
<1>0. req[r].pc \in {"deleteRow", "deleteRaw"} /\ req[r].pc \in Pcs
  BY DEF DeleteRow, DeleteRaw, Pcs
<1>1. /\ TypeOK /\ req[r] \in Running /\ req[r].msg \in Msgs
  BY <1>0, FlightFacts
<1>2. UNCHANGED <<fresh, mailed, raced, torn>>
  BY DEF DeleteRow, DeleteRaw, history
<1>3. /\ req'[r].pc \in {"deleteRaw", "done"} /\ req'[r].msg = req[r].msg
      /\ req'[r].kind = req[r].kind
      /\ \A s \in Requests : s # r => req'[s] = req[s]
  <2>1. \E p \in {"deleteRaw", "done"} : req' = [req EXCEPT ![r].pc = p]
    BY DEF DeleteRow, DeleteRaw
  <2>2. \A p \in {"deleteRaw", "done"} : p \in Pcs \cup {"done", "evicted"}  BY DEF Pcs
  <2> QED  BY <1>1, <2>1, <2>2, PcStep
<1>4. \A m \in Msgs : m # req[r].msg =>
        rows'[m] = rows[m] /\ rcpts'[m] = rcpts[m] /\ blobs'[m] = blobs[m]
  BY <1>1 DEF DeleteRow, DeleteRaw, TypeOK
<1>5. ASSUME Agrees(r)
      PROVE  StoredTruth(req[r].msg)' /\ (req'[r].pc \in Pcs => Carries(req[r])')
  <2>1. req[r].kind = "delete" /\ rows'[req[r].msg] = None
    BY <1>0, <1>1, <1>5 DEF Agrees, Carries, DeleteRow, DeleteRaw, TypeOK
  <2>2. StoredTruth(req[r].msg)'  BY <1>3, <2>1 DEF StoredTruth
  <2>3. req'[r].pc \in Pcs => Carries(req[r])'
    BY <1>3, <2>1 DEF Carries, Pcs
  <2> QED  BY <2>2, <2>3
<1> QED  BY <1>0, <1>2, <1>3, <1>4, <1>5, StoredStep

(* An eviction between the two writes of an edit is what tears a draft. *)
LEMMA EvictStored ==
  ASSUME PipelineInv, NEW r \in Requests, Evict(r)
  PROVE  \A m \in Msgs : StoredInv(m)'
<1>0. req[r].pc \in Pcs  BY DEF Evict
<1>1. /\ TypeOK /\ req[r] \in Running /\ req[r].msg \in Msgs
  BY <1>0, FlightFacts
<1>2. /\ UNCHANGED <<fresh, rows, rcpts, blobs, mailed, raced>> /\ torn \subseteq torn'
      /\ req[r].pc = "recipients" => req[r].msg \in torn'
  BY DEF Evict, tables
<1>3. /\ req'[r].pc = "evicted" /\ req'[r].msg = req[r].msg
      /\ \A s \in Requests : s # r => req'[s] = req[s]
  BY <1>1, PcStep DEF Evict
<1>4. ASSUME Agrees(r)
      PROVE  StoredTruth(req[r].msg)' /\ (req'[r].pc \in Pcs => Carries(req[r])')
  <2>1. Stored(req[r].msg)' = Stored(req[r].msg)  BY <1>2, <1>3 DEF Stored
  <2>2. StoredTruth(req[r].msg)'
    BY <1>2, <1>3, <1>4, <2>1 DEF Agrees, StoredTruth
  <2> QED  BY <1>3, <2>2 DEF Pcs
<1> QED  BY <1>0, <1>2, <1>3, <1>4, StoredStep

(* A request that begins. *)
LEMMA StoredStart ==
  ASSUME PipelineInv, NEW r \in Requests, NEW kind \in Kinds, NEW m \in Msgs, NEW pc \in Pcs,
         NEW row \in Row, NEW to \in Versions \cup {None}, Begin(r, kind, m, pc, row, to),
         fresh' \subseteq fresh, m \notin fresh',
         m \notin raced /\ StoredTruth(m) => Carries(req[r])'
  PROVE  \A n \in Msgs : StoredInv(n)'
<1>0. TypeOK /\ \A n \in Msgs : StoredInv(n)  BY DEF PipelineInv, IInv
<1>1. /\ req'[r].msg = m /\ \A s \in Requests : s # r => req'[s] = req[s]
      /\ req[r].pc \notin Pcs /\ req[r].msg \notin Msgs
  BY <1>0, BeginFacts
<1>2. /\ raced \subseteq raced'
      /\ \A s \in Requests : InFlight(s, m) => m \in raced'
      /\ UNCHANGED <<rows, rcpts, blobs, mailed, torn>>
  BY <1>0, BeginFacts
<1>3. ASSUME NEW n \in Msgs, n # m PROVE StoredInv(n)'
  <2>1. StoredInv(n) /\ req[r].msg # n /\ req'[r].msg # n  BY <1>0, <1>1, <1>3
  <2> QED  BY <1>1, <1>2, <2>1, StoredOther
<1>4. StoredInv(m)'
  <2>1. StoredInv(m)  BY <1>0
  <2>2. ASSUME m \notin raced', NEW s \in Requests, InFlight(s, m)' PROVE s = r
    BY <1>1, <1>2, <2>2 DEF InFlight
  <2>3. ASSUME m \notin raced' PROVE StoredTruth(m)' /\ Carries(req[r])'
    <3>1. StoredTruth(m) /\ ~Rewriting(m)
      BY <1>2, <2>1, <2>3 DEF StoredInv, Rewriting
    <3> QED  BY <1>2, <2>3, <3>1 DEF StoredTruth, Stored
  <2> QED  BY <2>2, <2>3 DEF StoredInv
<1> QED  BY <1>3, <1>4

LEMMA StartStored ==
  ASSUME PipelineInv, NEW r \in Requests, Start(r)
  PROVE  \A m \in Msgs : StoredInv(m)'
<1> USE DEF Kinds, Pcs
<1>0. /\ TypeOK /\ fresh \subseteq Msgs /\ \A m \in Msgs : StoredInv(m)
      /\ \A m \in Msgs : rows[m] # None => rows[m] \in Row
      /\ \A m \in Msgs : m \in fresh => rows[m] = None
  BY DEF PipelineInv, IInv, TypeOK, StoredInv
<1>1. CASE BeginSend(r)
  <2>1. PICK m \in fresh, v \in Versions :
          /\ Begin(r, "send", m, "storeRaw", NewMessage(v), v) /\ fresh' = fresh \ {m}
    BY <1>1, VersionsAssumption DEF BeginSend
  <2>2. m \in Msgs /\ v # None /\ NewMessage(v) \in Row
    BY <1>0, NewRowTypes, NoneAssumption
  <2>3. /\ req'[r].pc = "storeRaw" /\ req'[r].kind = "send" /\ req'[r].msg = m
        /\ req'[r].row = NewMessage(v) /\ req'[r].to = v
        /\ UNCHANGED <<rows, mailed>>
    BY <1>0, <2>1, <2>2, BeginFacts
  <2>4. rows[m] = None /\ mailed[m] = None  BY <1>0, <2>2 DEF StoredInv
  <2>5. Carries(req[r])'  BY <2>2, <2>3, <2>4 DEF Carries
  <2> QED  BY <2>1, <2>2, <2>5, StoredStart
<1>2. CASE BeginCreate(r)
  <2>1. PICK m \in fresh, v \in Versions :
          /\ Begin(r, "create", m, "insert", NewDraft(v), v) /\ fresh' = fresh \ {m}
    BY <1>2 DEF BeginCreate
  <2>2. m \in Msgs /\ v # None /\ NewDraft(v) \in Row
    BY <1>0, NewRowTypes, NoneAssumption
  <2>3. /\ req'[r].pc = "insert" /\ req'[r].kind = "create" /\ req'[r].msg = m
        /\ req'[r].row = NewDraft(v) /\ req'[r].to = v
        /\ UNCHANGED <<rows, mailed>>
    BY <1>0, <2>1, <2>2, BeginFacts
  <2>4. rows[m] = None /\ mailed[m] = None  BY <1>0, <2>2 DEF StoredInv
  <2>5. Carries(req[r])'  BY <2>2, <2>3, <2>4 DEF Carries
  <2> QED  BY <2>1, <2>2, <2>5, StoredStart
<1>3. CASE BeginEdit(r)
  <2>1. PICK m \in Msgs, v \in Versions :
          /\ IsDraft(rows[m]) /\ Begin(r, "edit", m, "save", Edited(rows[m], v), v)
          /\ fresh' = fresh
    BY <1>3 DEF BeginEdit
  <2>2. /\ rows[m] \in Row /\ v # None /\ m \notin fresh'
        /\ Edited(rows[m], v) \in Row /\ Edited(rows[m], v) # None
        /\ Edited(rows[m], v).status = "DRAFT" /\ Edited(rows[m], v).body = v
        /\ Edited(rows[m], v).delivery = rows[m].delivery
    BY <1>0, <2>1, EditedType, RowTypes, RowBodies, NoneAssumption DEF IsDraft
  <2>3. /\ req'[r].pc = "save" /\ req'[r].kind = "edit" /\ req'[r].msg = m
        /\ req'[r].row = Edited(rows[m], v) /\ req'[r].to = v
        /\ UNCHANGED rows
    BY <1>0, <2>1, <2>2, BeginFacts
  <2>4. StoredTruth(m) => rows[m].delivery = "QUEUED"
    BY <2>1 DEF StoredTruth, IsDraft
  <2>5. StoredTruth(m) => Carries(req[r])'
    BY <2>1, <2>2, <2>3, <2>4 DEF Carries, IsDraft
  <2> QED  BY <2>1, <2>2, <2>5, StoredStart
<1>4. CASE BeginDispatch(r)
  <2>1. PICK m \in Msgs :
          /\ IsDraft(rows[m]) /\ Begin(r, "dispatch", m, "readTo", rows[m], None)
          /\ fresh' = fresh
    BY <1>4 DEF BeginDispatch
  <2>2. rows[m] \in Row /\ m \notin fresh'  BY <1>0, <2>1 DEF IsDraft
  <2>3. /\ req'[r].pc = "readTo" /\ req'[r].kind = "dispatch" /\ req'[r].msg = m
        /\ req'[r].row = rows[m] /\ UNCHANGED rows
    BY <1>0, <2>1, <2>2, BeginFacts
  <2>4. Carries(req[r])'  BY <2>1, <2>3 DEF Carries, IsDraft
  <2> QED  BY <2>1, <2>2, <2>4, StoredStart
<1>5. CASE BeginRetry(r)
  <2>1. PICK m \in Msgs :
          /\ CanRetry(rows[m]) /\ Begin(r, "retry", m, "readTo", rows[m], None)
          /\ fresh' = fresh
    BY <1>5 DEF BeginRetry
  <2>2. rows[m] \in Row /\ m \notin fresh'  BY <1>0, <2>1 DEF CanRetry
  <2>3. /\ req'[r].pc = "readTo" /\ req'[r].kind = "retry" /\ req'[r].msg = m
        /\ req'[r].row = rows[m] /\ UNCHANGED rows
    BY <1>0, <2>1, <2>2, BeginFacts
  <2>4. Carries(req[r])'  BY <2>1, <2>3 DEF Carries, CanRetry
  <2> QED  BY <2>1, <2>2, <2>4, StoredStart
<1>6. CASE BeginDelete(r)
  <2>1. PICK m \in Msgs :
          /\ rows[m] # None /\ Begin(r, "delete", m, "deleteRow", rows[m], None)
          /\ fresh' = fresh
    BY <1>6 DEF BeginDelete
  <2>2. rows[m] \in Row /\ m \notin fresh'  BY <1>0, <2>1
  <2>3. /\ req'[r].pc = "deleteRow" /\ req'[r].kind = "delete" /\ req'[r].msg = m
        /\ UNCHANGED rows
    BY <1>0, <2>1, <2>2, BeginFacts
  <2>4. Carries(req[r])'  BY <2>1, <2>3 DEF Carries
  <2> QED  BY <2>1, <2>2, <2>4, StoredStart
<1> QED  BY <1>1, <1>2, <1>3, <1>4, <1>5, <1>6 DEF Start

LEMMA PipelineNext == PipelineInv /\ [Next]_vars => PipelineInv'
<1> SUFFICES ASSUME PipelineInv, [Next]_vars PROVE PipelineInv'  OBVIOUS
<1>1. IInv'  BY NextInv DEF PipelineInv
<1>2. CASE Next
  <2>1. PICK r \in Requests : Start(r) \/ Resume(r) \/ Evict(r)  BY <1>2 DEF Next
  <2>2. \A m \in Msgs : StoredInv(m)'
    BY <2>1, StartStored, ReadToStored, StoreRawStored, InsertStored, SaveStored,
       ReplaceRecipientsStored, ReadRawStored, DeliverStored, RecordStored,
       DeleteStored, EvictStored DEF Resume
  <2> QED  BY <1>1, <2>2 DEF PipelineInv
<1>3. CASE UNCHANGED vars
  <2>1. UNCHANGED <<fresh, rows, rcpts, blobs, req, mailed, raced, torn>>
    BY <1>3 DEF vars, tables, history
  <2>2. ASSUME NEW m \in Msgs PROVE StoredInv(m)'
    <3>1. StoredInv(m)  BY DEF PipelineInv
    <3> QED  BY <2>1, <3>1 DEF StoredInv, InFlight, Carries, StoredTruth, Stored,
             Built, Rewriting
  <2> QED  BY <1>1, <2>2 DEF PipelineInv
<1> QED  BY <1>2, <1>3

(* The whole inductive invariant: what requests hold in memory, what the    *)
(* tables store and what the history says agree in every reachable state.  *)
THEOREM OutboundInvariant == Spec => []PipelineInv
<1>1. Init => PipelineInv  BY InitInv, InitStored DEF PipelineInv
<1> QED  BY <1>1, PipelineNext, PTL DEF Spec

(* What the provider accepted is what the tables store, of one edit unless  *)
(* an edit was cut in half (sendDraft, retrySend and deliver).             *)
THEOREM StoredIsMailed == Spec => []MailedAsStored
<1>1. ASSUME PipelineInv, NEW m \in Msgs \ raced, mailed[m] # None, rows[m] # None
      PROVE  /\ mailed[m].body = rows[m].body /\ mailed[m].to = rcpts[m]
             /\ m \notin torn => mailed[m].body = mailed[m].to
  <2>1. StoredTruth(m) /\ \A r \in Requests : InFlight(r, m) => Carries(req[r])
    BY <1>1 DEF PipelineInv, StoredInv
  <2>2. rows[m].status = "SENT" /\ mailed[m] = Stored(m)
    BY <1>1, <2>1 DEF StoredTruth
  <2>3. ~Rewriting(m)
    BY <2>1, <2>2 DEF Rewriting, Carries, IsDraft, InFlight
  <2> QED  BY <1>1, <2>1, <2>2, <2>3 DEF StoredTruth, Stored
<1>2. PipelineInv => MailedAsStored  BY <1>1 DEF MailedAsStored
<1> QED  BY <1>2, OutboundInvariant, PTL

-----------------------------------------------------------------------------
(* Refinement.  A step moves at most one message through MailPromise.      *)
Still(m) == Phase(m)' = Phase(m) /\ accepted'[m] = accepted[m]

Moves(m) ==
  \/ Phase(m)' = "loose" /\ (accepted[m] > 0 => accepted'[m] > 0)
  \/ /\ Phase(m)' = Phase(m)
     /\ \/ accepted'[m] = accepted[m]
        \/ Phase(m) = "queued" /\ accepted[m] = 0 /\ accepted'[m] > 0
  \/ /\ accepted'[m] = accepted[m]
     /\ \/ Phase(m) = "none" /\ Phase(m)' = "draft"
        \/ /\ Phase(m) \in {"none", "draft", "failed"} /\ accepted[m] = 0
           /\ Phase(m)' = "queued"
        \/ Phase(m) = "queued" /\ accepted[m] > 0 /\ Phase(m)' = "sent"
        \/ Phase(m) = "queued" /\ accepted[m] = 0 /\ Phase(m)' = "failed"
        \/ Phase(m) \in {"draft", "queued", "sent", "failed"} /\ Phase(m)' = "gone"

(* Such a move is a step of MailPromise, or none. *)
LEMMA MoveStep ==
  ASSUME NEW m \in Msgs, Moves(m), \A n \in Msgs : n # m => Still(n)
  PROVE  [Promise!Next]_<<Phases, HandedOver>>
<1>1. Phases' = [Phases EXCEPT ![m] = Phase(m)']
  BY DEF Phases, Still
<1>2. Phase(m)' = Phase(m) => Phases' = Phases
  BY DEF Phases, Still
<1>3. accepted'[m] = accepted[m] => HandedOver' = HandedOver
  BY DEF HandedOver, Still
<1>4. accepted'[m] > 0 => HandedOver' = HandedOver \cup {m}
  BY DEF HandedOver, Still
<1>5. /\ accepted[m] > 0 => m \in HandedOver
      /\ accepted[m] = 0 => m \notin HandedOver
  <2>1. m \in HandedOver <=> accepted[m] > 0  BY DEF HandedOver
  <2> QED  BY <2>1
<1>6. Phases[m] = Phase(m)  BY DEF Phases
<1>7. CASE Phase(m)' = "loose" /\ (accepted[m] > 0 => accepted'[m] > 0)
  <2>1. HandedOver' \in {HandedOver, HandedOver \cup {m}}
    BY <1>4, <1>7 DEF HandedOver, Still
  <2> QED  BY <1>1, <1>7, <2>1 DEF Promise!Next, Promise!Loosen
<1>8. CASE Phase(m)' = Phase(m) /\ accepted'[m] = accepted[m]
  BY <1>2, <1>3, <1>8
<1>9. CASE Phase(m)' = Phase(m) /\ Phase(m) = "queued" /\ accepted[m] = 0 /\ accepted'[m] > 0
  BY <1>2, <1>4, <1>5, <1>6, <1>9 DEF Promise!Next, Promise!HandOver
<1>10. CASE accepted'[m] = accepted[m] /\ Phase(m) = "none" /\ Phase(m)' = "draft"
  BY <1>1, <1>3, <1>6, <1>10 DEF Promise!Next, Promise!Draft
<1>11. CASE /\ accepted'[m] = accepted[m] /\ Phase(m) \in {"none", "draft", "failed"}
            /\ accepted[m] = 0 /\ Phase(m)' = "queued"
  BY <1>1, <1>3, <1>5, <1>6, <1>11 DEF Promise!Next, Promise!Queue
<1>12. CASE /\ accepted'[m] = accepted[m] /\ Phase(m) = "queued" /\ accepted[m] > 0
            /\ Phase(m)' = "sent"
  BY <1>1, <1>3, <1>5, <1>6, <1>12 DEF Promise!Next, Promise!Confirm
<1>13. CASE /\ accepted'[m] = accepted[m] /\ Phase(m) = "queued" /\ accepted[m] = 0
            /\ Phase(m)' = "failed"
  BY <1>1, <1>3, <1>5, <1>6, <1>13 DEF Promise!Next, Promise!GiveUp
<1>14. CASE /\ accepted'[m] = accepted[m]
            /\ Phase(m) \in {"draft", "queued", "sent", "failed"} /\ Phase(m)' = "gone"
  BY <1>1, <1>3, <1>6, <1>14 DEF Promise!Next, Promise!Purge
<1> QED  BY <1>7, <1>8, <1>9, <1>10, <1>11, <1>12, <1>13, <1>14 DEF Moves

(* A step that leaves the row of m alone leaves its phase alone, unless it  *)
(* takes m out of the promise.                                             *)
LEMMA StillPhase ==
  ASSUME NEW m \in Msgs, rows'[m] = rows[m], m \in purged' <=> m \in purged,
         accepted'[m] = accepted[m], Sound(m)' <=> Sound(m)
  PROVE  Still(m)
BY DEF Still, Phase

(* Starting a request moves no message, or takes one out of the promise. *)
LEMMA StartMoves ==
  ASSUME IInv, NEW r \in Requests, Start(r)
  PROVE  [Promise!Next]_<<Phases, HandedOver>>
<1>1. PICK m \in Msgs, kind \in Kinds, pc \in Pcs, row \in Row, to \in Versions \cup {None} :
        Begin(r, kind, m, pc, row, to)
  <2> USE DEF Kinds, Pcs
  <2>0. /\ fresh \subseteq Msgs
        /\ \A m \in Msgs : rows[m] # None => rows[m] \in Row
    BY DEF IInv, TypeOK
  <2>1. CASE BeginSend(r)  BY <2>0, <2>1, NewRowTypes DEF BeginSend
  <2>2. CASE BeginCreate(r)  BY <2>0, <2>2, NewRowTypes DEF BeginCreate
  <2>3. CASE BeginEdit(r)  BY <2>0, <2>3, EditedType DEF BeginEdit, IsDraft
  <2>4. CASE BeginDispatch(r)  BY <2>0, <2>4 DEF BeginDispatch, IsDraft
  <2>5. CASE BeginRetry(r)  BY <2>0, <2>5 DEF BeginRetry, CanRetry
  <2>6. CASE BeginDelete(r)  BY <2>0, <2>6 DEF BeginDelete
  <2> QED  BY <2>1, <2>2, <2>3, <2>4, <2>5, <2>6 DEF Start
<1>2. /\ UNCHANGED <<rows, accepted, partial, purged>>
      /\ raced' = raced \/ raced' = raced \cup {m}
  BY <1>1 DEF Begin, tables
<1>3. \A n \in Msgs : n # m => Still(n)
  <2> SUFFICES ASSUME NEW n \in Msgs, n # m PROVE Still(n)  OBVIOUS
  <2>1. Sound(n)' <=> Sound(n)  BY <1>2 DEF Sound
  <2> QED  BY <1>2, <2>1, StillPhase
<1>4. Moves(m)
  <2>1. CASE Sound(m)' <=> Sound(m)  BY <1>2, <2>1, StillPhase DEF Moves, Still
  <2>2. CASE ~(Sound(m)' <=> Sound(m))
    <3>1. ~Sound(m)'  BY <1>2, <2>2 DEF Sound
    <3> QED  BY <1>2, <3>1 DEF Moves, Phase
  <2> QED  BY <2>1, <2>2
<1> QED  BY <1>3, <1>4, MoveStep

(* Resuming a request moves its own message only. *)
LEMMA ElsewhereStill ==
  ASSUME IInv, NEW r \in Requests, Resume(r) \/ Evict(r),
         NEW n \in Msgs, n # req[r].msg
  PROVE  Still(n)
<1>0. TypeOK  BY DEF IInv
<1> USE DEF tables, history
<1>1. rows'[n] = rows[n] /\ (n \in purged' <=> n \in purged) /\ accepted'[n] = accepted[n]
      /\ (n \in partial' <=> n \in partial) /\ raced' = raced
  <2>1. CASE ReadTo(r)  BY <2>1 DEF ReadTo
  <2>2. CASE StoreRaw(r)  BY <2>2 DEF StoreRaw
  <2>3. CASE Insert(r)  BY <1>0, <2>3 DEF Insert, TypeOK
  <2>4. CASE Save(r)  BY <1>0, <2>4 DEF Save, TypeOK
  <2>5. CASE ReplaceRecipients(r)  BY <2>5 DEF ReplaceRecipients
  <2>6. CASE ReadRaw(r)  BY <2>6 DEF ReadRaw
  <2>7. CASE DeliverAccepted(r)  BY <1>0, <2>7 DEF DeliverAccepted, TypeOK
  <2>8. CASE DeliverRefused(r)  BY <2>8 DEF DeliverRefused
  <2>9. CASE DeliverPartly(r)  BY <1>0, <2>9 DEF DeliverPartly, TypeOK
  <2>10. CASE Record(r)  BY <1>0, <2>10 DEF Record, TypeOK
  <2>11. CASE DeleteRow(r)  BY <1>0, <2>11 DEF DeleteRow, TypeOK
  <2>12. CASE DeleteRaw(r)  BY <2>12 DEF DeleteRaw
  <2>13. CASE Evict(r)  BY <2>13 DEF Evict
  <2> QED  BY <2>1, <2>2, <2>3, <2>4, <2>5, <2>6, <2>7, <2>8, <2>9, <2>10, <2>11,
              <2>12, <2>13 DEF Resume
<1>2. Sound(n)' <=> Sound(n)  BY <1>1 DEF Sound
<1> QED  BY <1>1, <1>2, StillPhase

(* A request that takes a step is in flight, on a message. *)
LEMMA OwnMsg ==
  ASSUME IInv, NEW r \in Requests, Resume(r) \/ Evict(r)
  PROVE  req[r] \in Running /\ req[r].pc \in Pcs /\ req[r].msg \in Msgs
<1>1. req[r].pc \in Pcs
  BY DEF Resume, Evict, ReadTo, StoreRaw, Insert, Save, ReplaceRecipients, ReadRaw,
         DeliverAccepted, DeliverRefused, DeliverPartly, Record, DeleteRow, DeleteRaw, Pcs
<1>2. req[r] \in Running  BY <1>1, InFlightType DEF IInv
<1> QED  BY <1>1, <1>2 DEF Running

(* What the step of a request makes of its own message. *)
LEMMA OwnMoves ==
  ASSUME IInv, NEW r \in Requests, Resume(r) \/ Evict(r),
         NEW m \in Msgs, m = req[r].msg
  PROVE  Moves(m)
<1> USE DEF tables, history
<1>0. /\ TypeOK /\ req[r] \in Running /\ req[r].pc \in Pcs
      /\ accepted[m] \in Nat /\ rows[m] \in Row \cup {None} /\ req[r].row \in Row
  BY OwnMsg DEF IInv, Running, TypeOK
<1>1. Sound(m) => Holds(req[r]) /\ RowTruth(m)
  BY <1>0 DEF IInv, MsgInv, InFlight
<1>2. CASE \/ ReadTo(r) \/ StoreRaw(r) \/ ReplaceRecipients(r) \/ ReadRaw(r)
           \/ DeliverRefused(r) \/ DeleteRaw(r) \/ Evict(r)
  <2>1. UNCHANGED <<rows, accepted, partial, raced, purged>>
    BY <1>2 DEF ReadTo, StoreRaw, ReplaceRecipients, ReadRaw, DeliverRefused, DeleteRaw, Evict
  <2> QED  BY <2>1, <1>0, StillPhase DEF Moves, Still, Sound
<1>3. CASE Insert(r)
  <2>1. /\ rows'[m] = Upsert(rows[m], req[r].row) /\ req[r].pc = "insert"
        /\ UNCHANGED <<accepted, partial, raced, purged>>
    BY <1>0, <1>3 DEF Insert, TypeOK
  <2>2. /\ rows'[m] # None /\ rows'[m].status = req[r].row.status
        /\ rows'[m].delivery = req[r].row.delivery
    <3>1. LET u == Upsert(rows[m], req[r].row) IN
          u # None /\ u.status = req[r].row.status /\ u.delivery = req[r].row.delivery
      BY <1>0, UpsertType
    <3> QED  BY <2>1, <3>1
  <2>3. CASE ~Sound(m)  BY <2>1, <2>3 DEF Moves, Phase, Sound
  <2>4. CASE Sound(m)
    <3>1. /\ rows[m] = None /\ accepted[m] = 0 /\ m \notin purged
          /\ req[r].row.delivery = "QUEUED" /\ req[r].row.status \in {"SENT", "DRAFT"}
      BY <1>1, <2>1, <2>4 DEF Holds
    <3>2. Sound(m)' /\ Phase(m) = "none"  BY <2>1, <2>4, <3>1 DEF Phase, Sound
    <3>3. Phase(m)' = IF req[r].row.status = "DRAFT" THEN "draft" ELSE "queued"
      BY <2>2, <3>1, <3>2 DEF Phase
    <3> QED  BY <2>1, <3>1, <3>2, <3>3 DEF Moves
  <2> QED  BY <2>3, <2>4
<1>4. CASE Save(r)
  <2>1. /\ rows'[m] = Upsert(rows[m], req[r].row) /\ req[r].pc = "save"
        /\ UNCHANGED <<accepted, partial, raced, purged>>
    BY <1>0, <1>4 DEF Save, TypeOK
  <2>2. /\ rows'[m] # None /\ rows'[m].status = req[r].row.status
        /\ rows'[m].delivery = req[r].row.delivery
    <3>1. LET u == Upsert(rows[m], req[r].row) IN
          u # None /\ u.status = req[r].row.status /\ u.delivery = req[r].row.delivery
      BY <1>0, UpsertType
    <3> QED  BY <2>1, <3>1
  <2>3. CASE ~Sound(m)  BY <2>1, <2>3 DEF Moves, Phase, Sound
  <2>4. CASE Sound(m)
    <3>1. Sound(m)'  BY <2>1, <2>4 DEF Sound
    <3>2. CASE req[r].kind = "edit"
      <4>1. IsDraft(rows[m]) /\ IsDraft(req[r].row)
        BY <1>1, <2>1, <2>4, <3>2 DEF Holds
      <4>2. Phase(m) = "draft" /\ Phase(m)' = "draft"
        BY <2>2, <2>4, <3>1, <4>1 DEF Phase, IsDraft
      <4> QED  BY <2>1, <4>2 DEF Moves
    <3>3. CASE req[r].kind # "edit"
      <4>1. (IsDraft(rows[m]) \/ CanRetry(rows[m])) /\ QueuedRow(req[r].row)
        BY <1>1, <2>1, <2>4, <3>3 DEF Holds
      <4>2. accepted[m] = 0 /\ Phase(m) \in {"draft", "failed"}
        BY <1>1, <2>4, <4>1 DEF Phase, IsDraft, CanRetry, RowTruth
      <4>3. Phase(m)' = "queued"  BY <2>2, <3>1, <4>1 DEF Phase, QueuedRow
      <4> QED  BY <2>1, <4>2, <4>3 DEF Moves
    <3> QED  BY <3>2, <3>3
  <2> QED  BY <2>3, <2>4
<1>5. CASE DeliverAccepted(r)
  <2>1. /\ UNCHANGED <<rows, partial, raced, purged>> /\ req[r].pc = "deliver"
        /\ \/ accepted'[m] = accepted[m]
           \/ accepted'[m] = accepted[m] + 1 /\ accepted'[m] > 0
    BY <1>0, <1>5 DEF DeliverAccepted, TypeOK
  <2>2. CASE ~Sound(m)  BY <1>0, <2>1, <2>2 DEF Moves, Phase, Sound
  <2>3. CASE Sound(m)
    <3>1. QueuedRow(rows[m]) /\ accepted[m] = 0
      BY <1>1, <2>1, <2>3 DEF Holds
    <3>2. Phase(m) = "queued" /\ Phase(m)' = "queued"
      BY <2>1, <2>3, <3>1 DEF Phase, QueuedRow, Sound
    <3> QED  BY <2>1, <3>1, <3>2 DEF Moves
  <2> QED  BY <2>2, <2>3
<1>6. CASE DeliverPartly(r)
  <2>1. m \in partial' /\ accepted'[m] = accepted[m] + 1
    BY <1>0, <1>6 DEF DeliverPartly, TypeOK
  <2>2. Phase(m)' = "loose"  BY <2>1 DEF Phase, Sound
  <2> QED  BY <1>0, <2>1, <2>2 DEF Moves
<1>7. CASE Record(r)
  <2>0. /\ Settled(req[r].row, req[r].ok) \in Row /\ req[r].ok \in BOOLEAN
        /\ Settled(req[r].row, req[r].ok).status = req[r].row.status
        /\ Settled(req[r].row, req[r].ok).delivery = IF req[r].ok THEN "SENT" ELSE "FAILED"
    BY <1>0, SettledType DEF Running
  <2>1. /\ rows'[m] = Upsert(rows[m], Settled(req[r].row, req[r].ok)) /\ req[r].pc = "record"
        /\ UNCHANGED <<accepted, partial, raced, purged>>
    BY <1>0, <1>7 DEF Record, TypeOK
  <2>2. /\ rows'[m] # None /\ rows'[m].status = req[r].row.status
        /\ rows'[m].delivery = IF req[r].ok THEN "SENT" ELSE "FAILED"
    BY <1>0, <2>0, <2>1, UpsertType
  <2>3. CASE ~Sound(m)  BY <2>1, <2>3 DEF Moves, Phase, Sound
  <2>4. CASE Sound(m)
    <3>1. /\ QueuedRow(rows[m]) /\ QueuedRow(req[r].row)
          /\ accepted[m] = IF req[r].ok THEN 1 ELSE 0
      BY <1>1, <2>1, <2>4 DEF Holds
    <3>2. Sound(m)' /\ Phase(m) = "queued"
      BY <2>1, <2>4, <3>1 DEF Phase, QueuedRow, Sound
    <3>3. Phase(m)' = IF req[r].ok THEN "sent" ELSE "failed"
      BY <2>2, <3>1, <3>2 DEF Phase, QueuedRow
    <3>4. CASE req[r].ok  BY <2>1, <3>1, <3>2, <3>3, <3>4 DEF Moves
    <3>5. CASE ~req[r].ok  BY <2>1, <3>1, <3>2, <3>3, <3>5 DEF Moves
    <3> QED  BY <3>4, <3>5
  <2> QED  BY <2>3, <2>4
<1>8. CASE DeleteRow(r)
  <2>1. /\ rows'[m] = None /\ m \in purged' /\ UNCHANGED <<accepted, partial, raced>>
        /\ req[r].pc = "deleteRow"
    BY <1>0, <1>8 DEF DeleteRow, TypeOK
  <2>2. CASE ~Sound(m)  BY <2>1, <2>2 DEF Moves, Phase, Sound
  <2>3. CASE Sound(m)
    <3>1. rows[m] # None  BY <1>1, <2>1, <2>3 DEF Holds
    <3>2. Phase(m) \in {"draft", "queued", "sent", "failed"}
      BY <2>3, <3>1 DEF Phase
    <3>3. Phase(m)' = "gone"  BY <2>1, <2>3 DEF Phase, Sound
    <3> QED  BY <2>1, <3>2, <3>3 DEF Moves
  <2> QED  BY <2>2, <2>3
<1> QED  BY <1>2, <1>3, <1>4, <1>5, <1>6, <1>7, <1>8 DEF Resume

(* The requests on the tables implement MailPromise. *)
THEOREM OutboundRefinement == Spec => KeepsPromise
<1>1. Init => Promise!Init
  BY DEF Init, Promise!Init, Phases, HandedOver, Phase, Sound
<1>2. ASSUME IInv, IInv', [Next]_vars
      PROVE  [Promise!Next]_<<Phases, HandedOver>>
  <2>1. ASSUME NEW r \in Requests, Start(r)
        PROVE [Promise!Next]_<<Phases, HandedOver>>
    BY <1>2, <2>1, StartMoves
  <2>2. ASSUME NEW r \in Requests, Resume(r) \/ Evict(r)
        PROVE [Promise!Next]_<<Phases, HandedOver>>
    <3>1. PICK m \in Msgs : m = req[r].msg  BY <1>2, <2>2, OwnMsg
    <3>2. Moves(m)  BY <1>2, <2>2, <3>1, OwnMoves
    <3>3. \A n \in Msgs : n # m => Still(n)  BY <1>2, <2>2, <3>1, ElsewhereStill
    <3> QED  BY <3>2, <3>3, MoveStep
  <2>3. CASE UNCHANGED vars
    <3>1. UNCHANGED <<rows, accepted, partial, raced, purged>>
      BY <2>3 DEF vars, tables, history
    <3> QED  BY <3>1 DEF Phases, HandedOver, Phase, Sound
  <2> QED  BY <1>2, <2>1, <2>2, <2>3 DEF Next
<1> QED  BY <1>1, <1>2, StatusInvariant, PTL
         DEF Spec, KeepsPromise, Promise!Spec, Phases, HandedOver
=============================================================================
