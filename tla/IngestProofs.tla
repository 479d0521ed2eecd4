---------------------------- MODULE IngestProofs ----------------------------
(***************************************************************************)
(* Proofs about Ingest, for any mails, deliveries, runs and message ids,   *)
(* and for both protocols: the invariant IInv is inductive, so no accepted *)
(* mail is lost, a mail with a Message-ID has one row, and a remote mail   *)
(* no two runs had in hand at once is ingested once.                       *)
(***************************************************************************)
EXTENDS Ingest, TLAPS

USE MailsAssumption, AddressesAssumption, CallersAssumption, FetchAssumption, NoneAssumption
    DEF Callers, InFlight, Receiving

(* What caller c may be, when the store holds blobs B, for the invariant   *)
(* to go on holding.                                                       *)
Handles(q) == q.queue \cup (IF q.pc \in InFlight THEN {q.mail} ELSE {})
Fits(c, q, B) ==
  /\ c \in Deliveries => q.pc \notin {"idle", "next"}
  /\ c \in Runs => q.pc \in InFlight \cup {"idle", "next"}
  /\ q.pc \in Receiving => /\ q.id # None /\ msg[q.id] = None
                           /\ \A b \in Callers : b # c => proc[b].id # q.id
  /\ q.id # None /\ msg[q.id] = None
     => \A b \in Callers : b # c /\ proc[b].pc \in Receiving => proc[b].id # q.id
  /\ q.pc \in {"dedupe", "files", "insert"} => <<q.id, "raw">> \in B
  /\ q.pc = "insert" => <<q.id, "files">> \in B
  /\ q.pc \in InFlight \cup {"pending", "accepted"} => q.mail # None
  /\ q.pc \in {"stored", "duplicate"} =>
       q.id # None /\ msg[q.id] # None /\ msg[q.id].mail = q.mail
  /\ c \in Runs => Handles(q) \subseteq Handles(proc[c])
  /\ c \in Runs /\ q.pc \in Receiving /\ q.mail \notin raced => ledger[q.mail] = None
  /\ c \in Deliveries /\ q.pc = "accepted" =>
       \E i \in Ids : msg[i] # None /\ msg[i].mail = q.mail

LEMMA InitIInv == Init => IInv
<1> SUFFICES ASSUME Init PROVE IInv
  OBVIOUS
<1>1. \A c \in Callers : /\ proc[c].pc = IF c \in Deliveries THEN "new" ELSE "idle"
                         /\ proc[c].queue = {} /\ proc[c].id = None
  BY DEF Init
<1>2. TypeOK
  BY DEF Init, TypeOK, Caller, Pcs, Content
<1> QED
  BY <1>1, <1>2 DEF Init, IInv, IdsHeld, BlobsHeld, MailHeld, RowsKnown, FetchedKnown, InOneHand,
     FirstToFetch, NoMailLost, StoredOnce, RowsWhole, LedgerTrue, FetchedOnce, InHand

-----------------------------------------------------------------------------
(* A caller moves on, storing blobs perhaps. *)
LEMMA MoveStep ==
  ASSUME IInv, NEW c \in Callers, NEW q \in Caller, Fits(c, q, blobs'),
         proc' = [proc EXCEPT ![c] = q],
         blobs \subseteq blobs', blobs' \subseteq Ids \X {"raw", "files"},
         account' \in {"ACTIVE", "DISABLED"},
         UNCHANGED <<msg, rows, ledger, raced, inbox, closed>>
  PROVE  IInv'
<1> USE DEF IInv
<1>1. /\ proc' \in [Callers -> Caller] /\ proc'[c] = q
      /\ \A b \in Callers : b # c => proc'[b] = proc[b]
  BY DEF TypeOK
<1>2. TypeOK'
  BY <1>1 DEF TypeOK, Fits
<1>3. IdsHeld'
  <2> SUFFICES ASSUME NEW b \in Callers, proc'[b].pc \in Receiving
               PROVE  /\ proc'[b].id # None /\ msg[proc'[b].id] = None
                      /\ \A a \in Callers : a # b => proc'[a].id # proc'[b].id
    BY DEF IdsHeld
  <2>1. CASE b = c
    BY <1>1, <2>1 DEF Fits
  <2>2. CASE b # c
    <3>1. proc'[b] = proc[b] /\ proc[b].pc \in Receiving
      BY <1>1, <2>2
    <3>2. /\ proc[b].id # None /\ msg[proc[b].id] = None
          /\ \A a \in Callers : a # b => proc[a].id # proc[b].id
      BY <3>1 DEF IdsHeld
    <3>3. q.id # proc[b].id
      BY <2>2, <3>1, <3>2 DEF Fits
    <3> QED
      BY <1>1, <3>1, <3>2, <3>3
  <2> QED
    BY <2>1, <2>2
<1>4. BlobsHeld'
  BY <1>1 DEF BlobsHeld, Fits
<1>5. MailHeld'
  BY <1>1 DEF MailHeld, Fits
<1>6. \A r \in Runs : InHand(r)' \subseteq InHand(r)
  BY <1>1 DEF InHand, Fits, Handles
<1>7. InOneHand'
  BY <1>6 DEF InOneHand
<1>8. FirstToFetch'
  BY <1>1 DEF FirstToFetch, Fits
<1>9. NoMailLost'
  BY <1>1 DEF NoMailLost, Fits
<1>10. RowsWhole'
  BY DEF RowsWhole
<1> QED
  BY <1>2, <1>3, <1>4, <1>5, <1>7, <1>8, <1>9, <1>10
  DEF RowsKnown, FetchedKnown, StoredOnce, LedgerTrue, FetchedOnce

(* What holds of a caller as it stands. *)
LEMMA AsItStands ==
  ASSUME IInv, NEW c \in Callers
  PROVE  proc[c] \in Caller /\ Fits(c, proc[c], blobs)
<1>1. proc[c] \in Caller
  BY DEF IInv, TypeOK
<1> QED
  BY <1>1 DEF IInv, TypeOK, Fits, IdsHeld, BlobsHeld, MailHeld, FirstToFetch, NoMailLost
-----------------------------------------------------------------------------
(* One lemma per group of steps of a caller. *)
LEMMA OfferStep == ASSUME IInv, NEW d \in Deliveries, Offer(d) PROVE IInv'
<1>1. PICK m \in Mails, a \in Addresses :
        proc' = [proc EXCEPT ![d] = [proc[d] EXCEPT !.pc = "pending", !.mail = m, !.to = a]]
  BY DEF Offer
<1> DEFINE q == [proc[d] EXCEPT !.pc = "pending", !.mail = m, !.to = a]
<1>2. d \in Callers /\ d \notin Runs /\ proc[d].pc = "new"
  BY DEF Offer
<1>3. q \in Caller /\ q.pc = "pending" /\ q.mail = m /\ q.id = proc[d].id
  <2>1. proc[d] \in Caller
    BY <1>2, AsItStands
  <2> QED
    BY <1>2, <2>1 DEF Caller, Pcs
<1>4. Fits(d, q, blobs)
  <2>1. Fits(d, proc[d], blobs)
    BY <1>2, <1>3, AsItStands
  <2> HIDE DEF q
  <2> QED
    BY <1>2, <1>3, <2>1 DEF Fits
<1>9. /\ UNCHANGED <<msg, rows, blobs, ledger, raced, inbox, closed>>
      /\ account' \in {"ACTIVE", "DISABLED"} /\ blobs \subseteq Ids \X {"raw", "files"}
  BY DEF Offer, config, IInv, TypeOK
<1> QED
  BY <1>1, <1>2, <1>3, <1>4, <1>9, MoveStep

LEMMA RefuseStep == ASSUME IInv, NEW d \in Deliveries, Refuse(d) PROVE IInv'
<1> DEFINE q == [proc[d] EXCEPT !.pc = "refused"]
<1>1. d \in Callers /\ d \notin Runs /\ proc' = [proc EXCEPT ![d] = q]
  BY DEF Refuse
<1>2. q \in Caller /\ q.pc = "refused" /\ q.id = proc[d].id
  <2>1. proc[d] \in Caller
    BY <1>1, AsItStands
  <2> QED
    BY <1>1, <2>1 DEF Caller, Pcs
<1>3. Fits(d, q, blobs)
  <2>1. Fits(d, proc[d], blobs)
    BY <1>1, <1>2, AsItStands
  <2> HIDE DEF q
  <2> QED
    BY <1>1, <1>2, <2>1 DEF Fits
<1>9. /\ UNCHANGED <<msg, rows, blobs, ledger, raced, inbox, closed>>
      /\ account' \in {"ACTIVE", "DISABLED"} /\ blobs \subseteq Ids \X {"raw", "files"}
  BY DEF Refuse, config, IInv, TypeOK
<1> QED
  BY <1>1, <1>2, <1>3, <1>9, MoveStep

LEMMA TryStep == ASSUME IInv, NEW d \in Deliveries, Try(d) PROVE IInv'
<1>1. PICK i \in Fresh : proc' = [proc EXCEPT ![d] = [proc[d] EXCEPT !.pc = "put", !.id = i]]
  BY DEF Try
<1> DEFINE q == [proc[d] EXCEPT !.pc = "put", !.id = i]
<1>2. d \in Callers /\ d \notin Runs /\ proc[d].pc = "pending"
  BY DEF Try
<1>3. i \in Ids /\ msg[i] = None /\ \A c \in Callers : proc[c].id # i
  BY DEF Fresh
<1>4. q \in Caller /\ q.pc = "put" /\ q.id = i /\ q.mail = proc[d].mail
  <2>1. proc[d] \in Caller
    BY <1>2, <1>3, AsItStands
  <2> QED
    BY <1>2, <1>3, <2>1 DEF Caller, Pcs
<1>5. Fits(d, q, blobs)
  <2>1. Fits(d, proc[d], blobs)
    BY <1>2, <1>3, <1>4, AsItStands
  <2> HIDE DEF q
  <2> QED
    BY <1>2, <1>3, <1>4, <2>1 DEF Fits
<1>9. /\ UNCHANGED <<msg, rows, blobs, ledger, raced, inbox, closed>>
      /\ account' \in {"ACTIVE", "DISABLED"} /\ blobs \subseteq Ids \X {"raw", "files"}
  BY DEF Try, config, IInv, TypeOK
<1> QED
  BY <1>1, <1>2, <1>4, <1>5, <1>9, MoveStep

LEMMA TakeStep == ASSUME IInv, NEW r \in Runs, Take(r) PROVE IInv'
<1>1. PICK m \in proc[r].queue, i \in Fresh :
        /\ ledger[m] = None
        /\ proc' = [proc EXCEPT ![r] = [proc[r] EXCEPT !.pc = "put", !.mail = m, !.id = i,
                                                      !.queue = proc[r].queue \ {m}]]
  BY DEF Take
<1> DEFINE q == [proc[r] EXCEPT !.pc = "put", !.mail = m, !.id = i,
                                !.queue = proc[r].queue \ {m}]
<1>2. r \in Callers /\ r \notin Deliveries
  OBVIOUS
<1>3. i \in Ids /\ msg[i] = None /\ \A c \in Callers : proc[c].id # i
  BY DEF Fresh
<1>4. m \in Mails
  BY <1>2, AsItStands DEF Caller
<1>5. q \in Caller /\ q.pc = "put" /\ q.id = i /\ q.mail = m /\ q.queue \subseteq proc[r].queue
  <2>1. proc[r] \in Caller
    BY <1>2, <1>3, <1>4, AsItStands
  <2> QED
    BY <1>2, <1>3, <1>4, <2>1 DEF Caller, Pcs
<1>6. Handles(q) \subseteq Handles(proc[r])
  BY <1>5 DEF Handles
<1>7. Fits(r, q, blobs)
  <2>1. Fits(r, proc[r], blobs)
    BY <1>1, <1>2, <1>3, <1>4, <1>5, <1>6, AsItStands
  <2> HIDE DEF q
  <2> QED
    BY <1>1, <1>2, <1>3, <1>4, <1>5, <1>6, <2>1 DEF Fits
<1>9. /\ UNCHANGED <<msg, rows, blobs, ledger, raced, inbox, closed>>
      /\ account' \in {"ACTIVE", "DISABLED"} /\ blobs \subseteq Ids \X {"raw", "files"}
  BY DEF Take, config, IInv, TypeOK
<1> QED
  BY <1>1, <1>2, <1>5, <1>7, <1>9, MoveStep

LEMMA SkipStep == ASSUME IInv, NEW r \in Runs, Skip(r) PROVE IInv'
<1>1. PICK m \in proc[r].queue : proc' = [proc EXCEPT ![r] = [proc[r] EXCEPT !.queue = @ \ {m}]]
  BY DEF Skip
<1> DEFINE q == [proc[r] EXCEPT !.queue = @ \ {m}]
<1>2. r \in Callers /\ r \notin Deliveries /\ proc[r].pc = "next"
  BY DEF Skip
<1>3. q \in Caller /\ q.pc = "next" /\ q.id = proc[r].id /\ q.queue \subseteq proc[r].queue
  <2>1. proc[r] \in Caller
    BY <1>2, AsItStands
  <2> QED
    BY <1>2, <2>1 DEF Caller
<1>4. Handles(q) \subseteq Handles(proc[r])
  BY <1>3 DEF Handles
<1>5. Fits(r, q, blobs)
  <2>1. Fits(r, proc[r], blobs)
    BY <1>2, <1>3, <1>4, AsItStands
  <2> HIDE DEF q
  <2> QED
    BY <1>2, <1>3, <1>4, <2>1 DEF Fits
<1>9. /\ UNCHANGED <<msg, rows, blobs, ledger, raced, inbox, closed>>
      /\ account' \in {"ACTIVE", "DISABLED"} /\ blobs \subseteq Ids \X {"raw", "files"}
  BY DEF Skip, config, IInv, TypeOK
<1> QED
  BY <1>1, <1>2, <1>3, <1>5, <1>9, MoveStep

LEMMA EndRunStep == ASSUME IInv, NEW r \in Runs, EndRun(r) PROVE IInv'
<1> DEFINE q == [proc[r] EXCEPT !.pc = "idle"]
<1>1. r \in Callers /\ r \notin Deliveries /\ proc' = [proc EXCEPT ![r] = q]
  BY DEF EndRun
<1>2. q \in Caller /\ q.pc = "idle" /\ q.id = proc[r].id /\ q.queue = proc[r].queue
  <2>1. proc[r] \in Caller
    BY <1>1, AsItStands
  <2> QED
    BY <1>1, <2>1 DEF Caller, Pcs
<1>3. Handles(q) \subseteq Handles(proc[r])
  BY <1>2 DEF Handles
<1>4. Fits(r, q, blobs)
  <2>1. Fits(r, proc[r], blobs)
    BY <1>1, <1>2, <1>3, AsItStands
  <2> HIDE DEF q
  <2> QED
    BY <1>1, <1>2, <1>3, <2>1 DEF Fits
<1>9. /\ UNCHANGED <<msg, rows, blobs, ledger, raced, inbox, closed>>
      /\ account' \in {"ACTIVE", "DISABLED"} /\ blobs \subseteq Ids \X {"raw", "files"}
  BY DEF EndRun, config, IInv, TypeOK
<1> QED
  BY <1>1, <1>2, <1>4, <1>9, MoveStep

LEMMA StoreStep == ASSUME IInv, NEW c \in Callers, PutRaw(c) \/ PutFiles(c) PROVE IInv'
<1>1. PICK pc \in {"dedupe", "insert"}, part \in {"raw", "files"} :
        /\ pc = "dedupe" => proc[c].pc = "put" /\ part = "raw"
        /\ pc = "insert" => proc[c].pc = "files" /\ part = "files"
        /\ blobs' = blobs \cup {<<proc[c].id, part>>}
        /\ proc' = [proc EXCEPT ![c] = [proc[c] EXCEPT !.pc = pc]]
  BY DEF PutRaw, PutFiles
<1> DEFINE q == [proc[c] EXCEPT !.pc = pc]
<1>2. /\ q \in Caller /\ q.pc = pc /\ q.id = proc[c].id /\ q.mail = proc[c].mail
      /\ q.queue = proc[c].queue
  <2>1. proc[c] \in Caller
    BY AsItStands
  <2> QED
    BY <2>1 DEF Caller, Pcs
<1>3. proc[c].id \in Ids
  BY <1>1, AsItStands DEF Caller, Fits
<1>4. Handles(q) = Handles(proc[c])
  BY <1>1, <1>2 DEF Handles
<1>5. Fits(c, q, blobs')
  <2>1. Fits(c, proc[c], blobs)
    BY <1>1, <1>2, <1>4, AsItStands
  <2> HIDE DEF q
  <2> QED
    BY <1>1, <1>2, <1>4, <2>1 DEF Fits
<1>6. blobs \subseteq blobs' /\ blobs' \subseteq Ids \X {"raw", "files"}
  BY <1>1, <1>3 DEF IInv, TypeOK
<1>9. /\ UNCHANGED <<msg, rows, ledger, raced, inbox, closed>>
      /\ account' \in {"ACTIVE", "DISABLED"}
  BY DEF PutRaw, PutFiles, config, IInv, TypeOK
<1> QED
  BY <1>1, <1>2, <1>5, <1>6, <1>9, MoveStep

LEMMA DedupeStep == ASSUME IInv, NEW c \in Callers, Dedupe(c) PROVE IInv'
<1>1. /\ UNCHANGED <<msg, rows, blobs, ledger, raced, inbox, closed>>
      /\ account' \in {"ACTIVE", "DISABLED"} /\ blobs \subseteq Ids \X {"raw", "files"}
      /\ proc[c].pc = "dedupe"
  BY DEF Dedupe, config, IInv, TypeOK
<1>2. CASE proc' = [proc EXCEPT ![c].pc = "files"]
  <2> DEFINE q == [proc[c] EXCEPT !.pc = "files"]
  <2>1. /\ q \in Caller /\ q.pc = "files" /\ q.id = proc[c].id /\ q.mail = proc[c].mail
        /\ q.queue = proc[c].queue
    <3>1. proc[c] \in Caller
      BY AsItStands
    <3> QED
      BY <3>1 DEF Caller, Pcs
  <2>2. Handles(q) = Handles(proc[c])
    BY <1>1, <2>1 DEF Handles
  <2> HIDE DEF q
  <2>3. Fits(c, q, blobs)
    <3>1. Fits(c, proc[c], blobs)
      BY AsItStands
    <3> QED
      BY <1>1, <2>1, <2>2, <3>1 DEF Fits
  <2>4. proc' = [proc EXCEPT ![c] = q]
    BY <1>2 DEF q
  <2> QED
    BY <1>1, <2>1, <2>3, <2>4, MoveStep
<1>3. CASE \E i \in Twins(proc[c].mail) : proc' = [proc EXCEPT ![c].pc = "duplicate", ![c].id = i]
  <2>1. PICK i \in Twins(proc[c].mail) : proc' = [proc EXCEPT ![c].pc = "duplicate", ![c].id = i]
    BY <1>3
  <2> DEFINE q == [proc[c] EXCEPT !.pc = "duplicate", !.id = i]
  <2>2. i \in Ids /\ i # None /\ msg[i] # None /\ msg[i].mail = proc[c].mail
    BY DEF Twins, IInv, TypeOK, RowsKnown
  <2>3. /\ q \in Caller /\ q.pc = "duplicate" /\ q.id = i /\ q.mail = proc[c].mail
        /\ q.queue = proc[c].queue
    <3>1. proc[c] \in Caller
      BY <2>2, AsItStands
    <3> QED
      BY <2>2, <3>1 DEF Caller, Pcs
  <2>4. Handles(q) = Handles(proc[c])
    BY <1>1, <2>3 DEF Handles
  <2>5. Fits(c, q, blobs)
    BY <1>1, <2>2, <2>3, <2>4, AsItStands DEF Fits
  <2>6. proc' = [proc EXCEPT ![c] = q]
    BY <2>1
  <2> QED
    BY <1>1, <2>3, <2>5, <2>6, MoveStep
<1> QED
  BY <1>2, <1>3 DEF Dedupe

(* A call throws, or the isolate goes. *)
LEMMA ThrowStep == ASSUME IInv, NEW c \in Callers, InsertTwin(c) \/ Fail(c) PROVE IInv'
<1>1. /\ UNCHANGED <<msg, rows, blobs, ledger, raced, inbox, closed>>
      /\ account' \in {"ACTIVE", "DISABLED"} /\ blobs \subseteq Ids \X {"raw", "files"}
      /\ proc' = [proc EXCEPT ![c] = Thrown(c)]
      /\ c \in Deliveries => proc[c].mail # None
  BY AsItStands DEF InsertTwin, Fail, config, IInv, TypeOK, Fits
<1>2. Thrown(c) \in Caller
  BY AsItStands DEF Thrown, Caller, Pcs
<1>3. c \in Deliveries => /\ Thrown(c).pc = "pending" /\ Thrown(c).id = None
                          /\ Thrown(c).mail = proc[c].mail
  BY AsItStands DEF Thrown, Caller
<1>4. c \notin Deliveries => /\ Thrown(c).pc = "idle" /\ Thrown(c).id = None
                             /\ Thrown(c).queue = {}
  BY AsItStands DEF Thrown, Caller
<1>5. Fits(c, Thrown(c), blobs)
  BY <1>1, <1>3, <1>4 DEF Fits, Handles
<1> QED
  BY <1>1, <1>2, <1>5, MoveStep

LEMMA AcceptStep == ASSUME IInv, NEW d \in Deliveries, Accept(d) PROVE IInv'
<1> DEFINE q == [proc[d] EXCEPT !.pc = "accepted", !.id = None]
<1>1. /\ d \in Callers /\ d \notin Runs /\ proc' = [proc EXCEPT ![d] = q]
      /\ proc[d].pc \in {"stored", "duplicate"}
  BY DEF Accept
<1>2. q \in Caller /\ q.pc = "accepted" /\ q.id = None /\ q.mail = proc[d].mail
  <2>1. proc[d] \in Caller
    BY <1>1, AsItStands
  <2> QED
    BY <1>1, <2>1 DEF Caller, Pcs
<1>3. Fits(d, q, blobs)
  <2>1. Fits(d, proc[d], blobs)
    BY <1>1, AsItStands
  <2>2. proc[d].id \in Ids /\ msg[proc[d].id] # None /\ msg[proc[d].id].mail = proc[d].mail
    <3>1. proc[d] \in Caller
      BY <1>1, AsItStands
    <3> QED
      BY <1>1, <2>1, <3>1 DEF Fits, Caller
  <2> HIDE DEF q
  <2>3. q.mail # None /\ \E i \in Ids : msg[i] # None /\ msg[i].mail = q.mail
    BY <1>1, <1>2, <2>1, <2>2 DEF Fits
  <2>4. d \notin Runs /\ q.id = None /\ q.pc = "accepted"
    BY <1>1, <1>2
  <2> QED
    BY <2>3, <2>4 DEF Fits
<1>9. /\ UNCHANGED <<msg, rows, blobs, ledger, raced, inbox, closed>>
      /\ account' \in {"ACTIVE", "DISABLED"} /\ blobs \subseteq Ids \X {"raw", "files"}
  BY DEF Accept, config, IInv, TypeOK
<1> QED
  BY <1>1, <1>2, <1>3, <1>9, MoveStep

-----------------------------------------------------------------------------
(* A message is inserted under an id nothing has used: everything known of  *)
(* the other ids stays, and of the ledger but for the mail itself.         *)
LEMMA InsertStep == ASSUME IInv, NEW c \in Callers, Insert(c) PROVE IInv'
<1> DEFINE i == proc[c].id
           m == proc[c].mail
           row == [mail |-> m, fetched |-> c \in Runs]
<1> USE DEF IInv
<1>1. /\ proc[c].pc = "insert" /\ Twins(m) = {}
      /\ proc' = [proc EXCEPT ![c].pc = "stored"]
      /\ msg' = [msg EXCEPT ![i] = row] /\ rows' = rows \cup {i}
      /\ ledger' = IF c \in Runs THEN [ledger EXCEPT ![m] = i] ELSE ledger
      /\ UNCHANGED <<blobs, config, raced>>
  BY DEF Insert
<1>2. /\ proc[c] \in Caller /\ i \in Ids /\ i # None /\ msg[i] = None /\ m \in Mails
      /\ \A b \in Callers : b # c => proc[b].id # i
  BY <1>1, AsItStands DEF Caller, Fits
<1>3. row \in Content /\ row # None /\ row.mail = m /\ row.fetched = (c \in Runs)
  <2>1. row.mail = m /\ row.fetched = (c \in Runs)
    OBVIOUS
  <2>2. (c \in Runs) \in BOOLEAN
    OBVIOUS
  <2>3. row \in Content
    BY <1>2, <2>2 DEF Content
  <2>4. row # None
    BY <2>3, NoneAssumption DEF Content
  <2> QED
    BY <2>1, <2>3, <2>4
<1> HIDE DEF row
<1>4. /\ proc' \in [Callers -> Caller]
      /\ proc'[c].pc = "stored" /\ proc'[c].id = i /\ proc'[c].mail = m
      /\ proc'[c].queue = proc[c].queue
      /\ \A b \in Callers : b # c => proc'[b] = proc[b]
  BY <1>1, <1>2 DEF TypeOK, Caller, Pcs
<1>5. /\ msg' \in [Ids -> Content \cup {None}] /\ msg'[i] = row
      /\ \A j \in Ids : j # i => msg'[j] = msg[j]
  BY <1>1, <1>2, <1>3 DEF TypeOK
<1>6. /\ ledger' \in [Mails -> Ids \cup {None}]
      /\ c \in Runs => ledger'[m] = i
      /\ \A n \in Mails : ledger'[n] = ledger[n] \/ (n = m /\ c \in Runs)
  BY <1>1, <1>2 DEF TypeOK
<1>7. TypeOK'
  BY <1>1, <1>2, <1>4, <1>5, <1>6 DEF TypeOK, config
<1>8. IdsHeld'
  <2>1. \A b \in Callers : proc'[b].id = proc[b].id
    BY <1>4
  <2>2. \A b \in Callers : proc'[b].pc \in Receiving => proc[b].pc \in Receiving /\ b # c
    BY <1>4
  <2>3. \A b \in Callers : b # c /\ proc[b].pc \in Receiving =>
          proc[b].id # None /\ proc[b].id # i /\ msg'[proc[b].id] = None
    BY <1>2, <1>5 DEF IdsHeld, TypeOK, Caller
  <2> QED
    BY <2>1, <2>2, <2>3 DEF IdsHeld
<1>9. BlobsHeld'
  BY <1>1, <1>4 DEF BlobsHeld
<1>10. MailHeld'
  <2> SUFFICES ASSUME NEW b \in Callers
               PROVE  /\ proc'[b].pc \in InFlight \cup {"pending", "accepted"} => proc'[b].mail # None
                      /\ proc'[b].pc \in {"stored", "duplicate"} =>
                           /\ proc'[b].id # None /\ msg'[proc'[b].id] # None
                           /\ msg'[proc'[b].id].mail = proc'[b].mail
    BY DEF MailHeld
  <2>1. CASE b = c
    BY <2>1, <1>2, <1>3, <1>4, <1>5
  <2>2. CASE b # c
    <3>1. proc'[b] = proc[b] /\ proc[b].id \in Ids \cup {None} /\ proc[b].id # i
      BY <2>2, <1>2, <1>4 DEF TypeOK, Caller
    <3> QED
      BY <3>1, <1>5 DEF MailHeld
  <2> QED
    BY <2>1, <2>2
<1>11. RowsKnown'
  BY <1>1, <1>3, <1>5 DEF RowsKnown, TypeOK
<1>12. FetchedKnown'
  BY <1>2, <1>3, <1>5, <1>6 DEF FetchedKnown, TypeOK, Content
<1>13. \A r \in Runs : InHand(r)' \subseteq InHand(r)
  BY <1>1, <1>4 DEF InHand
<1>14. InOneHand'
  BY <1>1, <1>13 DEF InOneHand
<1>15. FirstToFetch'
  <2> SUFFICES ASSUME NEW r \in Runs, proc'[r].pc \in Receiving, proc'[r].mail \notin raced'
               PROVE  ledger'[proc'[r].mail] = None
    BY DEF FirstToFetch
  <2>1. r # c /\ proc'[r] = proc[r]
    BY <1>4
  <2>2. proc[r].mail \in Mails /\ ledger[proc[r].mail] = None /\ proc[r].mail \notin raced
    BY <2>1, <1>1 DEF FirstToFetch, MailHeld, TypeOK, Caller
  <2>3. proc[r].mail = m => c \notin Runs
    BY <2>1, <2>2, <1>1 DEF InOneHand, InHand
  <2> QED
    BY <2>1, <2>2, <2>3, <1>6
<1>16. NoMailLost'
  BY <1>2, <1>4, <1>5 DEF NoMailLost
<1>17. StoredOnce'
  <2> SUFFICES ASSUME NEW j \in rows', NEW k \in rows', msg'[j].mail = msg'[k].mail,
                      msg'[j].mail \notin Anonymous
               PROVE  j = k
    BY DEF StoredOnce
  <2>1. \A x \in rows : x # i /\ msg'[x] = msg[x]
    BY <1>2, <1>5 DEF RowsKnown, TypeOK
  <2>2. m \notin Anonymous => \A x \in rows : msg[x].mail # m
    BY <1>1 DEF Twins
  <2> QED
    BY <1>1, <1>3, <1>5, <2>1, <2>2 DEF StoredOnce
<1>18. RowsWhole'
  BY <1>1 DEF RowsWhole, BlobsHeld
<1>19. LedgerTrue'
  BY <1>2, <1>3, <1>5, <1>6 DEF LedgerTrue, TypeOK
<1>20. FetchedOnce'
  <2> SUFFICES ASSUME NEW j \in Ids, NEW k \in Ids, msg'[j] # None, msg'[k] # None,
                      msg'[j].fetched, msg'[k].fetched, msg'[j].mail = msg'[k].mail,
                      msg'[j].mail \notin raced'
               PROVE  j = k
    BY DEF FetchedOnce
  <2>1. \A x \in Ids : x # i /\ msg'[x] # None /\ msg'[x].fetched /\ msg'[x].mail = m
                     => ledger[m] # None
    BY <1>5 DEF FetchedKnown
  <2>2. c \in Runs /\ m \notin raced => ledger[m] = None
    BY <1>1 DEF FirstToFetch
  <2>3. raced' = raced
    BY <1>1
  <2>4. CASE j # i /\ k # i
    BY <2>3, <2>4, <1>5 DEF FetchedOnce
  <2>5. CASE j = i \/ k = i
    <3>1. c \in Runs /\ m \notin raced /\ msg'[j].mail = m /\ msg'[k].mail = m
      BY <2>3, <2>5, <1>3, <1>5
    <3> QED
      BY <3>1, <2>1, <2>2, <2>5
  <2> QED
    BY <2>4, <2>5
<1> QED
  BY <1>7, <1>8, <1>9, <1>10, <1>11, <1>12, <1>14, <1>15, <1>16, <1>17, <1>18, <1>19, <1>20

(* A run goes on to its next mail, its ledger row written. *)
LEMMA RecordedStep == ASSUME IInv, NEW r \in Runs, Recorded(r) PROVE IInv'
<1> DEFINE i == proc[r].id
           m == proc[r].mail
<1> USE DEF IInv
<1>1. /\ proc[r].pc \in {"stored", "duplicate"} /\ r \in Callers /\ r \notin Deliveries
      /\ proc' = [proc EXCEPT ![r].pc = "next", ![r].mail = None, ![r].id = None]
      /\ ledger' = IF proc[r].pc = "duplicate" THEN [ledger EXCEPT ![m] = i] ELSE ledger
      /\ UNCHANGED <<msg, rows, blobs, config, raced>>
  BY DEF Recorded
<1>2. /\ proc[r] \in Caller /\ i \in Ids /\ i # None /\ m \in Mails
      /\ msg[i] # None /\ msg[i].mail = m
  BY <1>1, AsItStands DEF Caller, Fits
<1>3. /\ proc' \in [Callers -> Caller]
      /\ proc'[r].pc = "next" /\ proc'[r].id = None /\ proc'[r].queue = proc[r].queue
      /\ \A b \in Callers : b # r => proc'[b] = proc[b]
  <2> DEFINE q == [proc[r] EXCEPT !.pc = "next", !.mail = None, !.id = None]
  <2>1. /\ q \in Caller /\ q.pc = "next" /\ q.id = None /\ q.queue = proc[r].queue
    BY <1>2 DEF Caller, Pcs
  <2>2. proc' = [proc EXCEPT ![r] = q]
    BY <1>1
  <2> QED
    BY <2>1, <2>2, <1>1 DEF TypeOK
<1>4. /\ ledger' \in [Mails -> Ids \cup {None}]
      /\ \A n \in Mails : ledger'[n] = ledger[n] \/ (n = m /\ ledger'[n] = i)
  BY <1>1, <1>2 DEF TypeOK
<1>5. TypeOK'
  BY <1>1, <1>3, <1>4 DEF TypeOK, config
<1>6. IdsHeld' /\ BlobsHeld' /\ NoMailLost'
  BY <1>1, <1>3 DEF IdsHeld, BlobsHeld, NoMailLost
<1>7. MailHeld'
  BY <1>1, <1>3 DEF MailHeld
<1>8. FetchedKnown'
  BY <1>1, <1>2, <1>4 DEF FetchedKnown, TypeOK, Content
<1>9. \A s \in Runs : InHand(s)' \subseteq InHand(s)
  BY <1>1, <1>3 DEF InHand
<1>10. InOneHand'
  BY <1>1, <1>9 DEF InOneHand
<1>11. FirstToFetch'
  <2> SUFFICES ASSUME NEW s \in Runs, proc'[s].pc \in Receiving, proc'[s].mail \notin raced'
               PROVE  ledger'[proc'[s].mail] = None
    BY DEF FirstToFetch
  <2>1. s # r /\ proc'[s] = proc[s]
    BY <1>3
  <2>2. proc[s].mail \in Mails /\ ledger[proc[s].mail] = None /\ proc[s].mail \notin raced
    BY <2>1, <1>1 DEF FirstToFetch, MailHeld, TypeOK, Caller
  <2>3. proc[s].mail # m
    BY <2>1, <2>2, <1>1 DEF InOneHand, InHand
  <2> QED
    BY <2>1, <2>2, <2>3, <1>4
<1>12. LedgerTrue'
  BY <1>1, <1>2, <1>4 DEF LedgerTrue
<1>13. RowsKnown' /\ StoredOnce' /\ RowsWhole' /\ FetchedOnce'
  BY <1>1 DEF RowsKnown, StoredOnce, RowsWhole, FetchedOnce
<1> QED
  BY <1>5, <1>6, <1>7, <1>8, <1>10, <1>11, <1>12, <1>13

(* A run takes up what is new, and races with the runs that have the same   *)
(* mails in hand.                                                          *)
LEMMA BeginRunStep == ASSUME IInv, NEW r \in Runs, BeginRun(r) PROVE IInv'
<1> DEFINE queue == Listed({m \in Mails : ledger[m] # None})
<1> USE DEF IInv
<1>1. queue \subseteq Mails
  <2>1. \A j \in DOMAIN inbox : inbox[j] \in Mails
    BY DEF TypeOK
  <2> QED
    BY <2>1 DEF Listed
<1> HIDE DEF queue
<1>2. /\ proc[r].pc = "idle" /\ r \in Callers /\ r \notin Deliveries
      /\ proc' = [proc EXCEPT ![r].pc = "next", ![r].queue = queue]
      /\ raced' = raced \cup (queue \cap UNION {InHand(s) : s \in Runs})
      /\ UNCHANGED <<msg, rows, blobs, ledger, config>>
  BY DEF BeginRun, queue
<1>3. /\ proc' \in [Callers -> Caller]
      /\ proc'[r].pc = "next" /\ proc'[r].queue = queue
      /\ \A b \in Callers : proc'[b].id = proc[b].id
      /\ \A b \in Callers : b # r => proc'[b] = proc[b]
  <2> DEFINE q == [proc[r] EXCEPT !.pc = "next", !.queue = queue]
  <2>1. q \in Caller /\ q.pc = "next" /\ q.queue = queue /\ q.id = proc[r].id
    <3>1. proc[r] \in Caller /\ queue \in SUBSET Mails
      BY <1>1, <1>2 DEF TypeOK
    <3> HIDE DEF queue
    <3> QED
      BY <3>1 DEF Caller, Pcs
  <2>2. proc' = [proc EXCEPT ![r] = q]
    BY <1>2
  <2> QED
    BY <2>1, <2>2, <1>2 DEF TypeOK
<1>4. /\ raced \subseteq raced' /\ raced' \subseteq Mails
      /\ \A s \in Runs : queue \cap InHand(s) \subseteq raced'
  BY <1>1, <1>2 DEF TypeOK
<1>5. TypeOK'
  BY <1>2, <1>3, <1>4 DEF TypeOK, config
<1>6. IdsHeld' /\ BlobsHeld' /\ MailHeld' /\ NoMailLost'
  BY <1>2, <1>3 DEF IdsHeld, BlobsHeld, MailHeld, NoMailLost
<1>7. InHand(r)' = queue /\ \A s \in Runs : s # r => InHand(s)' = InHand(s)
  BY <1>3 DEF InHand
<1>8. InOneHand'
  BY <1>4, <1>7 DEF InOneHand
<1>9. FirstToFetch'
  BY <1>2, <1>3, <1>4 DEF FirstToFetch
<1>10. FetchedOnce'
  BY <1>2, <1>4 DEF FetchedOnce
<1>11. RowsKnown' /\ FetchedKnown' /\ StoredOnce' /\ RowsWhole' /\ LedgerTrue'
  BY <1>2 DEF RowsKnown, FetchedKnown, StoredOnce, RowsWhole, LedgerTrue
<1> QED
  BY <1>5, <1>6, <1>8, <1>9, <1>10, <1>11

(* What happens without a caller: mails arrive, administrators change       *)
(* things, messages are deleted.                                           *)
LEMMA ConfigStep ==
  ASSUME IInv, SetStatus \/ (\E m \in Mails : Arrive(m)) \/ (\E a \in Addresses : Switch(a))
  PROVE  IInv'
<1>1. UNCHANGED <<proc, msg, rows, blobs, ledger, raced>>
  BY DEF SetStatus, Arrive, Switch
<1>2. TypeOK'
  <2>1. inbox' \in Seq(Mails)
    <3>1. inbox \in Seq(Mails)
      BY DEF IInv, TypeOK
    <3>2. ASSUME NEW m \in Mails, Arrive(m) PROVE inbox' \in Seq(Mails)
      <4>1. inbox' = Append(inbox, m)
        BY <3>2 DEF Arrive
      <4> QED
        BY <3>1, <4>1
    <3>3. SetStatus \/ (\E a \in Addresses : Switch(a)) => inbox' = inbox
      BY DEF SetStatus, Switch
    <3> QED
      BY <3>1, <3>2, <3>3
  <2>2. account' \in {"ACTIVE", "DISABLED"} /\ closed' \subseteq Addresses
    BY DEF SetStatus, Arrive, Switch, IInv, TypeOK
  <2> QED
    BY <1>1, <2>1, <2>2 DEF IInv, TypeOK
<1>3. \A r : InHand(r)' = InHand(r)
  BY <1>1 DEF InHand
<1> QED
  BY <1>1, <1>2, <1>3 DEF IInv, IdsHeld, BlobsHeld, MailHeld, RowsKnown, FetchedKnown, InOneHand,
     FirstToFetch, NoMailLost, StoredOnce, RowsWhole, LedgerTrue, FetchedOnce

LEMMA DeleteStep ==
  ASSUME IInv, NEW i \in Ids, DeleteRow(i) \/ DeleteBlobs(i)
  PROVE  IInv'
<1> USE DEF IInv
<1>1. /\ UNCHANGED <<proc, msg, ledger, raced, config>> /\ rows' \subseteq rows
      /\ \A j \in Ids : j \in rows' \/ msg[j] = None =>
           \A part \in {"raw", "files"} : <<j, part>> \in blobs => <<j, part>> \in blobs'
      /\ blobs' \subseteq blobs
  BY DEF DeleteRow, DeleteBlobs
<1>2. TypeOK'
  BY <1>1 DEF TypeOK, config
<1>3. BlobsHeld'
  BY <1>1 DEF BlobsHeld, IdsHeld, TypeOK, Caller
<1>4. RowsWhole'
  <2> SUFFICES ASSUME NEW j \in rows' PROVE {<<j, "raw">>, <<j, "files">>} \subseteq blobs'
    BY DEF RowsWhole
  <2>1. j \in Ids /\ <<j, "raw">> \in blobs /\ <<j, "files">> \in blobs
    BY <1>1 DEF RowsWhole, TypeOK
  <2> QED
    BY <1>1, <2>1
<1>5. \A r : InHand(r)' = InHand(r)
  BY <1>1 DEF InHand
<1> QED
  BY <1>1, <1>2, <1>3, <1>4, <1>5 DEF IdsHeld, MailHeld, RowsKnown, FetchedKnown, InOneHand,
     FirstToFetch, NoMailLost, StoredOnce, LedgerTrue, FetchedOnce

-----------------------------------------------------------------------------
LEMMA NextIInv == IInv /\ [Next]_vars => IInv'
<1> SUFFICES ASSUME IInv, [Next]_vars PROVE IInv'
  OBVIOUS
<1>1. ASSUME NEW d \in Deliveries, Offer(d) \/ Deliver(d) PROVE IInv'
  BY <1>1, OfferStep, RefuseStep, TryStep, AcceptStep, StoreStep, DedupeStep, InsertStep, ThrowStep
  DEF Deliver, Receive
<1>2. ASSUME NEW r \in Runs, Poll(r) PROVE IInv'
  BY <1>2, BeginRunStep, SkipStep, TakeStep, RecordedStep, EndRunStep, StoreStep, DedupeStep,
     InsertStep, ThrowStep
  DEF Poll, Receive
<1>3. ASSUME NEW c \in Callers, Fail(c) PROVE IInv'
  BY <1>3, ThrowStep
<1>4. CASE SetStatus \/ (\E m \in Mails : Arrive(m)) \/ (\E a \in Addresses : Switch(a))
  BY <1>4, ConfigStep
<1>5. ASSUME NEW i \in Ids, DeleteRow(i) \/ DeleteBlobs(i) PROVE IInv'
  BY <1>5, DeleteStep
<1>6. CASE UNCHANGED vars
  <2>1. \A r : InHand(r)' = InHand(r)
    BY <1>6 DEF vars, InHand
  <2> QED
    BY <1>6, <2>1 DEF vars, IInv, TypeOK, IdsHeld, BlobsHeld, MailHeld, RowsKnown, FetchedKnown,
       InOneHand, FirstToFetch, NoMailLost, StoredOnce, RowsWhole, LedgerTrue, FetchedOnce
<1> QED
  BY <1>1, <1>2, <1>3, <1>4, <1>5, <1>6 DEF Next

(* Ingest keeps its invariant, whatever is delivered, polled and deleted,   *)
(* and wherever it fails.                                                  *)
THEOREM IngestInvariant == Spec => []IInv
<1> QED
  BY InitIInv, NextIInv, PTL DEF Spec

(* A mail whose delivery email() reported as done was inserted. *)
THEOREM NothingLost == Spec => []NoMailLost
<1>1. IInv => NoMailLost
  BY DEF IInv
<1> QED
  BY <1>1, IngestInvariant, PTL

(* A mail with a Message-ID has at most one row. *)
THEOREM OneRow == Spec => []StoredOnce
<1>1. IInv => StoredOnce
  BY DEF IInv
<1> QED
  BY <1>1, IngestInvariant, PTL

(* A message in the table has its source and attachments in the store. *)
THEOREM WholeRows == Spec => []RowsWhole
<1>1. IInv => RowsWhole
  BY DEF IInv
<1> QED
  BY <1>1, IngestInvariant, PTL

(* A remote mail that no two runs raced for is ingested once, and the       *)
(* ledger names the message it became.                                     *)
THEOREM IngestedOnce == Spec => [](FetchedOnce /\ LedgerTrue)
<1>1. IInv => FetchedOnce /\ LedgerTrue
  BY DEF IInv
<1> QED
  BY <1>1, IngestInvariant, PTL
=============================================================================
