------------------------------- MODULE Ingest -------------------------------
(***************************************************************************)
(* Mail coming in: the Worker's email() handler and the polling of an      *)
(* external account, both through receiveMessage (apps/api/src/worker.ts,  *)
(* usecases/ingest.ts, usecases/external-fetch.ts, jmap-client.ts,         *)
(* pop3-client.ts, external-message-state-repository.ts).                  *)
(*                                                                         *)
(* A step is the work between two awaits.  At any await a call may throw   *)
(* or the isolate go away: the sending MTA then delivers again, a polling  *)
(* run is over.  Mails with the same Message-ID are the same mail.         *)
(***************************************************************************)
EXTENDS Naturals, Sequences, FiniteSets

CONSTANTS
  Mails,       \* mails under way, known by their Message-ID
  Anonymous,   \* those that have no Message-ID
  TooLarge,    \* those over MAX_INBOUND_RAW_BYTES
  Addresses,   \* managed addresses
  Bound,       \* the address the external account is bound to
  Deliveries,  \* SMTP deliveries of one mail to one envelope recipient
  Runs,        \* callers of fetchExternalMail
  Ids,         \* message ids left to generate
  Kind,        \* protocol of the external account
  Max,         \* most messages one run takes
  None

ASSUME MailsAssumption == Anonymous \subseteq Mails /\ TooLarge \subseteq Mails
ASSUME AddressesAssumption == Bound \in Addresses
ASSUME CallersAssumption == Deliveries \cap Runs = {}
ASSUME FetchAssumption == Kind \in {"JMAP", "POP3"} /\ Max \in Nat
ASSUME NoneAssumption == /\ None \notin Ids \cup Mails \cup Addresses
                         /\ None \notin [mail : Mails, fetched : BOOLEAN]

VARIABLES
  proc,     \* deliveries and polling runs
  msg,      \* what was ever inserted under an id
  rows,     \* the messages table: ids of the rows it has
  blobs,    \* the store: raw sources and attachments, by message id
  ledger,   \* external_message_states: the message of each remote mail
  inbox,    \* the external account's inbox, oldest mail first
  account,  \* status of the external account
  closed,   \* addresses that take no mail now
  raced     \* history: remote mails two runs had in hand at once

vars == <<proc, msg, rows, blobs, ledger, inbox, account, closed, raced>>
config == <<inbox, account, closed>>

Callers == Deliveries \cup Runs
Content == [mail : Mails, fetched : BOOLEAN]
Receiving == {"put", "dedupe", "files", "insert"}
InFlight == Receiving \cup {"stored", "duplicate"}
Pcs == InFlight \cup {"new", "pending", "accepted", "refused", "idle", "next"}
Caller == [pc : Pcs, mail : Mails \cup {None}, to : Addresses \cup {None},
           id : Ids \cup {None}, queue : SUBSET Mails]

(* A message id nothing has used. *)
Fresh == {i \in Ids : /\ msg[i] = None
                      /\ <<i, "raw">> \notin blobs /\ <<i, "files">> \notin blobs
                      /\ \A c \in Callers : proc[c].id # i}

(* Neither a lookup nor a unique index. *)
TwinsOfNobody(m) == {}

(* findByRfcMessageId *)
Twins(m) == {i \in rows : m \notin Anonymous /\ msg[i].mail = m}

(* The size cap, resolveRecipient and the check of the envelope sender. *)
Rejected(m, a) == m \in TooLarge \/ a \in closed

(* Remote mails a run has yet to deal with. *)
InHand(r) == proc[r].queue \cup (IF proc[r].pc \in InFlight THEN {proc[r].mail} ELSE {})

-----------------------------------------------------------------------------
(* Defects the properties below must catch, each a plausible slip in the   *)
(* operator of the same shape that follows.                                *)
GivesUp(c) == [proc[c] EXCEPT !.pc = IF c \in Deliveries THEN "accepted" ELSE "idle", !.id = None, !.queue = {}]

LedgerLeftForLater(c) ==
  /\ proc[c].pc = "insert" /\ Twins(proc[c].mail) = {}
  /\ msg' = [msg EXCEPT ![proc[c].id] = [mail |-> proc[c].mail, fetched |-> c \in Runs]]
  /\ rows' = rows \cup {proc[c].id}
  /\ proc' = [proc EXCEPT ![c].pc = "stored"]
  /\ UNCHANGED <<blobs, ledger, config, raced>>
InsertsBlindly(c) ==
  /\ proc[c].pc = "put"
  /\ blobs' = blobs \cup {<<proc[c].id, "raw">>}
  /\ proc' = [proc EXCEPT ![c].pc = "insert"]
  /\ UNCHANGED <<msg, rows, ledger, config, raced>>

(* Where a call that throws leaves its caller: email() throws on, the MTA  *)
(* will deliver again; a run ends.                                         *)
Thrown(c) == IF c \in Deliveries THEN [proc[c] EXCEPT !.pc = "pending", !.id = None]
             ELSE [proc[c] EXCEPT !.pc = "idle", !.id = None, !.mail = None, !.queue = {}]

(* The mails a run takes up.  fetchSince asks for the oldest Max of the     *)
(* inbox and drops the known ones; listUidls is complete, and the run cuts  *)
(* what is new at Max.                                                     *)
Listed(known) ==
  LET inboxIndex == DOMAIN inbox
      new(i) == inbox[i] \notin known
      taken(i) == IF Kind = "JMAP" THEN i <= Max /\ new(i)
                  ELSE new(i) /\ Cardinality({j \in inboxIndex : j < i /\ new(j)}) < Max
  IN  {inbox[i] : i \in {j \in inboxIndex : taken(j)}}

-----------------------------------------------------------------------------
Init ==
  /\ proc = [c \in Callers |-> [pc |-> IF c \in Deliveries THEN "new" ELSE "idle",
                                  mail |-> None, to |-> None, id |-> None, queue |-> {}]]
  /\ msg = [i \in Ids |-> None]
  /\ rows = {} /\ blobs = {} /\ closed = {} /\ raced = {}
  /\ ledger = [m \in Mails |-> None]
  /\ inbox = <<>>
  /\ account = "ACTIVE"

(* Email Routing has a mail for a recipient. *)
Offer(d) == \E m \in Mails, a \in Addresses :
  /\ proc[d].pc = "new"
  /\ proc' = [proc EXCEPT ![d] = [@ EXCEPT !.pc = "pending", !.mail = m, !.to = a]]
  /\ UNCHANGED <<msg, rows, blobs, ledger, config, raced>>

(* email(): the checks of receiveMessage; setReject, or a new message id. *)
Refuse(d) ==
  /\ proc[d].pc = "pending" /\ Rejected(proc[d].mail, proc[d].to)
  /\ proc' = [proc EXCEPT ![d].pc = "refused"]
  /\ UNCHANGED <<msg, rows, blobs, ledger, config, raced>>

Try(d) == \E i \in Fresh :
  /\ proc[d].pc = "pending" /\ ~Rejected(proc[d].mail, proc[d].to)
  /\ proc' = [proc EXCEPT ![d].pc = "put", ![d].id = i]
  /\ UNCHANGED <<msg, rows, blobs, ledger, config, raced>>

(* receiveMessage: the raw source goes to the store first, *)
PutRaw(c) ==
  /\ proc[c].pc = "put"
  /\ blobs' = blobs \cup {<<proc[c].id, "raw">>}
  /\ proc' = [proc EXCEPT ![c].pc = "dedupe"]
  /\ UNCHANGED <<msg, rows, ledger, config, raced>>

(* then it is parsed, and looked up by its Message-ID, *)
Dedupe(c) ==
  LET twins == Twins(proc[c].mail) IN
  /\ proc[c].pc = "dedupe"
  /\ \/ /\ twins = {}
        /\ proc' = [proc EXCEPT ![c].pc = "files"]
     \/ \E i \in twins : proc' = [proc EXCEPT ![c].pc = "duplicate", ![c].id = i]
  /\ UNCHANGED <<msg, rows, blobs, ledger, config, raced>>

(* its attachments are stored, *)
PutFiles(c) ==
  /\ proc[c].pc = "files"
  /\ blobs' = blobs \cup {<<proc[c].id, "files">>}
  /\ proc' = [proc EXCEPT ![c].pc = "insert"]
  /\ UNCHANGED <<msg, rows, ledger, config, raced>>

(* and one batch inserts the message, with a polling run's ledger row; the  *)
(* unique index on rfc_message_id makes it throw when another came first.  *)
Insert(c) ==
  LET q == proc[c] IN
  /\ q.pc = "insert" /\ Twins(q.mail) = {}
  /\ msg' = [msg EXCEPT ![q.id] = [mail |-> q.mail, fetched |-> c \in Runs]]
  /\ rows' = rows \cup {q.id}
  /\ ledger' = IF c \in Runs THEN [ledger EXCEPT ![q.mail] = q.id] ELSE ledger
  /\ proc' = [proc EXCEPT ![c].pc = "stored"]
  /\ UNCHANGED <<blobs, config, raced>>

InsertTwin(c) ==
  /\ proc[c].pc = "insert" /\ Twins(proc[c].mail) # {}
  /\ proc' = [proc EXCEPT ![c] = Thrown(c)]
  /\ UNCHANGED <<msg, rows, blobs, ledger, config, raced>>

(* An await that throws, or never returns because the isolate is evicted. *)
Fail(c) ==
  /\ proc[c].pc \in InFlight \cup {"next"}
  /\ proc' = [proc EXCEPT ![c] = Thrown(c)]
  /\ UNCHANGED <<msg, rows, blobs, ledger, config, raced>>

(* email() returns and Email Routing takes the mail off its hands. *)
Accept(d) ==
  /\ proc[d].pc \in {"stored", "duplicate"}
  /\ proc' = [proc EXCEPT ![d].pc = "accepted", ![d].id = None]
  /\ UNCHANGED <<msg, rows, blobs, ledger, config, raced>>

-----------------------------------------------------------------------------
(* fetchExternalMail: the account, the ledger and the remote inbox. *)
BeginRun(r) ==
  LET queue == Listed({m \in Mails : ledger[m] # None}) IN
  /\ proc[r].pc = "idle" /\ account = "ACTIVE"
  /\ proc' = [proc EXCEPT ![r].pc = "next", ![r].queue = queue]
  /\ raced' = raced \cup (queue \cap UNION {InHand(s) : s \in Runs})
  /\ UNCHANGED <<msg, rows, blobs, ledger, config>>

(* ingestFetchedMessage: nothing to do for a mail in the ledger, or one     *)
(* receiveMessage rejects;                                                 *)
Skip(r) == \E m \in proc[r].queue :
  /\ proc[r].pc = "next"
  /\ ledger[m] # None \/ Rejected(m, Bound)
  /\ proc' = [proc EXCEPT ![r].queue = @ \ {m}]
  /\ UNCHANGED <<msg, rows, blobs, ledger, config, raced>>

Take(r) == \E m \in proc[r].queue, i \in Fresh :
  /\ proc[r].pc = "next"
  /\ ledger[m] = None /\ ~Rejected(m, Bound)
  /\ proc' = [proc EXCEPT ![r] = [@ EXCEPT !.pc = "put", !.mail = m, !.id = i,
                                    !.queue = proc[r].queue \ {m}]]
  /\ UNCHANGED <<msg, rows, blobs, ledger, config, raced>>

(* a duplicate gets its ledger row now, what was stored has it already. *)
Recorded(r) ==
  /\ proc[r].pc \in {"stored", "duplicate"}
  /\ ledger' = IF proc[r].pc = "duplicate"
               THEN [ledger EXCEPT ![proc[r].mail] = proc[r].id] ELSE ledger
  /\ proc' = [proc EXCEPT ![r].pc = "next", ![r].mail = None, ![r].id = None]
  /\ UNCHANGED <<msg, rows, blobs, config, raced>>

(* The whole account is saved as it was read, ACTIVE, with a new            *)
(* lastFetchedAt.                                                          *)
EndRun(r) ==
  /\ proc[r].pc = "next" /\ proc[r].queue = {}
  /\ account' = "ACTIVE"
  /\ proc' = [proc EXCEPT ![r].pc = "idle"]
  /\ UNCHANGED <<msg, rows, blobs, ledger, inbox, closed, raced>>

-----------------------------------------------------------------------------
(* A mail reaches the external inbox. *)
Arrive(m) ==
  /\ \A i \in DOMAIN inbox : inbox[i] # m
  /\ inbox' = Append(inbox, m)
  /\ UNCHANGED <<proc, msg, rows, blobs, ledger, account, closed, raced>>

(* updateExternalAccount, and an address disabled or enabled. *)
SetStatus ==
  /\ account' \in {"ACTIVE", "DISABLED"} \ {account}
  /\ UNCHANGED <<proc, msg, rows, blobs, ledger, inbox, closed, raced>>

Switch(a) ==
  /\ closed' = IF a \in closed THEN closed \ {a} ELSE closed \cup {a}
  /\ UNCHANGED <<proc, msg, rows, blobs, ledger, inbox, account, raced>>

(* A message is deleted for good: its row first, then what the store has    *)
(* of it, unless that fails.                                               *)
DeleteRow(i) ==
  /\ i \in rows
  /\ rows' = rows \ {i}
  /\ UNCHANGED <<proc, msg, blobs, ledger, config, raced>>

DeleteBlobs(i) ==
  /\ msg[i] # None /\ i \notin rows
  /\ blobs' = blobs \ {<<i, "raw">>, <<i, "files">>}
  /\ UNCHANGED <<proc, msg, rows, ledger, config, raced>>

Receive(c) == PutRaw(c) \/ Dedupe(c) \/ PutFiles(c) \/ Insert(c) \/ InsertTwin(c)
Deliver(d) == Refuse(d) \/ Try(d) \/ Receive(d) \/ Accept(d)
Poll(r) == BeginRun(r) \/ Skip(r) \/ Take(r) \/ Receive(r) \/ Recorded(r) \/ EndRun(r)

Next ==
  \/ \E d \in Deliveries : Offer(d) \/ Deliver(d)
  \/ \E r \in Runs : Poll(r)
  \/ \E c \in Callers : Fail(c)
  \/ \E m \in Mails : Arrive(m)
  \/ SetStatus
  \/ \E a \in Addresses : Switch(a)
  \/ \E i \in Ids : DeleteRow(i) \/ DeleteBlobs(i)

Spec == Init /\ [][Next]_vars

(* The MTA delivers again, somebody polls again, and no call fails for      *)
(* ever.                                                                   *)
FairSpec ==
  /\ Spec
  /\ \A d \in Deliveries : WF_vars(Deliver(d)) /\ SF_vars(PutRaw(d))
  /\ \A r \in Runs : WF_vars(Poll(r)) /\ SF_vars(Take(r)) /\ SF_vars(PutRaw(r))

-----------------------------------------------------------------------------
(* Types of every variable. *)
TypeOK ==
  /\ proc \in [Callers -> Caller]
  /\ \A d \in Deliveries : proc[d].pc \notin {"idle", "next"}
  /\ \A r \in Runs : proc[r].pc \in InFlight \cup {"idle", "next"}
  /\ msg \in [Ids -> Content \cup {None}]
  /\ rows \subseteq Ids /\ blobs \subseteq Ids \X {"raw", "files"}
  /\ ledger \in [Mails -> Ids \cup {None}]
  /\ inbox \in Seq(Mails) /\ account \in {"ACTIVE", "DISABLED"}
  /\ closed \subseteq Addresses /\ raced \subseteq Mails

(* A delivery the MTA was told is done left its mail in the table: no       *)
(* failure between any two awaits loses a mail (email() throws on).        *)
NoMailLost == \A d \in Deliveries : proc[d].pc = "accepted" =>
  \E i \in Ids : msg[i] # None /\ msg[i].mail = proc[d].mail

(* A mail with a Message-ID has one row, however often and by whichever    *)
(* way it came in.                                                         *)
StoredOnce == \A i, j \in rows :
  msg[i].mail = msg[j].mail /\ msg[i].mail \notin Anonymous => i = j

(* A message has its source and its attachments in the store. *)
RowsWhole == \A i \in rows : {<<i, "raw">>, <<i, "files">>} \subseteq blobs

(* The ledger names the message a remote mail became. *)
LedgerTrue == \A m \in Mails : ledger[m] # None =>
  msg[ledger[m]] # None /\ msg[ledger[m]].mail = m

(* A remote mail is ingested once, Message-ID or not, deleted meanwhile or  *)
(* not, through failures at any await, unless two runs had it in hand.     *)
FetchedOnce == \A i, j \in Ids :
  /\ msg[i] # None /\ msg[j] # None
  /\ msg[i].fetched /\ msg[j].fetched /\ msg[i].mail = msg[j].mail
  /\ msg[i].mail \notin raced
  => i = j

(* What the callers know: the id a caller holds is nobody else's and not    *)
(* used yet; its blobs are stored in order; what it found or stored is     *)
(* there under its id.                                                     *)
IdsHeld == \A c \in Callers : proc[c].pc \in Receiving =>
  /\ proc[c].id # None /\ msg[proc[c].id] = None
  /\ \A b \in Callers : b # c => proc[b].id # proc[c].id
BlobsHeld == \A c \in Callers :
  /\ proc[c].pc \in {"dedupe", "files", "insert"} => <<proc[c].id, "raw">> \in blobs
  /\ proc[c].pc = "insert" => <<proc[c].id, "files">> \in blobs
MailHeld == \A c \in Callers :
  /\ proc[c].pc \in InFlight \cup {"pending", "accepted"} => proc[c].mail # None
  /\ proc[c].pc \in {"stored", "duplicate"} =>
       /\ proc[c].id # None /\ msg[proc[c].id] # None
       /\ msg[proc[c].id].mail = proc[c].mail

(* The ledger has what was fetched, two runs have a mail in hand only if    *)
(* they raced for it, and a run still receiving a mail it did not race for *)
(* is the first to.                                                        *)
RowsKnown == \A i \in rows : msg[i] # None
FetchedKnown == \A i \in Ids : msg[i] # None /\ msg[i].fetched => ledger[msg[i].mail] # None
InOneHand == \A r, s \in Runs : r # s => InHand(r) \cap InHand(s) \subseteq raced
FirstToFetch == \A r \in Runs :
  proc[r].pc \in Receiving /\ proc[r].mail \notin raced => ledger[proc[r].mail] = None

(* The inductive invariant: all of this and the safety properties. *)
IInv ==
  /\ TypeOK /\ IdsHeld /\ BlobsHeld /\ MailHeld
  /\ RowsKnown /\ FetchedKnown /\ InOneHand /\ FirstToFetch
  /\ NoMailLost /\ StoredOnce /\ RowsWhole /\ LedgerTrue /\ FetchedOnce

(* A mail in the external inbox is fetched at last, if somebody goes on     *)
(* polling ("callers loop", design-external-mail.md:194-196).              *)
FetchedAtLast == \A m \in Mails \ TooLarge :
  (\E i \in DOMAIN inbox : inbox[i] = m)
  ~> \/ ledger[m] # None \/ Fresh = {}
     \/ account = "DISABLED" \/ Bound \in closed
=============================================================================
