----------------------------- MODULE FileLinks -----------------------------
(***************************************************************************)
(* Temporary file links: bearer URLs over one stored object                *)
(* (usecases/file-links.ts, repositories/file-link-repository.ts).         *)
(*                                                                         *)
(* Every request is a Worker invocation that may be suspended at any await *)
(* and evicted there for good.  A step of this module is the work between  *)
(* two awaits: one SQL statement, one blob access.  Mint, download and     *)
(* revoke requests are one-shot; `dl' and `rv' hold their program          *)
(* counters and what they keep in memory across an await.                  *)
(***************************************************************************)
EXTENDS Integers

CONSTANTS
  Links,        \* ids of the links the run may mint (id and token are one)
  Targets,      \* stored objects a link may reach: attachments, raw messages
  Downloads,    \* GET /files/:token requests
  Revokers,     \* revokeFileLink requests
  Limits,       \* values of maxDownloads the callers ask for
  Unlimited,    \* maxDownloads = null
  TtlRequests,  \* values of ttlSeconds the callers ask for
  NotGiven,     \* ttlSeconds absent
  MinTtl, DefaultTtl, MaxTtl,  \* MIN_/DEFAULT_FILE_LINK_TTL_SECONDS, the cap
  None,         \* no row in the table, nothing held in memory
  MaxNow        \* bound on the clock

ASSUME LimitsAssumption ==
  /\ Unlimited \notin Nat
  /\ Limits \subseteq Int \cup {Unlimited}

ASSUME TtlAssumption ==
  /\ MinTtl \in Nat \ {0} /\ DefaultTtl \in Nat /\ MaxTtl \in Nat
  /\ MinTtl <= DefaultTtl /\ MinTtl <= MaxTtl
  /\ TtlRequests \subseteq Int \cup {NotGiven}
  /\ NotGiven \notin Int
  /\ MaxNow \in Nat

VARIABLES
  now,       \* the clock
  objects,   \* targets whose attachments / messages row exists
  blobs,     \* targets whose blob exists
  links,     \* the file_links table
  mint,      \* mint requests, one per link id
  dl,        \* download requests
  rv,        \* revoke requests
  granted    \* history: downloads granted through each link

vars == <<now, objects, blobs, links, mint, dl, rv, granted>>

(* A row of file_links. *)
Row == [target : Targets, expiresAt : Int, maxDownloads : Int \cup {Unlimited},
        downloadCount : Nat, revoked : BOOLEAN]

ASSUME NoneAssumption == None \notin Row /\ None \notin Links

-----------------------------------------------------------------------------
(* Defects the properties below must catch, each a plausible slip in the   *)
(* operator of the same shape that follows.                                *)
ClampTtlNoCap(requested) ==
  LET asked == IF requested = NotGiven THEN DefaultTtl ELSE requested
  IN  IF asked < MinTtl THEN MinTtl ELSE asked
UsableNoBudget(row, at) == row # None /\ ~row.revoked /\ row.expiresAt > at
UsableIfRevoked(row, at) ==
  /\ row # None /\ row.expiresAt > at
  /\ row.maxDownloads = Unlimited \/ row.downloadCount < row.maxDownloads
UpsertKeepsRevocation(old, new) ==
  IF old = None THEN new ELSE [old EXCEPT !.downloadCount = new.downloadCount]

(* clampTtl: an absent ttl is the default, everything is clamped between   *)
(* the floor and the instance's cap.                                       *)
ClampTtl(requested) ==
  LET asked == IF requested = NotGiven THEN DefaultTtl ELSE requested
      floored == IF asked < MinTtl THEN MinTtl ELSE asked
  IN  IF floored > MaxTtl THEN MaxTtl ELSE floored

(* validateMaxDownloads *)
ValidLimit(n) == n = Unlimited \/ (n \in Int /\ n >= 1)

(* The predicate of consumeByTokenHash's UPDATE, with the `now' the request *)
(* read before it was sent.                                                *)
Usable(row, at) ==
  /\ row # None
  /\ ~row.revoked
  /\ row.expiresAt > at
  /\ row.maxDownloads = Unlimited \/ row.downloadCount < row.maxDownloads

(* revokeFileLink on the entity: the rest of the row is kept as read. *)
Revoked(row) == [row EXCEPT !.revoked = TRUE]

(* save: INSERT ... ON CONFLICT(id) DO UPDATE of the counter and the        *)
(* revocation only, so the columns fixed at mint time survive.             *)
Upsert(old, new) ==
  IF old = None THEN new
  ELSE [old EXCEPT !.downloadCount = new.downloadCount, !.revoked = new.revoked]

-----------------------------------------------------------------------------
Init ==
  /\ now = 0
  /\ objects = Targets /\ blobs = Targets
  /\ links = [l \in Links |-> None]
  /\ mint = [l \in Links |-> [pc |-> "idle", mintedAt |-> 0, row |-> None]]
  /\ dl = [d \in Downloads |-> [pc |-> "idle", link |-> None, at |-> 0]]
  /\ rv = [r \in Revokers |-> [pc |-> "idle", link |-> None, row |-> None]]
  /\ granted = [l \in Links |-> 0]

Tick == /\ now < MaxNow /\ now' = now + 1
        /\ UNCHANGED <<objects, blobs, links, mint, dl, rv, granted>>

(* createAttachmentLink / createRawMessageLink up to the INSERT: the object *)
(* is found, the limit validated and the expiry computed from the clock.   *)
AuthorizeMint(l, t, limit, ttl) ==
  /\ mint[l].pc = "idle"
  /\ t \in objects
  /\ ValidLimit(limit)
  /\ mint' = [mint EXCEPT ![l] =
       [pc |-> "save", mintedAt |-> now,
        row |-> [target |-> t, expiresAt |-> now + ClampTtl(ttl),
                 maxDownloads |-> limit, downloadCount |-> 0, revoked |-> FALSE]]]
  /\ UNCHANGED <<now, objects, blobs, links, dl, rv, granted>>

(* The INSERT.  The foreign key refuses it when the object was deleted     *)
(* meanwhile, and the request fails.                                       *)
SaveMint(l) ==
  /\ mint[l].pc = "save"
  /\ IF mint[l].row.target \in objects
     THEN /\ links' = [links EXCEPT ![l] = Upsert(@, mint[l].row)]
          /\ mint' = [mint EXCEPT ![l].pc = "done"]
     ELSE /\ mint' = [mint EXCEPT ![l].pc = "failed"]
          /\ UNCHANGED links
  /\ UNCHANGED <<now, objects, blobs, dl, rv, granted>>

(* resolveFileLink: the token was handed out, the clock is read once. *)
Present(d, l) ==
  /\ dl[d].pc = "idle"
  /\ mint[l].pc = "done"
  /\ dl' = [dl EXCEPT ![d] = [pc |-> "consume", link |-> l, at |-> now]]
  /\ UNCHANGED <<now, objects, blobs, links, mint, rv, granted>>

(* consumeByTokenHash, first statement: check and increment in one UPDATE. *)
Consume(d) ==
  LET l == dl[d].link IN
  /\ dl[d].pc = "consume"
  /\ IF Usable(links[l], dl[d].at)
     THEN /\ links' = [links EXCEPT ![l].downloadCount = @ + 1]
          /\ granted' = [granted EXCEPT ![l] = @ + 1]
          /\ dl' = [dl EXCEPT ![d].pc = "find"]
     ELSE /\ dl' = [dl EXCEPT ![d].pc = "notFound"]
          /\ UNCHANGED <<links, granted>>
  /\ UNCHANGED <<now, objects, blobs, mint, rv>>

(* consumeByTokenHash's SELECT and the lookup of the object's row: either  *)
(* may be gone by now, and the answer is then the uniform 404.             *)
FindObject(d) ==
  LET l == dl[d].link IN
  /\ dl[d].pc = "find"
  /\ dl' = [dl EXCEPT ![d].pc =
       IF links[l] # None /\ links[l].target \in objects THEN "blob" ELSE "notFound"]
  /\ UNCHANGED <<now, objects, blobs, links, mint, rv, granted>>

(* blobs.get, then the response: the body, or the same 404 without one. *)
Stream(d) ==
  /\ dl[d].pc = "blob"
  /\ dl' = [dl EXCEPT ![d].pc =
       IF mint[dl[d].link].row.target \in blobs THEN "streamed" ELSE "notFound"]
  /\ UNCHANGED <<now, objects, blobs, links, mint, rv, granted>>

(* revokeFileLink: findById.  Everything after it works on this snapshot. *)
RevokeFind(r, l) ==
  /\ rv[r].pc = "idle"
  /\ links[l] # None
  /\ rv' = [rv EXCEPT ![r] = [pc |-> "authorize", link |-> l, row |-> links[l]]]
  /\ UNCHANGED <<now, objects, blobs, links, mint, dl, granted>>

(* The owning message or event is loaded; NotFound when it is gone. *)
RevokeAuthorize(r) ==
  /\ rv[r].pc = "authorize"
  /\ rv' = [rv EXCEPT ![r].pc =
       IF rv[r].row.target \in objects THEN "save" ELSE "failed"]
  /\ UNCHANGED <<now, objects, blobs, links, mint, dl, granted>>

(* save(revokeFileLink(link)): a full-row upsert of the snapshot.  It      *)
(* re-creates a row swept meanwhile, if the foreign key still holds.       *)
RevokeSave(r) ==
  LET l == rv[r].link IN
  /\ rv[r].pc = "save"
  /\ IF rv[r].row.target \in objects
     THEN /\ links' = [links EXCEPT ![l] = Upsert(@, Revoked(rv[r].row))]
          /\ rv' = [rv EXCEPT ![r].pc = "done"]
     ELSE /\ rv' = [rv EXCEPT ![r].pc = "failed"]
          /\ UNCHANGED links
  /\ UNCHANGED <<now, objects, blobs, mint, dl, granted>>

(* deleteExpired, run by the sweep of the first request of an isolate. *)
Expired == {l \in Links : links[l] # None /\ links[l].expiresAt <= now}

SweepExpired ==
  /\ Expired # {}
  /\ links' = [l \in Links |-> IF l \in Expired THEN None ELSE links[l]]
  /\ UNCHANGED <<now, objects, blobs, mint, dl, rv, granted>>

(* Hard delete of the object: its row goes first and takes the links with  *)
(* it (ON DELETE CASCADE), its blob follows in a later step.               *)
DeleteObject(t) ==
  /\ t \in objects
  /\ objects' = objects \ {t}
  /\ links' = [l \in Links |->
       IF links[l] # None /\ links[l].target = t THEN None ELSE links[l]]
  /\ UNCHANGED <<now, blobs, mint, dl, rv, granted>>

DeleteBlob(t) ==
  /\ t \in blobs \ objects
  /\ blobs' = blobs \ {t}
  /\ UNCHANGED <<now, objects, links, mint, dl, rv, granted>>

(* Eviction of a request between two awaits: nothing more of it happens. *)
EvictMint(l) ==
  /\ mint[l].pc = "save"
  /\ mint' = [mint EXCEPT ![l].pc = "failed"]
  /\ UNCHANGED <<now, objects, blobs, links, dl, rv, granted>>

EvictDownload(d) ==
  /\ dl[d].pc \in {"consume", "find", "blob"}
  /\ dl' = [dl EXCEPT ![d].pc = "notFound"]
  /\ UNCHANGED <<now, objects, blobs, links, mint, rv, granted>>

EvictRevoke(r) ==
  /\ rv[r].pc \in {"authorize", "save"}
  /\ rv' = [rv EXCEPT ![r].pc = "failed"]
  /\ UNCHANGED <<now, objects, blobs, links, mint, dl, granted>>

Next ==
  \/ Tick
  \/ \E l \in Links, t \in Targets, limit \in Limits, ttl \in TtlRequests :
       AuthorizeMint(l, t, limit, ttl)
  \/ \E l \in Links : SaveMint(l) \/ EvictMint(l)
  \/ \E d \in Downloads, l \in Links : Present(d, l)
  \/ \E d \in Downloads : Consume(d) \/ FindObject(d) \/ Stream(d) \/ EvictDownload(d)
  \/ \E r \in Revokers, l \in Links : RevokeFind(r, l)
  \/ \E r \in Revokers : RevokeAuthorize(r) \/ RevokeSave(r) \/ EvictRevoke(r)
  \/ SweepExpired
  \/ \E t \in Targets : DeleteObject(t) \/ DeleteBlob(t)

Spec == Init /\ [][Next]_vars

-----------------------------------------------------------------------------
MintPcs == {"idle", "save", "done", "failed"}
DownloadPcs == {"idle", "consume", "find", "blob", "streamed", "notFound"}
RevokePcs == {"idle", "authorize", "save", "done", "failed"}

(* Types of every variable. *)
TypeOK ==
  /\ now \in Nat
  /\ objects \in SUBSET Targets /\ blobs \in SUBSET Targets
  /\ links \in [Links -> Row \cup {None}]
  /\ mint \in [Links -> [pc : MintPcs, mintedAt : Nat, row : Row \cup {None}]]
  /\ dl \in [Downloads -> [pc : DownloadPcs, link : Links \cup {None}, at : Nat]]
  /\ rv \in [Revokers -> [pc : RevokePcs, link : Links \cup {None},
                          row : Row \cup {None}]]
  /\ granted \in [Links -> Nat]

Limited(l) == mint[l].pc = "done" /\ mint[l].row.maxDownloads # Unlimited

(* However downloads, revocations, sweeps, deletions and evictions          *)
(* interleave, no link ever grants more downloads than its maxDownloads    *)
(* (the atomic UPDATE of consumeByTokenHash, with revokeFileLink writing   *)
(* back a counter it read earlier).                                        *)
GrantsWithinLimit ==
  \A l \in Links : Limited(l) => granted[l] <= mint[l].row.maxDownloads

(* The counter of a link that is still usable has lost no download to a    *)
(* stale write-back: the stored downloadCount of an unrevoked row is the   *)
(* number of downloads granted.                                            *)
CounterExact ==
  \A l \in Links : links[l] # None /\ ~links[l].revoked =>
                      links[l].downloadCount = granted[l]

Dead(l) == mint[l].pc = "done" /\ (links[l] = None \/ links[l].revoked)

(* A link that was revoked, swept or deleted with its object never grants  *)
(* again, although a revocation in flight may re-create its row and a      *)
(* download may have read the clock before it died.                        *)
DeadStaysDead ==
  [][\A l \in Links : Dead(l) => Dead(l)' /\ granted'[l] = granted[l]]_vars

-----------------------------------------------------------------------------
(* The inductive invariant behind these properties.  It ties a row to the  *)
(* mint that wrote it, whose expiry lies between the floor and the cap     *)
(* from the mint on (clampTtl), the snapshot a revocation holds to the     *)
(* same mint, and the counter of a live row to the downloads granted.      *)
SameMint(l, row) ==
  /\ mint[l].pc = "done"
  /\ row.target = mint[l].row.target
  /\ row.expiresAt = mint[l].row.expiresAt
  /\ row.maxDownloads = mint[l].row.maxDownloads

MintSound ==
  \A l \in Links :
    /\ mint[l].pc # "idle" =>
         /\ mint[l].row \in Row
         /\ mint[l].row.downloadCount = 0 /\ ~mint[l].row.revoked
         /\ ValidLimit(mint[l].row.maxDownloads)
         /\ mint[l].row.maxDownloads \in Limits
         /\ mint[l].mintedAt + MinTtl <= mint[l].row.expiresAt
         /\ mint[l].row.expiresAt <= mint[l].mintedAt + MaxTtl
    /\ mint[l].pc # "done" => granted[l] = 0

RowsSound == \A l \in Links : links[l] # None => SameMint(l, links[l])

DownloadsSound ==
  \A d \in Downloads : dl[d].pc # "idle" =>
    dl[d].link \in Links /\ mint[dl[d].link].pc = "done"

RevokesSound ==
  \A r \in Revokers : rv[r].pc # "idle" =>
    rv[r].link \in Links /\ rv[r].row \in Row /\ SameMint(rv[r].link, rv[r].row)

(* All of these together, with the two safety properties they imply. *)
IInv == /\ TypeOK /\ MintSound /\ RowsSound /\ DownloadsSound /\ RevokesSound
        /\ CounterExact /\ GrantsWithinLimit

(* The promise this module implements: what the requests and the table     *)
(* come to for each link.                                                  *)
PhaseOf(l) == IF mint[l].pc # "done" THEN "none"
              ELSE IF links[l] # None /\ ~links[l].revoked THEN "live" ELSE "dead"
BudgetOf(l) == IF mint[l].pc = "done" THEN mint[l].row.maxDownloads ELSE Unlimited

Promise == INSTANCE FileLinkPromise WITH
  phase <- [l \in Links |-> PhaseOf(l)],
  spent <- granted,
  budget <- [l \in Links |-> BudgetOf(l)]

(* Every behaviour of the requests is one of the abstract capability.      *)
ImplementsPromise == Promise!Spec
=============================================================================
