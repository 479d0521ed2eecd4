# Formal models of mailcal

TLA+ specifications of the parts of mailcal whose correctness depends on the
order of things or on an algorithm too subtle for examples: eleven components,
model-checked with TLC on small instances and proved about with TLAPS for every
value of their constants. The code is the reference; every definition
that models code is listed with its file and lines in `PROJECT.json` (`map`).
Paths below are relative to the repository, `UC` is
`packages/application/src/usecases`.

## The system

mailcal is a self-hosted mail and calendar service. It runs as a Cloudflare
Worker: isolates that come and go answer `fetch()` requests (GraphQL, file
routes, login) and `email()` deliveries. All state is in two stores, reached
through ports: D1 (SQL; a statement or a `batch()` is atomic, and there are no
transactions across awaits) and R2 (blobs, one call per object). Everything
else, the mail provider, CalDAV servers, external mailboxes, is reached over the
network. In front of it is a single-page web client that keeps lists of its own.

Hence one model of execution for every module with requests:

- A request is a process. **A step is the work between two awaits**: one SQL
  statement or batch, one blob access, one network call. What the request keeps
  in memory across an await (a row it read, a list, an etag) is a field of its
  record, with a program counter.
- Any two requests interleave at awaits; each may be **evicted** at any of them
  for good, and any call may throw.
- A repository's `save` writes the *whole row* the request read earlier. Most
  of what can go wrong here comes from that.

Where two overlapping requests may break a promise of the code, the property is
about everything else: a **history variable** (`raced`, `contested`, `clashed`,
`tangled`, ...) names exactly the objects the overlap touched, and the property
excepts these. No action reads a history variable.

### Inventory

| Part | State | Operations with several steps | What makes it correct | Status |
|---|---|---|---|---|
| Temporary file links (`UC/file-links.ts`) | `file_links` | mint, download, revoke, sweep, cascade | the download budget and revocation hold under races; lifetime capped | **FileLinks** |
| Outbound mail (`UC/send.ts`, `drafts.ts`) | `messages`, `message_recipients`, raw blobs | send, save draft, send draft, retry, deliver, delete | mailed at most once; the status tells the truth; what is mailed is what is stored; sends settle | **Outbound** |
| Attachments (`infrastructure/src/http/attachments.ts`, `UC/email-auth.ts` sweep) | `attachments`, `event_attachments`, blobs | upload, bind, claim, delete, sweep | a row leads to bytes; unused uploads are reclaimed and used ones are not | **Attachments** |
| Inbound ingest and external fetch (`apps/api/src/worker.ts`, `UC/ingest.ts`, `UC/external-fetch.ts`) | `messages`, blobs, `external_message_states`, account status | deliver, poll (JMAP, POP3) | no accepted mail lost, none stored twice, every mail in the inbox fetched at last | **Ingest** |
| CalDAV sync (`UC/caldav-sync.ts`, `calendar-events.ts`) | `calendar_events`, `caldav_event_states`, `caldav_deletions`, `caldav_calendars`; the remote collection | sync (pull, push, deletions), create, edit, delete | what is taken for clean is clean; edits are not lost; both sides converge | **CaldavSync** (whole objects) |
| API keys and viewer resolution (`UC/api-keys.ts`, `auth.ts`, bootstrap of `email-auth.ts`) | `api_keys`, `api_key_scopes` | issue, add and remove scopes, revoke, authenticate (with a usage record nobody awaits), bootstrap | nobody gets more than an administrator gave; revoked stays revoked; one bootstrap | **ApiKeys** |
| Passwordless login, users (`UC/email-auth.ts`, `auth.ts`, `users.ts`) | challenges, sessions, users | ask for a link, follow it, use and end a session, create, change, deactivate users, sweeps | a link opens one session; a bounded number of links; an administrator remains; who is deactivated stays out | **SignIn** |
| Message lists, marks, tags, Trash; the web client's mailbox store (`UC/messages.ts`, `tagging.ts`, `apps/web/src/store/app-store.ts`) | rows; list, cursor, selection in the browser | page, mark, move, delete in two stages, patch, roll back | paging skips and repeats nothing; the list is honest; only Trash is destroyed | **Mailbox** |
| Authorization policies, permission administration (`policies/*.ts`, `UC/user-*-permissions.ts`, the SQL conditions) | three tables of rules, a request's viewer | add and remove a rule, resolve a viewer | the same right decided twice is decided alike; rules stay unique; a viewer is timely | **Permissions** |
| Calendar events and recurrence (`UC/calendar-events.ts`, `entities/recurrence-expansion.ts`) | a master row, its overrides | edit and delete a series or one occurrence; expand a range | a range shows what the series promises; edits and deletions of one occurrence stand | **Recurrence**, **CalendarEvents** |
| CardDAV sync | as CalDAV | as CalDAV | as CalDAV | not modelled: CaldavSync's algorithm |
| Accounts, calendars and event details, contacts, fetch state, rules and message events, templates, domains and addresses, external account administration | rows written by one statement or batch | | | not modelled: single steps |
| Codecs, storage adapters, GraphQL and HTTP, CLI, the other web pages | none of the service's | | | not modelled: text formats, pure I/O, presentation |

How they interact: outbound mail and events *take* staged uploads
(Attachments); the deletion of messages, in Outbound, Attachments, Ingest,
FileLinks and Mailbox alike, removes rows, then blobs; minting a link requires
the object it serves; the first authenticated request of each isolate sweeps
expired links, staged uploads, sessions and challenges; polling an external
account ends in the same `receiveMessage` as `email()`; every request begins
with the viewer SignIn and ApiKeys resolve and Permissions fills with rules. The
components share tables but few invariants, so each module models the foreign
operations that touch its tables (a delete, a claim, a sweep, another client) as
actions of its own and leaves out the rest. `CalendarEvents` is built on
`Recurrence`, whose expansion answers its queries, and `ApiKeys` on
`AddressPatterns`.

## The modules

| Module | What it is |
|---|---|
| `FileLinks` | requests and sweep on the links table |
| `FileLinkPromise` | abstract specification: a capability with a budget that dies once |
| `Outbound` | the requests on outbound messages |
| `MailPromise` | abstract specification: the life of one message |
| `Attachments` | uploads, takers, deleters and the sweep |
| `Ingest` | deliveries and polling runs |
| `CaldavSync` | a sync, the requests beside it, and the collection |
| `ApiKeys` | keys, scopes, the usage record, the bootstrap |
| `SignIn` | links, sessions, users and the clock |
| `Mailbox` | a browser's list beside the mail it shows |
| `Permissions` | rules, the viewer made of them, and each right decided in two ways |
| `AddressPatterns` | addresses and patterns as texts, and which address a pattern matches |
| `Recurrence` | the expansion of a series into a range, as operators |
| `CalendarEvents` | one event under edits and deletions, listed by `Recurrence` |
| `MCFileLinks`, `MCAttachments`, `MCIngest`, `MCApiKeys`, `MCSignIn`, `MCPermissions`, `MCCalendarEvents` | symmetry and constant sets for TLC |
| `FileLinksProofs`, `OutboundProofs`, `MessageProofs` (of `Attachments` and `Mailbox`), `IngestProofs`, `CalendarProofs` (of `CaldavSync`, `Recurrence` and `CalendarEvents`), `ApiKeysProofs`, `SignInProofs`, `PermissionsProofs` | theorems and proofs |

Each component module has a few operators marked as faults or defects, just
before the definition they are a slip of (a dropped guard, a swapped order, an
off-by-one). They are no part of the specification; each run's properties are
known to fail when one of them takes that definition's place (`mutants` in
`PROJECT.json`).

### FileLinks

State: the clock, the objects and blobs a link may lead to, the table, and one
record per mint, download and revocation. `AuthorizeMint` and `SaveMint` are
`createAttachmentLink`/`createRawMessageLink`, with `ClampTtl` and `ValidLimit`;
`Present` (the hash and the clock), `Consume` (`consumeByTokenHash`, one
`UPDATE ... RETURNING` whose condition is `Usable`), `FindObject` and `Stream`
are a download; `RevokeFind`, `RevokeAuthorize` and `RevokeSave` a revocation,
which writes back the row it found, stale counter included, through `Upsert`
(`UPSERT_SQL`: an existing row gets the counter and the revocation only, a row
that is gone comes back); `SweepExpired`
and `DeleteObject` remove rows.

Properties. `IInv`, which contains `CounterExact` (no stale write-back loses a
download from the counter of a live link) and the bounds of the lifetime
(between the floor and the instance's cap, whatever TTL was asked for).
`GrantsWithinLimit`: no link grants more than `maxDownloads`. `DeadStaysDead`:
after revocation, expiry sweep or cascade nothing is granted, although a
revocation in flight may re-create the row the sweep deleted.
`ImplementsPromise`: refinement of `FileLinkPromise`, with `phase` from the row,
`spent` the grants and `budget` the minted limit.

### Outbound

State: the message and recipient tables, the raw sources, and requests that hold
a `row`, recipients and source. Five kinds of request (`send`, `create`, `edit`,
`dispatch`, `retry`) and permanent `delete` walk through the same steps in the
order of their use case; `DeliverAccepted`, `DeliverRefused` and `DeliverPartly`
are the provider (the REST sender calls it once per Bcc recipient after the
visible ones, so a failure may leave some mailed); `Record` is `deliver`'s save
of the outcome; an eviction before it leaves the row `QUEUED`. `Transport` says
whether the provider sends the raw source or assembles the MIME from the row's
fields.

History variables say where the code promises nothing: `raced` (two requests
had the message in hand), `partial`, `torn` (an edit evicted between the row and
its recipients), `purged`. `MailedAtMostOnce`, `StatusTellsTruth` and
`MailedAsStored` are about all other messages, through refusals, evictions and
retries (`MailedAsStored` excepts only the raced ones, and of a torn message it
still says that body and recipients are each the stored ones);
`KeepsPromise` is the refinement of `MailPromise`, where a message in one of those
situations is "loose"; `EveryDispatchSettles` is about every message.
`PipelineInv` is the inductive invariant: `IInv`, how what a request holds agrees
with the tables, and `StoredInv`, what each request's row carries.

### Attachments

State: where each upload is, the table (`message_id` or `Staged`), the blobs,
age beyond a day, messages, event claims, requests and the one sweep. A file is
`contested` once one activity took it while another was deleting it: the code
has no lock against that. `FilesReadable`: any other row leads to its bytes, at
every step of upload, binding, deletion and sweep. `StagedReclaimed`: the row of
an aged upload that neither a message nor an event takes goes, although sweeps
are evicted half-way. What the sweep does to an upload an event did take is the
finding `EventFilesReadable` is violated by.

### Ingest

State: deliveries and runs with the id they drew, what was ever inserted under
an id, rows, blobs, the ledger, the inbox (oldest first), the account's status,
closed addresses. `PutRaw`, `Dedupe`, `PutFiles`, `Insert`/`InsertTwin` are
`receiveMessage`; a unique index refuses a second row with one Message-ID
(`InsertTwin`); `Fail` is any call throwing, after which a delivery is pending
again and a run is over. `BeginRun` lists (`Listed` is where JMAP and POP3
differ: JMAP looks at the first `Max` of the inbox and then drops what the
ledger has, POP3 does it the other way round), `Skip`/`Take`/`Recorded` go
through the list, `EndRun` saves the account.

Properties: `IInv` (which contains `RowsWhole`, a row has its blobs, and
`LedgerTrue`, the ledger names what was ingested), `NoMailLost`, `StoredOnce`,
`FetchedOnce` (also of mails without Message-ID, deleted meanwhile or not, unless
two runs had the mail in hand at once). `FetchedAtLast`, that polling gets to
every mail at last, is what design-external-mail.md says of both kinds; it is
violated with JMAP, and a finding.

### CaldavSync

State: rows, event states, tombstones and the link of one calendar; the remote
collection with a revision per object that is its etag and whose highest is the
sync token; the requests; and for each caller of `syncCalendar` its position and
what it has in hand. A content is the number of the edit that made it. `List` is
`listChanges` (the report, or the full listing when the server refuses it, cut
to `Max`), `Fetch` the multiget, `Adopt` + `SaveState` are `upsertParsed`,
`Absent` and `Drop` the deletions of pull; `Load`, `PushClean`, `Put`,
`PutConflict` are push, `ListDeletions` to `Untomb` the tombstones, `Resolve`
with `AdoptEvent` "remote wins", `End` the save of the link. `Fail` ends a sync
at any await. `BeginEdit` and `Write` are an update: `updatedAt` is taken well
before the write.

Time is counted in edits, since what the code compares is which came first.
History variables: `late` holds events with an edit stamped before a sync began
and written after (their `updatedAt` looks older than the state), and everything
once two syncs overlap; `torn` those deleted while a sync or an edit was under
way, or whose row was written and then the sync failed before its state.

A third one, `cut`, holds what completed syncs left out of a change set over the
cap, until a later sync saves or drops it (a sync keeps in `rest` what it cut).

`CleanIsSynced`: an event that is not late, is clean by `isDirty` and whose etag
is the remote's has the remote's content: nothing a sync interleaves with makes
an unpushed edit look pushed. `Converges`: when the edits have ended, both sides
have the same content of every event that is not late, torn or cut.

### ApiKeys

State: whether the instance has a user (`claimed`), the `revoked_at` column of
each key, the scopes, usage records still under way, and the requests. A request
comes with an administrator's session or with a key whose secret was handed out
(`Arrive`), which `FindKey` and `ListScopes` resolve; it then acts on the scopes
it read. `SaveKey`, `SaveScope` and `AddScope` are `createApiKey` and
`addApiKeyScope` (a grant must be within what the caller holds, `Grantable` and
`ScopeIsWithin`, with addresses and patterns spelled out as in
`AddressPatterns`: a candidate pattern that `parseEmailAddress` accepts, such as
`support-*@x`, passes for an address), `FindScope`, `DeleteScope`,
`FindToRevoke` and `SaveRevoked` the removals, `Bootstrap` the first user and
root key. Resolving a key leaves a write of the whole row behind, which lands at
any later time (`UsageLands`) or never.

`NoEscalation`: whatever chain of keys issuing keys, with scopes removed and keys
revoked in between, no stored scope authorizes anything no administrator or
bootstrap granted. `RevocationStands`: an answered revocation keeps its
timestamp, except for the keys of which an older copy was held at that moment
(`clashed`): the write-back of such a copy makes the key work again. `IInv`
contains `OneBootstrap`: at most one bootstrap creates the first user.

### SignIn

State: the clock, users (role, active), links, sessions, requests. A link and a
session are known by the request that drew their token. `AskLink`, `Count`,
`SaveLink` and `Mail` ask for a link; `Follow`, `Consume`, `Enter`,
`SaveSession` follow it; `Present`, `Resolve` and `Logout` use and end a
session; `FindEmail` and `Insert` create a user, `FindUser`, `CountAdmins` and
`SaveUser` change one; `SweepSessions` and `SweepLinks` are the two sweeps, with
a `now` that may be old.

`OneSessionPerLink`: but for links two requests had read before either saved
(`raced`). `LinksBounded`: a user never has more than `MaxLinks` links alive,
although the throttle counts before it saves and sweeps delete what it counts;
but for two requests that both counted first (`crowded`). `AnAdminRemains`: as
long as administrative changes do not overlap (`shaken`). `NobodyBarredEnters`:
no step lets a user past a check whose last answered change deactivated them,
unless two changes of that user overlapped (`tangled`).

### Mailbox

Both ends: the browser's list, cursor, loading flag and selection, and the rows.
A message is its place in the order that listings descend. A gesture (`SetView`,
`SetUnreadOnly`, `ReloadMessages`, `LoadMore`, `Mutate`, `SetArchived`, the
selection) patches the list and sends a request. The service's side is `Load`
and `Apply` for marks and tags, `ReadTags`, `AddTrashTags` and `Purge` for
`deleteMessages`, `List` for a page; `Refuse` and `Fail` are errors before and
after the change. The answer is handled when it comes: `HandleRefused` and
`ArchiveRefused` roll back, `HandleDone` asks for a fresh first page,
`HandlePage` replaces or appends. `Arrive` and `OtherClient` change rows
meanwhile.

`PagesWhole`: the list descends without a repetition, and a message that stayed
in the view since the first page was read is on the screen, whatever arrived or
left between the pages. `HonestWhenQuiet`: when nothing is under way and no row
has changed since the list was read, it shows exactly its view with the
service's marks. Both except a list into which a late answer or rollback was put
(`tangled`). `DestroysOnlyTrash`: what a delete destroys was in Trash when asked
for, or another delete under way put it there. `MailboxInv` is the inductive
invariant, made of `StageInv` and `OverlapInv` (a delete and its stages),
`PageInv` and `LaterPage` (a page on its way), `ScreenInv` and `HonestInv` (the
list).

### Permissions

State: the user's role, the rules of the three tables, calls of administrators
(find, then save or delete), and the request of the user: `Begin` reads the role,
`Load` one table each in any order, `Finish` makes the viewer. Each right is
modelled twice, from two places of the code: row by row (`UserMayMail`,
`KeyMayMail`, `MayCalendar`, from `policies/`) and as a listing (`UserListsMail`,
`KeyListsMail`, `ListsCalendar`, from the SQL conditions). A key is followed on
its own, since its scopes never change while a request runs.

`ListsKeepToRights`: for every reachable set of rules and every set of scopes, a
listing shows a user no mail, book or calendar it may not open one by one, and
hides from a key no mail or book it may open. The converses are no properties:
the code's listings are narrower for users and wider for keys, against what its
comments say (below, under "Seen"). `ViewerTimely`: a
request is given every right held all the while it was set up and none never
held, unless the role changed in between (`torn`). `AnswersTrue`: an unraced call
answers with the row that is stored. `IInv` has the uniqueness of rules: that two
overlapping calls leave one row per target rests on the unique index alone.

### Recurrence and CalendarEvents

`Recurrence` is `recurrence-expansion.ts` and the listing half of
`calendar-events.ts` as operators: wall clock to UTC with its two corrections
(`WallClockToUtc`), matching a day (`Matches`), the jump to the range
(`FastForward`), the walk with its limits and early ends (`Walked`), the cut, the
candidates the query returns, and the substitution of overrides (`Views`). Time
is counted in slots, several to a day; the calendar (which day is in which month)
and the zones are constants, a zone with an offset and any number of summers in
which its clocks are a slot ahead.

`CalendarEvents` has a master row and override rows, and requests that
edit (`EditSeries`, `EditSeriesOfOverride`, `EditOccurrence`, `EditOverride`) and
delete (`DeleteSeries`, ...) with the scopes the API offers, await by await
(`ReadMaster` to `Exclude`), any of them evicted. A request about one occurrence
names any instant (`Nameable`), as nothing asks whether the series has one there.

`ListsTheSeries`: every expanded range query answers what the series promises,
which is said without a walk (`Promised`): the days its rule selects, at the
instants that read as its time of day (the earlier of two; a skipped one moved
forward, as the comment of `wallClockToUtc` has it), minus exclusions, plus
overrides, each once. It is about a series that begins on a day of the calendar
and rows that are `Dependable`: of which `wallClockToUtc` keeps its word on
every day, and which do not start at the later of two equal readings. In zones
behind UTC it always keeps its word; elsewhere not about repeated and skipped
times (below, under "Seen"). `EditsStand`: in no range is a
deleted occurrence shown, and in the place of an edited one nothing but its
override, once if that is in the range, through all later requests about the rest
of the series. `CalendarInv` is the inductive invariant: types, `RowsInv` (one
override of an occurrence, on an existing series; what was deleted is excluded,
what was edited is there), `IdsInv` (ids of overrides lead to one occurrence) and
`CallInv` (what a request under way has in hand).

## The runs

`cd` to this directory; `tlc -config <cfg> <module>`. Deadlock is not checked
anywhere: requests are one-shot and bounds stop the rest, so the systems do stop.

| Run | Module, cfg | States | Asks |
|---|---|---|---|
| `file_links` | `MCFileLinks`, `FileLinks.cfg` | 318,864 | `IInv`, `GrantsWithinLimit`, `DeadStaysDead`, `ImplementsPromise` |
| `outbound` | `Outbound`, `Outbound.cfg` | 39,709 | `PipelineInv`, `MailedAtMostOnce`, `StatusTellsTruth`, `MailedAsStored`, `KeepsPromise`, `EveryDispatchSettles` |
| `attachments` | `MCAttachments`, `Attachments.cfg` | 41,665 | `IInv`, `FilesReadable`, `StagedReclaimed` |
| `ingest` | `MCIngest`, `Ingest.cfg` | 458,452 | `IInv`, `NoMailLost`, `StoredOnce`, `FetchedOnce`, with POP3 |
| `caldav` | `CaldavSync`, `CaldavSync.cfg` | 486,712 | `IInv`, `CleanIsSynced`, `Converges` |
| `api_keys` | `MCApiKeys`, `ApiKeys.cfg` | 283,425 | `IInv`, `NoEscalation`, `RevocationStands` |
| `sign_in` | `MCSignIn`, `SignIn.cfg` | 738,342 | `IInv`, `OneSessionPerLink`, `LinksBounded`, `AnAdminRemains`, `NobodyBarredEnters` |
| `mailbox` | `Mailbox`, `Mailbox.cfg` | 562,982 | `MailboxInv`, `PagesWhole`, `HonestWhenQuiet`, `DestroysOnlyTrash` |
| `permissions` | `MCPermissions`, `Permissions.cfg` | 539,727 | `IInv`, `ListsKeepToRights`, `ViewerTimely`, `AnswersTrue` |
| `calendar_events` | `MCCalendarEvents`, `CalendarEvents.cfg` | 96,155 | `CalendarInv`, `ListsTheSeries`, `EditsStand` |
| `attachments_event` | `MCAttachments`, `AttachmentsEvent.cfg` | violated | `EventFilesReadable` |
| `jmap_progress` | `MCIngest`, `IngestJmap.cfg` | violated | `FetchedAtLast`, with JMAP |

The last two check what the code's own comments and documents say, and are
findings in `PROJECT.json`, with the quotations. An event's claim leaves
`message_id` null, so the sweep deletes the file a day after its upload. Over
JMAP a run looks at the oldest `max` mails of the inbox and only then drops those
it has had: with these in the ledger, no newer mail is ever fetched.

### Bounds, and why they are enough

- `file_links`: one link, two downloads, two revocations, limits 0, 1, 2 and
  none, a clock of three instants with a cap of two, TTL requests absent,
  negative and over the cap. Links share no state but the clock; a budget of one
  and two downloads is the smallest race; the second revocation lets one
  re-create a row the other has revoked.
- `outbound`: one message, three requests, two complete versions and an
  incomplete one. Messages share no state; two versions tell a mixed row from a
  whole one. Three requests are a dispatch, a retry and whatever is between (an
  edit, a deletion). Four requests were run too, without finding more.
- `attachments`: one file, two messages, one event, three requests, the sweep.
  Files interact only through the request that takes them; two owners and a
  third request are a take, a take by another and a deletion.
- `ingest`: two mails (one anonymous), one delivery, two runs, two ids, POP3 with
  the cap at two; ids bound the attempts. Two runs are needed for the races,
  a delivery for the two ways in. JMAP and three ids were run too.
- `jmap_progress`: JMAP, cap 1 and two mails, the smallest inbox larger than the
  cap; one run at a time.
- `caldav`: two events under a cap of one object per sync, so that change sets are
  cut; one caller of sync (again and again), one request at a time, two edits in
  all (local or remote), one failing sync. Objects interact only through the
  token and the cap, requests only through rows. Two requests at a time about
  one of the events were run too (1.6 million states), and with one event under
  no cap three edits, and two overlapping callers, the last not to the end.
- `api_keys`: three requests on an empty instance or one with a seed key; two
  domains, a global capability and a mail one, five addresses of one host (two of
  them with a `*` of their own) and four patterns, each wider than the next. A
  key that issues a key that is used while either is revoked needs three
  requests; two domains, and patterns nested three deep, tell every scope from a
  wider one.
- `sign_in`: two users, three requests, a clock to 3 with links living 2 and
  sessions 3, one link per user. Two users are needed for the last administrator,
  three requests for two that follow a link and one that deactivates.
- `mailbox`: three places, two stored, a page of one; the first fetch and two
  requests of the user, one change from elsewhere. Two requests are the smallest
  overlap beside a page under way. Two foreign changes, and all deeds at once,
  were run too (5.9 and 7.6 million states), without an error.
- `permissions`: two calls, one stored rule, five targets (both effects), two
  domains, two addresses, four mails; for a key, every subset of ten scopes. Two
  calls are the race between find and save; the targets have a narrow and a wide
  one per table where the code tells them apart.
- `calendar_events`: days of four slots, weeks of three days, years of two
  months (of 3 and 2 days, with one leap year), five years, three zones (at,
  behind and ahead of UTC), of which two have summers in two of the years; 517
  stored events (timed and all-day, every frequency with intervals 1 and 2, with
  and without a count or an end), each edited by one request, some by two or
  three; a client names two instants or dates (`Named`; occurrences of some series
  and not of others), or one that was deleted; ranges of 1 and 30 slots from four
  places; at most six occurrences. The walk's arithmetic is in periods, anchors,
  remainders and limits, all of which occur at these sizes: a range inside the
  first period, one far beyond it, a month too short for the anchor, series at the
  time of day the clocks skip and repeat, more occurrences than the maximum.

Bounds that are part of the modules: `MaxNow` (clock of `FileLinks`), `MaxTime`
(`SignIn`), `Ids` (ids left in `Ingest`), `MaxEdits` and `MaxFaults`
(`CaldavSync`), `MaxCalls` and `MaxForeign` (`Mailbox`), `left` (requests still
to come) and `Named` (what a client may name, in `CalendarEvents`); the requests
of `FileLinks`, `Outbound`, `Attachments`, `ApiKeys`, `SignIn` and `Permissions`
are one-shot, those of `CaldavSync` serve one change. None of them is assumed
small in the proofs; only `SignIn` and `Mailbox` take their sets to be finite,
as one counts and the other sorts.

### Fairness

- `Outbound`: weak fairness of `Resume(r)`: the runtime resumes a request whose
  call has answered. Eviction stays possible and is the exception
  `EveryDispatchSettles` makes.
- `Attachments`: weak fairness of `SweepList` (the first authenticated request of
  each isolate starts a sweep, and isolates keep coming) and strong fairness of
  its two later steps: not every sweep is evicted at the same place.
- `Ingest`, for the finding `jmap_progress`: weak fairness of a delivery (an
  SMTP sender tries again) and of polling (design-external-mail.md: "callers
  loop"), strong fairness of the first steps of an ingest: not every call fails
  for ever.
- `CaldavSync`: weak fairness of `Sync(s)`: somebody goes on syncing. Failures
  are bounded by `MaxFaults`, edits by `MaxEdits`: convergence is about what
  follows them.

The other modules have no liveness: nothing must happen to a link, a key or a
list, and a request may always be evicted.

## The proofs

`tlapm <module>Proofs.tla`. For each component an inductive invariant is proved
for all values of the constants, and the properties are derived from it; the
runs check the same invariant. It is `IInv` but for `Outbound` (`PipelineInv`),
`Mailbox` (`MailboxInv`) and `CalendarEvents` (`CalendarInv`).

| Module | Theorems |
|---|---|
| `FileLinksProofs` | `InductiveInvariant`, `GrantsBounded`, `DeadForGood` (an action property), `Refinement` |
| `OutboundProofs` | `OutboundInvariant`, `MailedOnce`, `TruthfulStatus`, `StoredIsMailed`, `OutboundRefinement` |
| `MessageProofs` | of `Attachments`: `AttachmentsInvariant`, `Readable`, `YoungUploadsKept` (an action property); of `Mailbox`: `MailboxInvariant`, `PagingIsWhole`, `QuietListIsHonest`, `OnlyTrashIsDestroyed` |
| `IngestProofs` | `IngestInvariant`, `NothingLost`, `OneRow`, `WholeRows`, `IngestedOnce` |
| `CalendarProofs` | of `CaldavSync`: `CaldavInvariant`, `CleanEventsAreSynced`; of `CalendarEvents`: `CalendarInvariant`, `SeriesListed`, `EditsAreKept` |
| `ApiKeysProofs` | `ApiKeysInvariant`, `NeverEscalates`, `RevocationIsFinal`, `BootstrapWinsOnce` |
| `SignInProofs` | `SignInInvariant`, `LinkOpensOnce`, `LinksAreBounded`, `AdminRemains`, `BarredStaysOut`, `BarredNeverEnters` (an action property) |
| `PermissionsProofs` | `Invariant`, `Timely`, `Answers` (an action property), `Listings` |

Assumptions are those the modules name: `None`, `Staged`, `Unlimited` differ
from real values; bounds are naturals; incomplete versions are versions; in
`Permissions` a pattern covers addresses, and the wildcard all of them; in
`ApiKeys` addresses and patterns are texts, an address with any number of `*`, a
pattern with one at most; the
sets `SignIn` counts are finite; the messages of `Mailbox` are finitely many
naturals, newer ones greater, and a page holds at least one. For `Recurrence`
and `CalendarEvents`: days are counted from 0 to a last one, months follow each
other without a gap; a zone is at most a day off UTC, and its clocks do not
change twice within a day; what a client names is an instant; a range begins
within the calendar; `Null` is no instant and no row. Nothing is assumed of the
lengths of days, weeks, months and years but that they are positive (a day has
more than one slot).

Why the properties are not inductive by themselves, and what is:

- **FileLinks.** The counter is right only because a row, and every snapshot a
  revocation holds, come from the same mint (`SameMint`), and because a revocation
  writes a row that is dead. With that, `CounterExact` and `GrantsWithinLimit`
  are kept by each step.
- **Outbound.** `Holds` says, for each await a request can be suspended at, how
  what it holds agrees with the tables; `RowTruth` how the row agrees with what
  was mailed. One request at most is in flight on a message left alone, so a
  step of another cannot break it. For what is mailed, `Carries` adds which
  version and recipients a request has in hand at each await, and that the raw
  source it stored is built of just these; `StoredTruth`, that the source of a
  sent row is built of the row and its recipients, which are of one edit unless an
  edit was cut in half or is between its two writes.
- **Attachments.** `Apart`: nobody takes an uncontested file another is deleting.
  `AsRead` and `SweptAsListed`: rows and blobs are as the request or sweep found
  them. `UploadOrder`: no row before the blob.
- **Mailbox.** A page on its way covers the part of its view between the cursor it
  was asked with and the one it brings (`PageInv`), and of two pages of a view the
  later knows what the other has (`LaterPage`); so appending a page below the list
  keeps the list whole, and so does removing what left the view. `HonestInv`:
  while no row has changed, the list is honest, or a mutation under way will
  change a row or put the honest list back. `StageInv` follows what a delete may
  destroy (`due`) through its statements; `OverlapInv` is why two deletes that
  overlap are excepted. Below this are facts about lists: a finite set of numbers
  has a descending enumeration (`Enumerable`), and what a page, an appended list,
  a patched list and a list with rows removed contain (`PageFacts`, `AppendFacts`,
  `MarkedFacts`, `RemainingFacts`).
- **Ingest.** `IdsHeld`: an id is its caller's alone and unused; `BlobsHeld`,
  `MailHeld`: what it stored is there; `FetchedKnown`, `InOneHand` and
  `FirstToFetch`: a run that is still receiving an uncontended mail is the first.
- **CaldavSync.** What a sync compares is old by the time it writes. `Stamped`:
  an edit still to be written is stamped later than every state saved;
  `FetchedSound`, `LoadedSound` and `HandSound`: what was fetched, loaded or is in
  hand is not older than the state, and if its revision is still the remote's so
  is its content. `Kept` shows that no step of others breaks this, `OwnStep`
  that one's own does not; overlapping syncs make everything late (`OneAtATime`).
- **CalendarEvents.** A deletion is kept although the exclusion is written into
  the master as it was read long ago, because every copy of the master in a hand
  excludes all that acknowledged deletions removed, and an edit is kept because
  no request under way is about its occurrence (`CallInv`); either is remembered
  only of a request that nothing overlapped, which then is the only one that holds
  anything. `IdsInv` is why an upsert or a deletion by id touches no other
  occurrence. `StepKeeps` and `ArriveKeeps` say this once for all steps.
- **Recurrence** has no states; `ListsTheSeries` is a fact about its operators
  for any rows that `CalendarInv` allows (`ListingFacts`). Its parts: the two
  corrections give the promised instant where they keep their word (`Clock`,
  which rests on `SummerFacts`: a day before a change the clocks showed the time
  of before it), occurrences of later days start later (`StartMonotone`), a day
  is an interval's multiple of periods from the seed in one counting if it is in
  the other (`PeriodFacts`, `WeekFacts`), the jump passes no selected day that
  reaches into the range (`JumpFacts`, `FirstDayFacts`), the loop has steps for
  every day up to the range's end (`ReachFacts`) and stops early only past all
  that is due (`WalkedFacts`); every series with something due is a candidate
  (`CandidateFacts`); and views are as many as what they tell, since an
  occurrence has one override.
- **ApiKeys.** `Backed`: everything stored, held by a request or still to be saved
  is covered by a scope an administrator granted. It is kept because being within
  a scope is transitive in what it authorizes. `KeyInv`: once a key nobody had in
  hand is revoked, every copy of its row, in a request or a usage record, is
  revoked as well. `ClaimInv`: a second bootstrap finds the first one's user.
- **SignIn.** What a request read is old when it saves. `LoginInv`: a count is
  still an upper bound unless somebody saved since; `VerifyInv` and `LinkInv`: an
  unconsumed link in hand has opened nothing, unless another held it too;
  `ChangeInv`: the count of administrators and the row in hand are still true as
  long as changes do not overlap. That sweeps only remove makes the bounds keep.
- **Permissions.** `TableWhole` (one rule per target), `IdsKeepTargets` and
  `IdsAreFresh`: an id leads to the rule it was found for or to none;
  `UnracedIdStored`; `ReadWhole` and `RequestOnTime`: the tables read so far give
  what they may, and the ones still to be read will, too. `Listings` needs no
  invariant but types: it is the equivalence of two readings of one set of rules.

The step lemmas follow the disjuncts of `Next`; type correctness of each step is
apart (`Type...` lemmas in the larger modules).

**Model-checked only**: all liveness (`EveryDispatchSettles`, `StagedReclaimed`,
`Converges`, and the violated `FetchedAtLast`), which is out of the prover's
reach; every invariant the runs check is proved. No module uses recursion.

## Seen in the models, without a run of their own

Behaviours of the code met while modelling, which contradict a comment or would
surprise; the models contain them, except where noted. The properties except them
by the history variables named above.

- Outbound: two overlapping retries of one failed message (or two sends of one
  draft) both read it before either saves it, and both mail it (`send.ts:488`;
  `send.ts:474-475` says "Guarded to that state so a `SENT` message can never be
  delivered twice by a retry"). An eviction between the row's insert and the
  provider call leaves `QUEUED`, which `retrySend` refuses and nothing else
  picks up. The `rfcMessageId` `sendDraft` sets is never stored
  (`drafts.ts:245-250` against the upsert at `message-repository.ts:215`). A
  provider that assembles the MIME gets no attachments from `sendDraft` and
  `retrySend` (`drafts.ts:253`; files are not modelled there). `saveDraft`
  overlapping `sendDraft` writes a sent row back as a draft. A fan-out over Bcc
  recipients that fails half-way, or an answer that is lost, leaves the message
  `FAILED` although it was mailed to some, and a retry mails it to them again. An
  eviction between a draft's row and its recipients leaves the new body with the
  old recipients, and `sendDraft` mails that. A save that lands
  after a permanent deletion re-inserts the row without recipients.
- Attachments: a second send of an uploaded file takes it away from the first
  message, which `design-mail-pipeline.md:126-129` does not expect. Between the
  sweep's listing and its deletions an upload bound meanwhile is lost. A blob
  deletion that fails is swallowed and the row then deleted: the blob stays.
- Ingest: a POP3 run drops what the ledger has before it looks at the first
  `max` mails, so that of JMAP does not happen; but mails it always rejects
  never get into the ledger and keep their places among these, and when they
  fill the cap nothing behind them is ever fetched (`external-fetch.ts:245-246`,
  against `design-external-mail.md:152-153`, `:194-196`). Overlapping runs
  ingest a mail without Message-ID twice (`0011_external_mail.sql:37-38`
  promises more). A throw ends the whole run, not the mail
  (`external-fetch.ts:149-150` says otherwise). The account saved at the end is
  the one read at the start: a disable meanwhile is undone
  (`external-fetch.ts:264-266`). A second envelope recipient's delivery is
  answered `DUPLICATE` and the mail is invisible to that recipient
  (`ingest.ts:394-400`). Each attempt draws a new id and leaves the blobs of the
  last one behind (`ingest.ts:376`).
- CaldavSync: the token saved (`caldav-sync.ts:466-470`) is older than the
  sync's own PUTs, so the next sync pulls those objects again, over local edits
  made since (`caldav-sync.ts:25-27` promises that only a change on both sides
  lets the remote win). A change set longer than the cap is cut, and the token
  saved is past what the cap left out: running sync again does not continue
  there, and the object stays unknown until it changes once more
  (`caldav-sync.ts:200`, `:469` against `:36-38`; `carddav-sync.ts:179`
  likewise). `Converges` excepts these objects (`cut`). The fallback listing
  pulls every object and so overwrites every dirty event. A deletion during a
  sync may leave no tombstone, or the PUT under way creates the object again. A
  failure between a row and its state, and the object's removal elsewhere, leave
  a local event nobody pushes or removes. An edit stamped before a sync and
  written after it looks clean for good. Overlapping syncs may diverge for good.
  A row without state whose PUT meets a conflict, with the object gone before it
  is resolved, stays clean for good. Not modelled: a server that sends no ETag
  in its answer to PUT makes the next edit a conflict.
- ApiKeys: a usage record that lands after a revocation writes the key back as
  not revoked (`auth.ts:62-66`, `api-key.ts:194`). An eviction after the
  bootstrap created the first user and before its root key is saved shuts the
  bootstrap for good (`email-auth.ts:222`); there is then a user who can sign
  in, but no key. A candidate pattern that is itself a valid address
  (`support-*@x`) is taken for one and granted to the holder of any pattern that
  matches it as such (`api-keys.ts:136-138`, `email-address.ts:17`); it covers
  nothing the holder's pattern does not (`MatchTransitive`).
- SignIn: two requests that follow one link at once both open a session
  (`email-auth.ts:134`; `email-auth-challenge.ts:5` calls the link "A
  single-use" one). Two requests for a link that both count first pass the
  throttle. Two administrators who demote each other at once leave none. A
  change of role that overlaps a deactivation undoes it (`users.ts:162`).
  Deactivation deletes no sessions: they work again after reactivation.
- Mailbox: a second click, or a retry after a lost answer, finds the message in
  Trash and destroys it (`messages.ts:377-380`; `design-domain-model.md:380-383`
  says "One misclick can no longer destroy mail"). A late rollback puts a whole
  old list back, over pages and patches that came since (`app-store.ts:163`,
  though `:148-150` says it "keeps the list honest"). The page of a folder just
  left replaces the list of the new one, and a failed fetch leaves the old list
  under the new title. Spam in Trash is in no folder: Trash leaves spam out,
  although `filter-params.ts:31-32` says a system-tag view opts in. Marking a
  selection, or switching to unread only, keeps the selection, so the next
  action also hits messages no longer shown (`mailbox-page.tsx:367`). A finished
  delete clears a selection made meanwhile.
- Permissions: listings and single decisions drift apart. A mail with several
  addresses of which one is denied can be opened but is not listed
  (`message-repository-queries.ts:158`; `authorization.ts:169-171` says "A DENY
  on one address never hides a message that is independently authorized through
  another address", and `authorization.test.ts:262` tests that). A member with a
  rule for somebody's calendar can open it by id, but lists show only owned ones
  (`calendar-access.ts:136-146`). A key's mail listing treats the patterns and
  the domains of its scopes as two conditions, and so lists more than can be
  opened, "the cross-product bug" `authorization.ts:70-73` warns of; its
  address-book listing looks at patterns only (`contact-access.ts:120-124`).
  `ListsKeepToRights` says only what holds. The later of two adds that both
  found nothing answers an id that is not stored. A role changed between the
  statements lets an old role meet new rules.
- Recurrence: in zones at or ahead of UTC a repeated time is taken at the later
  of its two instants and a skipped one is moved back, as the first guess of
  `wallClockToUtc` lies after the change (`recurrence-expansion.ts:126-133` and
  `:148`, `design-calendar.md:103-104` say earlier and forward). A row stored at
  the one of two equal readings that the conversion does not take is shown at
  the other.
  `ListsTheSeries` is not about these (`Dependable`).
- CalendarEvents: moving a whole series leaves exclusions and overrides at their
  old instants, so that deleted occurrences come back and edited ones appear
  beside the original. Dropping the rule shows both the base event and the
  override of its first occurrence, and deleting "this occurrence" then removes
  the row with all overrides. An edit or a deletion may name an instant at which
  the series has no occurrence: the override is then listed beside the series,
  and the exclusion has no effect. Editing one all-day occurrence without giving a
  time puts it at the first date of the series. Unexpanded, a series shows its
  first occurrence in the range (an edited one twice), though
  `calendar-events.ts:86-87` says "returned once at their own start";
  `ListsTheSeries` is about expanded ones. Two
  deletions that overlap lose one exclusion.

## Not modelled

Within the modelled components: authorization and validation of addresses
outside Permissions and ApiKeys (a request's viewer is allowed), parsing,
threading, spam scoring and rules (data), wording and logging; in `CaldavSync`
the several calendar components under one UID (an event is a whole object),
discovery and linking of collections; sockets and sessions of POP3 and JMAP (one
listing is one step); in `ApiKeys` the check that a scope's domain exists; in
`Permissions` the pattern grammar (a relation here, spelled out for `ApiKeys`),
mentions, a key's decisions about calendars and templates, and what deleting a
domain takes along; in `Mailbox` search, threads, counters of the sidebar, that
the spam mark of a listed row is loaded after the rows
(`resolvers/types.ts:85-91`; `List` reads both in one step), and a server that
goes on with a request the browser gave up; in `CalendarEvents` several masters
and the order of a list, the check of ranges, the limit of walk steps for rules
that never match, content, and switching between timed and all-day; a listing is
read in one step; in `Recurrence` clocks change by one slot, and the standard
offset of a zone never changes. A lookup by key is part of the step it decides
in `CaldavSync`; in the other modules it is a step wherever another request can
come between it and the write.

Components:

- CardDAV sync is CaldavSync's algorithm over vCards, without series; its own
  additions are cards that cannot be parsed.
- CalDAV and CardDAV accounts, calendars and event details, contacts and address
  books, templates, domains and addresses, external account administration:
  each write is one statement or batch, after reads that are not decided upon.
- Per-consumer fetch state: one read and one upsert; of two acknowledgements at
  once the later `fetchedAt` stands, and nothing depends on it.
- Classification rules and message events: data appended in the batch of their
  message.
- Codecs (iCalendar, vCard, MIME, RRULE text): text formats.
- Storage adapters, migrations, GraphQL and HTTP layer, command line client: a
  statement, a blob call or a mapping of fields, taken as single steps.
- The other pages and stores of the web client. `calendar-store.ts` and the
  contacts store keep lists by patch and refetch as the mailbox store does.

## Plan

Next, in order of what they would add: the series and overrides of
`CalendarEvents` inside `CaldavSync` objects; `CarddavSync` as an instance with
cards that cannot be parsed; the calendar store of the web client, on the
pattern of `Mailbox`.
