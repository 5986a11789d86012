# Reasoning Ledger: TLA+ models, checks and proofs

The Reasoning Ledger is an append-only audit ledger for AI agents. Agents, through the
TypeScript or the Python SDK, submit records (thoughts, tool calls, outputs) to an API
server, which validates them, gives each a timestamp and a sequence number and keeps them
in Postgres for good. Content that is too large or too private to sit in a record is
uploaded to a content library under its SHA-256 and referred to by it. Operators delete
content, export records to write-once storage and administer owners and invites; owners
look at traces in a web viewer and may grant others a limited view.

This directory holds models of that system in TLA+, the TLC configurations that check
them, and proofs that TLAPS checks. All paths below are relative to the repository.

## 1. Inventory

One Node process serves HTTP (Astro pages and oRPC routes). Many requests are in flight at
once; each is an async handler that yields at every `await`, and every database statement
is an `await`. The database is Postgres at READ COMMITTED through Prisma; only a few
handlers open a transaction. Apart from the registrations it counts for the rate limit, the
process shares nothing between handlers: there is no lock, no queue and no cache of rows.

| Component | Code | State | Operations | What makes it hard | What makes it correct |
|---|---|---|---|---|---|
| Record submission | `api-server/src/routes/records.ts`, `lib/content-refs.ts`, `lib/record-rules.ts`, `lib/schema-version.ts` | `trace_records`: primary key `record_id`, unique `sequence` | `submitRecord`, `submitBatch` | read-then-insert with no transaction; sequence drawn before it is visible; partial batches | one row per id; what is acknowledged is stored; the trace is acyclic; owners isolated; references resolve |
| SDK transport | `typescript-sdk/src/http.ts`, `client.ts`; `python-sdk/.../http.py`, `client.py` | attempts of a call | `sendRequest` over `withRetry` | a lost request and a lost response look the same; a retry overlaps what it retries | every call ends; retries are idempotent |
| Content library | `pages/v1/content/[sha256].ts`, `lib/content-store.ts`, `scripts/delete-content.mts` | `content_objects`, `content_deletions`, one file per owner and hash | PUT, GET, HEAD, delete command | row and file are two stores with no common transaction; deletion races upload | a live row has its bytes; bytes match their hash; deleted stays deleted until uploaded again |
| Content keys | `lib/content-keys.ts`, `routes/content-keys.ts` | `content_keys` | register, replace, list | read-then-write; paging while keys are added; late retries | a rotation reaches every key; a page gets the keys of what it shows |
| Content encryption | `python-sdk/.../encryption.py` | data keys of a session, keys registered so far | seal, open, register | a call fails half-way and leaves keys behind | no record is refused for a key or content its client was to upload |
| Record export | `api-server/scripts/export-records.mts` | files in a directory | export, verify | cursor by sequence against late commits; overlapping and killed runs | no row left behind; completed files verify |
| Reads and paging | `lib/repository.ts`, `routes/traces.ts`, `routes/sessions.ts` | none | list, get | cursor by sequence against late commits | a reader that pages misses no row that was there |
| Access gate | `lib/access.ts`, `routes/access.ts`, `pages/access/token.ts` | `access_grants`, owner handles, signing key | grant, revoke, set handle, exchange | two grants at once; revocation against exchange | a new grant replaces those that were there; a token stays within its grant and ends soon after it |
| Registration | `lib/invites.ts`, `lib/registration.ts`, `routes/owners.ts`, `routes/agents.ts` | `owners`, `agents`, `invites`; recent registrations in the process | register owner or agent, rotate key, create or revoke invite | an invite's last use presented twice; two first registrations of one name | an invite is never overspent; one agent per owner and name |
| Viewer sessions | `lib/viz-session.ts`, `lib/viewer-tickets.ts`, `lib/view-grants.ts`, `middleware.ts` | `viz_sessions`, `viewer_tickets`, `view_grants` | issue and open a ticket, sign in, grant, revoke, expire | a ticket opened twice; revocation between check and session | a ticket opens one session; a session ends with its grant |
| Trace view | `lib/trace.ts`, `lib/conversations.ts`, `lib/content-view.ts` | none | derive conversations and edges | two queries at different moments; circular links | every conversation is listed once |
| Administrator, generated code, deployment | `lib/admin.ts`, `scripts/codegen.mts`, `scripts/db-deploy.mts` | none | — | — | — |

Interaction: a submission reads `agents` (Registration), `content_objects` (Content
library), `content_keys` (Content keys) and `trace_records`, and writes the last one only.
The export, the readers and the viewer read what it wrote. Viewer sessions and the access
gate read owners and their keys. SDK calls upload content, then keys, then submit.

Every hazard we found is in `PROJECT.json` under `hazards`, each at its line, with the
properties that cover it.

## 2. Plan

All of it is done, in this order of importance.

1. `RecordLedger`, `IdempotentLog`, `RecordLedgerProofs`: submission with its client, and the
   abstract log it implements.
2. `ExportRecords`, `ExportRecordsProofs`: the export command, composed with RecordLedger.
3. `ContentLibrary`, `ContentRows`, `ContentLibraryProofs`: row, file and the ways to lose one
   of them; and what of it a submission sees.
4. `ViewerSessions`, `ViewerSessionsProofs`: tickets, sessions, view grants and their expiry.
5. `Accounts`: invites, owners, agents, key rotation.
6. `AccessGate`, `AccessGateProofs`: grants, handles, token exchange, composed with Accounts;
   the proofs about both.
7. `ClientUploads`, `ClientUploadsProofs`: data keys, uploads and the merge of a batch in the SDKs, against the key
   table, a rotation of the master key and the page of a session.
8. `RecordReads`, `Conversations`, `RecordReadsProofs`: paging over late commits, and the trace list as pure
   operators on what its two queries returned.
9. `Sorting`, `SortingProofs`: a finite set in an order, as the last two use it for ORDER BY
   and for lists built in the order of the records.

Runs are few and each asks several questions of one instance, so that a module costs one or
two. What could come next: that a call of ClientUploads is a request of RecordLedger, as
ContentLibrary and RecordLedger now meet in ContentRows.

## 3. Record submission: `RecordLedger`

A **call** is one `submit` or `submitBatch` of an SDK; it carries one request, the same
bytes at every attempt. A **handler** is `<<call, attempt>>`: one HTTP request at the
server. Between the statements of a handler anything else may happen, so each statement is
an action.

| Action | Code | What it does |
|---|---|---|
| `Send`, `Receive`, `NetworkError` | `http.ts:38-60,87-207` | one attempt; a 5xx of a single submission or a network failure backs off or gives up; anything else ends the call |
| `Arrive` | `schema-version.ts:15-60`, `records.ts:223-226,262-270` | guards over the whole body |
| `CheckAgent`, `CheckRefs`, `CheckContent`, `CheckKeys` | `records.ts:89-124,187-202`, `content-refs.ts:94-144` | one look-up each; look-ups with nothing to look up are skipped, as the early returns do |
| `Dedup` | `records.ts:138-149` | the row of `(agent_id, record_id)` if there is one is acknowledged as a duplicate |
| `Insert`, `Acquire`, `Commit`, `Conflict` | `records.ts:151-178` | the INSERT in the three moments that others can observe: it draws its sequence number, it gets hold of the primary key or meets a committed row, it becomes visible |
| `CommitUnheard`, `StatementFails`, `Crash` | `records.ts:291-309` | the connection breaks after a commit; a statement fails; the process dies, while INSERTs already sent run on |
| `PutContent`, `DeleteContent`, `RegisterKey`, `Tick` | `[sha256].ts:82-88`, `delete-content.mts:53-71`, `content-keys.ts:91-119` | what the rest of the system does to what a submission reads |

`Answer` ends the work on one record: it appends the result and goes on with the next record
of the batch, or responds. A submission reads the clock (`stamp`) right before the
deduplication read, long before its sequence number is drawn. The rows of the model hold
the record as it was submitted, so "was not changed" can be said of it. Data are abstracted
to what the properties tell apart: a record is its id, agent, session, upstream ids and
content references, and `sound` (or `writable` for a whole body) says whether the size,
field and version checks pass.

**Properties.** `OneRowPerRecord`, `OneOriginalAck`, `AcksAreStored`, `UpstreamPrecedes`,
`ReferencesWereUploaded`, `RowsAreTheOwners`, `BatchSeesItself`; `ImplementsLog`, that all
of this is a run of the eleven-line `IdempotentLog`; `EveryCallEnds` and `NoInsertStarves`.

**Fairness** (`Fairness`, checked as part of `FairExportSpec` below). Weak fairness on a handler's own statements: the event loop and
the database finish what was sent to them, and an INSERT that waits for a key gets it or
the unique violation once its holder has ended. Weak fairness on `Send` from backoff: the
backoff is a timer. Weak fairness on "the response arrives or the connection breaks": both
SDKs' HTTP clients time out (undici's and httpx's defaults) even where the SDK sets no
timeout. No fairness on `Arrive`, on first sends or on the environment: requests may be
lost, and nobody has to call.

**Divergence found** (`ledger_duplicate_race`, `DuplicateGetsOriginalAck`). A retry that
overlaps its first attempt passes the deduplication read, loses the INSERT and is answered
with a server error for a record that is stored, though `records.ts:217` promises the
original ack. The same promise is broken, without any race, when the content a stored
record refers to was deleted before the retry: validation comes before deduplication, so
the retry is refused. The bound `Shas = {}` of the run keeps that second way out of it.

## 4. Record export: `ExportRecords`

Extends `RecordLedger`; a step is a step of the ledger or of a run of the command. A run
reads its cursor off the manifests (`Start`), reads a page (`Query`), creates the `.jsonl`
(`WriteJsonl`), then the manifest (`WriteManifest`), and starts over with the next page.
Both files are created with flag `wx`, so a name that is taken ends the run. `ExportDies`
kills it anywhere, leaving the file it was writing unfinished if it likes.
`Cardinality`-many lines and the set of rows stand for the text and its digest.

`SlowestInsert` is the longest time from reading the clock to the commit. No code bounds
it, so it is a constant of the model: `Punctual` restricts the clock accordingly, and the
result says what `--settle-seconds` must exceed. With `SlowestInsert < Settle`, a row is
left behind only by an *inversion* (`OnlyInversionsAreLeftBehind`); inversions are real,
and `export_inverted` shows one: two concurrent submissions draw timestamps and sequence
numbers in opposite order and the cut-off falls between the timestamps. The comment at
`export-records.mts:14-15` says it cannot happen.

A run killed between its two files blocks all later ones, which read the cursor off the
manifests only and meet the `.jsonl` that is already there; with `MaxDeaths = 1` in
`ExportLiveness.cfg`, `ExportCatchesUp` fails that way, against `export-records.mts:9-10`.
`ExportCatchesUp` holds when no run is killed (`liveness`). Its fairness, `FairExportSpec`,
adds to that of section 3: the deployer schedules the command again and again
(`export-records.mts:2-4`), a run's statements end, the clock runs.

`verifyBatches` changes no state. What it looks for in the files is `CompletedPairsVerify`;
a row left behind inside a batch's range makes it report a count that differs from the
database's, which is `ExportIsGapless` again.

## 5. Content library: `ContentLibrary`

A piece of content is a row of `content_objects`, a line of `content_deletions` once it was
deleted, and a file. A PUT looks at the row, streams the body into a temporary file, renames
it into place and writes the row; a GET or HEAD reads the row, verifies the file and, for a
GET, opens it again; a run of the command marks the row and logs the deletion in one
transaction, then removes the file.

| Action | Code | What it does |
|---|---|---|
| `PutArrives`, `Look`, `Stream`, `Publish`, `Upsert` | `[sha256].ts:56-89`, `content-store.ts:53-88` | a live row answers at once; otherwise a body that hashes to its name is published before its row is written |
| `GetArrives`, `Find`, `ReadRow`, `Verify`, `Open` | `[sha256].ts:96-150`, `content-store.ts:90-108` | an administrator first finds some owner's copy; the file is hashed, then opened a second time |
| `DeleteStarts`, `Mark`, `Remove` | `delete-content.mts:50-78` | content that is not live ends the run |
| `Crash`, `DeleteDies` | — | the server dies with everything it is serving, though an upsert already sent may still run; a run of the command is killed |
| `Fails` | `[sha256].ts:69-88,130-150`, `delete-content.mts:51-78` | a statement or a file operation throws while the process lives on: a request is answered 500, a run of the command ends, and what was done stays done |

A file is the digest of its bytes; `Junk` stands for every digest that names no content of
the instance. Media types, sizes, the temporary files (each PUT has its own and removes it)
and `fsync` are left out; so is the disk, which is taken to keep what it was given.

`UndeletedContentIsServed` says what holds whatever happens to other content: content that
was never deleted has its bytes when its row is live, and nobody who asks for it is told
that it is gone or broken, unless the read itself fails. `FilesAreAccountedFor` says that bytes
without a live row are on their way in or out, or were left by an upload or a command that broke
off at its very last step: an upsert after the rename or an `rm` after the mark that failed, or
was never made because the process died. Nothing else leaves any. `DeletedBytesGo` says that a
deletion reaches the bytes unless the content is uploaded again or they were left in that way.
What is left stays: a request that failed is not tried again by the server, and
`delete-content` refuses content that is marked already, or has no row.

`ContentRows` is where this module and `RecordLedger` meet: rows that are uploaded, deleted
and uploaded again, each in one step, and never removed. `RecordLedger` takes the two actions
from it, with `library` for the rows, for its own `PutContent` and `DeleteContent`, and
`ContentLibrary` implements it with `row` (`ImplementsContentRows`): an upsert of a row that
is live already, a mark that finds nothing to mark and everything done to files are stutters.
So what is proved about submission, next to any behaviour of those rows, holds next to the real
library, with its races, failures and deaths. The implementation is a theorem (`RowsOnly`), and
no property of a run.

**Divergence found** (`content_delete_race`, `LiveContentIsThere`). A PUT that arrives
between the command's commit and its removal of the file publishes the bytes, brings the
row back to life and loses the file to the command. From then on the row says the content
is stored, every later PUT is answered 200 without reading its body, and every GET fails.
`UndeletedContentIsServed` therefore has to except content that was ever deleted.

**Fairness.** What has started goes on unless its process died or a step of it failed:
statements and file operations end, one way or the other. A statement sent by a process that died may run or not. Nobody has to
upload, read or delete, and no crash has to come.

## 6. Viewer sessions: `ViewerSessions`

A browser reads traces under a session, a row of `viz_sessions` that its cookie names. An
owner's token opens one at `/login`, so does a one-time ticket that an application asked
for, and a view grant opens as many as its link is opened. No handler holds a transaction.
Sessions, tickets and grants have random ids and are named by the request that created them,
so a request is one handler with everything it creates. What each request is about is fixed
at the start (`Scenarios`) and free otherwise.

| Action | Code | What it does |
|---|---|---|
| `Arrive` | `pages/session.ts`, `logout.ts`, `middleware.ts:29-40`, `routes/viewer.ts`, `routes/view-grants.ts` | the request with its cookie, which the browser keeps back when another site sent it here |
| `Purge`, `Create`, `End`, `Deliver` | `viz-session.ts:45-60,100-104`, `pages/session*` | the old session is ended, expired ones cleared, the new one created; then the response sets or removes the cookie, whatever other responses did meanwhile |
| `FindSession`, `CheckGrant`, `Forget` | `viz-session.ts:63-98` | who reads: the row, then the grant it names, each judged by the clock of its moment |
| `PurgeTickets`, `CreateTicket`, `Consume` | `viewer-tickets.ts:72-132` | checking a ticket and marking it used are one UPDATE |
| `DropKeys`, `CreateGrant`, `FindGrant`, `Revoke`, `SignOut` | `view-grants.ts:67-208` | expiry is written down by whoever makes, opens or lists grants; revoking is an UPDATE and then a DELETE of the grant's sessions |

`clock` is the time as the code last read it: `startVizSession`, `issueTicket`,
`consumeTicket` and `grantForToken` read it once and use it after an `await`. A grant's
`status` stands for `ended_at` and `revoked_at`; the keys are there while it is `"open"`.
`late` records which grants were over when a request arrived. No code keeps it; the property
about them needs it. A request whose process died is one that takes no further step, which
any request may do: the specification has no fairness.

**Properties.** `ReadersAreAuthorised`: a page reads exactly what the token, ticket or link
behind its cookie was made for. `TicketsOpenOnce`: one request gets through with a ticket.
`NothingIsReadAfterExpiry` and `EndedGrantsOpenNothing`: who comes after a session expired, or
a grant expired or was revoked, reads nothing by it and opens nothing with it. The last one is
not obvious: a link that was checked before the revocation creates its session after
`SignOut` has deleted the sessions there were, and the row stays, with a live cookie, until it
is presented or cleared. It opens nothing because every page looks at the grant again.

**A divergence without a run.** `[ticket].ts:52` keeps the browser's session when its owner is
the ticket's, and a view grant's session has the granting owner. Such a browser uses the ticket
up and goes on with the grant's limited view, although the README of the server promises "an
ordinary viewer session, the same as signing in at `/login`" (`api-server/README.md:353`).

## 7. Accounts and the access gate: `Accounts`, `AccessGate`

`Accounts` has the tables `owners`, `agents` and `invites` and one request per registration,
invite, claim, rotation or agent. Ids and keys are random, so they are named by the request
that made them; a request can only come with a key its owner was told (`Issued`).

| Action | Code | What it does |
|---|---|---|
| `AdmitOperator`, `AdmitSelf`, `AssertUsable` | `registration.ts:31-83`, `admin.ts:51-57`, `invites.ts:93-101` | the mode, the rate limit (counted before the code is looked at) and a first look at the code |
| `Lookup`, `Begin`, `ConsumeInvite`, `CreateOwner` | `owners.ts:75-126`, `invites.ts:108-118` | idempotent on e-mail; else one transaction, in which `NOW()` is its beginning, the row of the code stays locked and a taken e-mail takes the use back |
| `CreateInvite`, `FindInvite`, `RevokeInvite` | `invites.ts:127-162` | revoking reads and then writes, waiting for the lock |
| `Auth`, `Holder`, `Claim`, `RotateKey` | `auth.ts:17-49`, `owners.ts:157-244` | the key is looked at once; what follows goes by the owner's id |
| `FindAgent`, `CreateAgent`, `OwnAgent`, `CheckName`, `Rename` | `agents.ts:75-117,235-265` | looked up, then written under the unique `(owner_id, name)` |
| `Restart` | `registration.ts:36-37` | the process forgets the attempts it counted and all requests in flight |

`AccessGate` extends it with the requests to the gate. `createGrant` is one transaction of two
statements: the UPDATE sees the grants committed when it begins (`FindReplaced`) and waits for
those another transaction has updated (`ClaimReplaced`), the INSERT commits (`InsertGrant`).
`exchangeToken` reads the key, the grant and the handle in three statements (`CheckKey`,
`FindLive`, `SignToken`) and dates the token by its arrival. A grant's `created` is any time
between the two statements. `stale`, `earlier`, `there`, `over`, `ended` and `keyEnded` are kept by no
code; the properties need them.

**Properties.** `InvitesAdmitTheirUses` and `CodesAdmitWhileUsable`: a code admits as many
owners as uses are spent on it, none after its revocation, though it is looked at several times.
`RegistrationsAgree`: who registers an e-mail that some owner has when the request comes, or a name
that an agent of the owner has when the key is looked up, is told of that row and never fails, and
two who succeed are told of one row, unless a claim or a renaming changed it.
`DeadKeysDoNothing`: who comes with a rotated key gets nothing done.
`NewGrantReplaces`, `TokensWithinGrants`, `TokensEndInTime`: a new grant ends every grant there
was when it was asked for; a token says no more than its grant and does not outlive the end of
grant or key by more than its lifetime. `GateInv` adds that a handle is held once (`HandlesAreHeldOnce`).

**Divergence found** (`access_two_grants`, `OneLiveGrant`). Of two grants made at once for one
owner and resource, neither UPDATE sees the row the other inserts, and both stay live, against
`schema.prisma:338-340`. `NewGrantReplaces` is what holds instead.

**A divergence without a run.** Of two *first* registrations of one e-mail, or of one owner's agent
name, that overlap, both look-ups find nothing, the last one to commit meets the unique index
(`owners.ts:104-120`, `agents.ts:105-117`; nothing catches `P2002`), and is answered 500. The
documentation makes no such exception: "return the existing one for idempotency on email"
(`owners.ts:41`), "the existing owner with that e-mail is resolved instead" (`owners.ts:48`),
"or return the existing one when `name` is already taken by this owner" (`agents.ts:57`). In the
model it is the branch "failed" of `CreateOwner` and `CreateAgent`. `RegistrationsAgree` is what
holds instead: it excepts exactly those requests that came before the row was there. The use of a
code that was spent by the loser comes back (`InvitesAdmitTheirUses`), and who asks again, and is
admitted, is told of the row.

## 8. Uploads and content keys: `ClientUploads`

What an SDK client does before it posts (`client.py`, `encryption.py`, `client.ts`): a call
completes and plans its records (`Plan`), registers every data key not known to be registered
(`NextKey`), uploads each distinct piece of content (`Upload`), posts (`Post`) and merges the
results (`Merge`). A PUT of a key is served in two statements (`FindKey`, `WriteKey`) whether
or not anybody still waits for it (`TimeOut`, `ResendKey`); an upload and the POST are one step
each, since RecordLedger and ContentLibrary have their insides, and either may happen without its
answer arriving (`LoseUpload`, `LosePost`). The
owner may rotate the master key meanwhile, by the procedure of `python-sdk/README.md`
(`BeginRotation`, `ListKeys`, `Rewrap`), and open the page of a session, which reads records and
keys apart (`OpenPage`, `ReadKeys`). TypeScript does not encrypt, and answers for a value it
cannot encode at that record's place where Python raises for the whole call.

**Properties.** `NothingIsRefusedForUploads`, `FailedUploadsPostNothing`, `ResultsInPlace`,
`RotationReachesAll` and `PagesOpen`.

**Divergences without a run.** `RotationIsKept` is violated: a client that got no answer puts
its key again, wrapped as before, over the re-wrapped one, so "that is how a master key is
rotated" (`routes/content-keys.ts:24`) needs clients to be quiet; `RotationReachesAll` says which
keys are safe. `OneInputFailsAlone` is violated: "Per-record errors don't abort the batch"
(`client.py:289`) does not hold of a value that cannot be encoded (`client.py:298-303`).

## 9. Reads: `RecordReads`, `Conversations`

Records take their sequence at the INSERT and are seen at the commit, in any order, or fail and
leave a gap. A reader pages through a trace, reads a session or opens the trace list.
`Conversations` is `buildConversations` as operators: session ids are sequences of their parts,
links and forks are tags. `ListsAreWhole` compares its result, on whatever the two queries of
the list saw, with a reference that does not walk: `Reaches(edges, nodes, a, b)` says that every set
which has `a` and is closed under the edges has `b`. Each conversation is under exactly one root, and
nested unless its parent began with it.
`PagesCoverTheTrace` says that pages neither repeat nor omit a record that was there when the
reader began and hold none from outside the reader's scope, and `PagesEnd` that the last page is reached.

**Fairness.** A reader that has begun goes on, as its client's loop does; nothing is asked of the
writers or of a reader that has not begun. `PagesEnd` does not rest on the records being few:
they may go on being inserted, above the cursor.

**A divergence without a run.** `PagesStayStable` is violated, against `routes/traces.ts:15-17`:
a record with a lower sequence may commit behind a cursor, and the page read again has it.

## 10. Runs

| Run | Configuration | Asks |
|---|---|---|
| `ledger_batch` | `MCRecordLedger` with `LedgerBatch.cfg`: `UpstreamPrecedes`, `BatchSeesItself`, `LedgerInv`, `RowsAreTheOwners`, `ReferencesWereUploaded` | Two racing calls of ten kinds: batches of a record and its child, the same id twice, single records; two owners, another owner's agent, an unregistered agent id, a shared record id, malformed records and bodies; plaintext, encrypted and wrongly sized references, while content is uploaded, deleted and uploaded again and a key is registered; a statement may fail, a commit go unheard or the process die once among the racing batches of a record and its child. What a row builds on precedes it in sequence order, a batch sees its own records, every row was sent by the owner of its agent, every reference was uploaded, and the inductive invariant holds. |
| `ledger_duplicate_race` (violation) | `MCRecordLedger` with `LedgerDuplicateRace.cfg`: `DuplicateGetsOriginalAck` | A retry that overlaps its first attempt passes the deduplication read, loses the INSERT to it and is answered with a server error for a record that is stored. |
| `export_settles` | `MCExportRecords` with `ExportSettles.cfg`: `ExportInv`, `OnlyInversionsAreLeftBehind`, `CompletedPairsVerify` | Two overlapping runs over one directory, one of which may be killed at any point, while batches of two records, or one and a single submission of its second record, commit in every order and waste sequence numbers, with a settle time longer than the slowest insertion: the inductive invariant holds, a row is left behind only if its timestamp and its sequence are in the opposite order to an exported row's, and every completed manifest has its .jsonl with the digest and count it says. |
| `liveness` | `MCExportRecords` with `ExportLiveness.cfg`: `OneOriginalAck`, `AcksAreStored`, `ImplementsLog`, `EveryCallEnds`, `NoInsertStarves`, `ExportCatchesUp` | One caller submits a record, or a batch that contains it, with two attempts that may overlap; requests, responses or both may be lost, and the server may crash, fail a statement or lose the result of a commit once; the export is started again and again while none of its runs is killed. There is at most one acknowledgement that calls itself original, and every acknowledgement repeats a stored row; every step is a step of the abstract log or a stutter; the call ends, no INSERT waits for ever on the primary key, and the export catches up with every committed row. |
| `export_inverted` (violation) | `MCExportRecords` with `ExportInverted.cfg`: `ExportIsGapless` | Two concurrent submissions draw their timestamps and their sequence numbers in opposite order; the settle cut-off falls between the timestamps, the higher sequence is exported and the lower one is skipped by every later run, although the settle time exceeds the slowest insertion. |
| `content_library` | `MCContentLibrary` with `ContentLibrary.cfg`: `LibraryInv`, `UndeletedContentIsServed`, `FilesAreAccountedFor`, `DeletedBytesGo` | Two uploads, a read and a run of delete-content over the same content of two owners, while the server dies any number of times, the command may be killed and any statement or file operation may fail: content that was never deleted is there and is served, bytes without a live row are on their way in or out or were left by a last step that failed or never came, and other deleted bytes go in the end. |
| `content_delete_race` (violation) | `MCContentLibrary` with `ContentDeleteRace.cfg`: `LiveContentIsThere` | Content is uploaded again between the command's commit and its rm: the command removes the new file, the row stays live, reads fail and further uploads answer 200 without storing anything. |
| `viewer_sessions` | `MCViewerSessions` with `ViewerSessions.cfg`: `ViewerInv`, `ReadersAreAuthorised`, `TicketsOpenOnce`, `NothingIsReadAfterExpiry`, `EndedGrantsOpenNothing` | Five stories of five requests in every interleaving while time passes: a grant opened twice and revoked, a ticket opened twice, a grant and a ticket of one owner in one browser, an owner who revokes another's grant, the administrator who signs in and out. Pages read what their cookie was made for and nothing once it is over, and a ticket opens one session. |
| `access_gate` | `MCAccessGate` with `AccessGate.cfg`: `AccountsInv`, `GateInv`, `InvitesAdmitTheirUses`, `RegistrationsAgree`, `DeadKeysDoNothing`, `NewGrantReplaces`, `TokensWithinGrants`, `TokensEndInTime`, `CodesAdmitWhileUsable` | Eight stories of up to four requests about invites, owners, keys and agents, two about grants that replace one another while tokens are issued, and four of grants, tokens and handles next to a rotation of the key, in every interleaving, with one restart and one tick of the clock: codes admit their uses and only while they are usable, a registration of what is there is told of it and two that succeed agree, a rotated key does nothing, a new grant replaces what was there, and tokens stay within their grants and end in time. |
| `access_two_grants` (violation) | `MCAccessGate` with `AccessTwoGrants.cfg`: `OneLiveGrant` | Two grants of one resource to one owner are made at once: neither UPDATE sees the other's row, and both stay live. |
| `reads` | `MCRecordReads` with `RecordReads.cfg`: `PagesCoverTheTrace`, `ListsAreWhole`, `PagesEnd` | Four records of two agents are inserted, commit in every order or fail, while a reader pages through a trace with limits of one and two, reads a session, asks outside its scope, or opens the trace list, whose two queries see different moments: pages neither repeat nor omit a record that was there, the last page is reached, and the list of conversations is a forest that holds each of them once, also when their edges form a circle. |
| `uploads` | `MCClientUploads` with `ClientUploads.cfg`: `NothingIsRefusedForUploads`, `FailedUploadsPostNothing`, `ResultsInPlace`, `RotationReachesAll`, `PagesOpen` | A Python client that encrypts and a TypeScript client that does not submit records with new and given content, invalid, unencodable and too large inputs, whole batches that are too large, two calls one after another and two clients at once, with a request or answer lost; one program runs next to a rotation of the master key and a page that an owner opens: nothing is refused for content or keys the client was to upload, failed uploads post nothing, results are at their places, the rotation reaches every settled key and the page opens. |


Bounds. Two record ids are enough for a record and what it builds on; a third would repeat
the pair. Two calls race every pair of handlers (`ledger_batch`, where retries are not needed, being
calls of their own as far as the tables go). The configuration bounds that run by its constraint
`FaultsMeetBatches`: a fault (a failed statement, a commit whose result is lost, a crash) meets a
racing pair of batches or submissions of a record and its child, and the clock moves where both
calls send the one record; the requests about owners and content meet neither. The liveness run has one call, whose two attempts may overlap, since what an INSERT
can wait for is another INSERT of the same key, and one fault, so that the process can die while
an INSERT is under way. `MaxTime = 1` distinguishes a stamp from the time of the commit. The
export needs `MaxTime = 3` for a settle time of two and a commit after the
cut-off. The content library has two uploads, a read and a deletion of one hash under two
owners: every pair of actions on one piece of content meets, in every order, next to another
owner's copy. The viewer's stories have five requests, enough for something to be made,
opened, read, taken back and opened again, and `MaxTime = 2` lets tickets and grants (one
tick) expire before the sessions of the owner (two), which expire as well. The stories of
accounts and gate have four requests each: two that race, one that ends what they race for and
one that makes it or comes after; a code of one use and one of two, one that expires at the
first tick. `ClientUploads` has two attempts and two lost answers, so that a late PUT meets its
own repetition, and pages of one key, so that a rotation of two keys has two pages. `RecordReads`
has four records: three conversations in a circle and one more, or three pages of one.

Calls (and export runs) are interchangeable in the specification and in all invariants, so
they are symmetric; the runs with temporal properties use no symmetry. `CHECK_DEADLOCK` is left on everywhere:
`Next` lets a settled system stutter, so that any other stop is an error.

## 11. Proofs

All proofs hold for every set of calls, requests, owners, agents, ids and keys, every
number of attempts, and every bound on time and faults. Assumptions are those named
`...Assumption` in the modules: at least one attempt, the special values differ from the
ordinary ones, an agent has at most one owner, a request has at least one record and a
single submission has exactly one; `UploadsAssumption` and `ReadsAssumption` are the types of
what programs and readers ask for, a rank that tells keys apart, page limits and attempts of at
least one.

`RecordLedgerProofs`. `TypeCorrect` is inductive together with `PositionsInv` (a handler
that is not finished has a record left to work on: the type of a committed row depends on
it) and `ClientInv` (a call that backs off has attempts left). The safety properties are
not inductive. `LedgerInv` adds, for each place a handler can stand, what it has
established by then and that it cannot be undone (`ChecksInv`: agents keep their owner,
rows, keys and content rows are never removed), that sequence numbers are drawn once and
after those of everything the row builds on (`SequenceInv`), and that the holder of a
primary key is alone and the key has no row yet (`HoldersInv`). Lemmas `Monotone`,
`HandleMoves` and `RowsMove` say once what any step does to these parts, and each
conjunct's proof uses them instead of splitting into actions again. `OneRow`, `AcksStored`,
`OneOriginal`, `UpstreamOrder`, `ReferencesResolve`, `OwnersOnly` and `BatchOrder` follow.

In its second part, `Refinement` proves `Spec => ImplementsLog`. The mapping takes
the acknowledgements out of `results`. `LogSteps` sorts every action by what it adds:
nothing or an error (a stutter), a row, a row with its acknowledgement (`Log!Store`), a
repeat (`Log!Repeat`). That the row may be stored is `HoldersInv` and `SequenceInv`; that
the acknowledgement is new is the length of its handler's answers.

`ExportRecordsProofs`. `StoreInv` (files, cursors and pages that hold settled committed
rows) is inductive for every settle time and yields `CompletedPairs`. With
`SlowestInsert < Settle`, `CoverInv` is inductive as well: a page being written holds every
row between cursor and last line, inversions apart. The step that needs the settle time is
a commit: the new row's timestamp is recent, every row in a page or file is older than the
settle time, so the new row is behind them only in the sense of an inversion. This gives
`ExportInvariant` and `SettleSuffices`; the ledger's own invariant comes from
`RecordLedgerProofs`, since a step of the export leaves the ledger alone.

`ContentLibraryProofs`. Neither property is inductive. `LibraryInv` adds that every file
hashes to its name and so does what is about to be published (`BytesInv`); that a row which
is live, or about to become so, has its file as long as the content was never deleted, and
that the log knows every deleted row (`RowsInv`); and that what a run of the command is about
to remove is in the log, while what a reader is about to open is in the log or live
(`ActorsInv`). `LibraryStep` goes by actor: `PutStep`, `DeleteStep` and `GetStep` say what one
of them does to rows and files, `LiveUntilLogged` that a row stays live until it is logged,
`ReaderStep` and `RemoverStep` that the others do not disturb a reader or a removal, and
`FailStep` that a failure leaves rows and files alone; what is left behind at a last step stays
so (`LeftStays`).
`LibraryInvariant`, `UndeletedIsServed` and `NoStrayFiles` follow, for every number of
owners, hashes, requests and runs (`ContentAssumption`: the special values are not hashes;
`ActorsAssumption`: the three kinds of actors are disjoint). So does `RowsOnly`, that the
rows are those of `ContentRows`, for which `RowWriters` finds the two actions that write one.

`ViewerSessionsProofs`. `ViewerInv` adds to the four properties what each request has
established where it stands (`RequestsInv`): who comes to which statement (`Placed`), that a
request makes its own row last and only once (`Tabled`), that rows, and rows read, say what
their opener was given and end with their grant (`SoundRows`), that whoever signs in does so
on its authority, with its ticket used up (`SignsIn`), and that every clock reading is past and
what was over stays over (`Timed`, `Belated`). `Others` and `GrantsStayed` say once what a step
may do to the rows and requests that are not its own, and `OthersKeep` follows for all of
`RequestsInv`; `OwnPlace` to `OwnTimes` treat the request that moves. `BecomesViewer` and
`PageReads` say when somebody comes to read, from which the four properties follow, for any
number of browsers, owners and requests, whatever the requests are about
(`ScenariosAssumption` is their type; `TimesAssumption`: times to live are positive;
`NamesAssumption`: the special values are not ordinary ones).

`AccessGateProofs`, part I, is about `Accounts`. The invariant `Inductive` is `AccountsInv` without the agreement, which follows
from it. A request is held to the statement it stands at (`Placed`), makes its own row last and
once (`Made`), and once told of a row that row stays (`Told`): a success is never taken back
(`SuccessStays`), an owner is never removed and is changed only by a claim or a rotation
(`Owners`), an agent only by a renaming (`Agents`). That a code admits its uses is not
inductive by itself: `Spending` says that whoever stands before the insert holds the lock on
the code's row alone, found it usable and has a use left, which nobody takes before the
commit; `CodesAdmitWhileUsable` is the same fact at the commit. A dead key stays dead
(`DeadStays`), since a new key is always the request's own and no key in use is one that was
never handed out (`Unique`). `Found` says of every row that a registration was to find that it is
there, under its name unless that was changed, and that the request has gone no further than
its look-up or was told of it; the look-up can be told of no other, because names are unique.
Agreement of two registrations is `Told` for both, under the same index (`Agreement`).

Part II builds on it: `GateImplementsAccounts` shows that every behaviour of the
composition is one of `Accounts`, so that `Inductive` may be used at every step. `GateInv` adds
what a replacement, an exchange and a revocation have in hand (`Replacing`, `Signing`,
`GateDated`): the grants that were there at the request's arrival are, from its `updateMany` on,
in hand or revoked; rows in hand before an insert are live and in nobody else's hand, because
whoever claims waits for the lock; the grant a token is being signed under was live after the
clock was read, and so was the key. `Grants`, `TokenComes` and `HandleWritten` say once what a
step does to the three tables; `GateRequestsStep` treats the request that moves and the others
apart, and `BesideTheGate` everything that happens in `Accounts`, in time or by a restart.

`SortingProofs`. A sorted set is a sequence of all its elements, each at its place, in the order
(`SortedInOrder`): places grow with the order, so they are taken once, and n elements take the
places from 1 to n. `Sorting` defines a place by counting what comes before, and not by recursion
over the set, because the provers cannot do induction over data.

`ClientUploadsProofs`. None of the five properties is inductive. `UploadsInv` adds where a call
under way stands: what it is to upload is in the store or still in its list (`CallsUnderWay`), the
keys of it are the writer's and registered before any content goes out (`KeysUnderWay`), and what
a writer knows to be registered is in the table (`KeysAreThere`), so that the POST finds it all.
`StoredInTurn` says that nothing is stored of a call before it posts, and `StoredIsSound` that
nothing is which holds content the server refuses. A PUT may be served after its sender stopped
waiting: `PutsAreSent` says whose it is and that a writer puts no key it knows is registered,
therefore none that was settled when a rotation began (`RotationGoesOn`), so that no settled key goes back
to the old master key; a key that was not settled may (`RotationIsKept`, above). Each settled key is
wrapped anew, in hand, or on a page to come (`Reached`). `PageHasKeys` holds that what a page
shows had its keys when its records were read, and keys are never removed. Lemmas about the
operators carry the rest: `PlannedIsWhatIsNeeded` (a list without repetitions still has every
piece), `MergeInPlace` (the results of the sent records land at the places of those records),
`PagesPassOverNothing` (pages of keys by rank leave none out). Stating `FailedUploadsPostNothing`
for every program showed that the model had counted a reference the caller brought along as content
to upload, when its value was too large; such a reference is not uploaded (`client.py`,
`_plan_uploads`), and the property now speaks of what is.

`RecordReadsProofs`, part on `Conversations`. `ListIsAForestOfAll` is about the operators alone, for
any sessions and any links. `isAncestor` walks up until a conversation repeats; `Walk` has no
stopping rule but a bound, the number of conversations that have a parent. `WalkFindsAncestors`
shows the bound is enough: among that many steps one repeats (a pigeonhole), and then everything
further up has been seen, so that what the walk has passed is closed, and `IsAncestor` is `Reaches`.
If no conversation is reached from the one it is nested under, what is reached from a
conversation shrinks on the way up, so a least one without a root cannot exist (`OneRoot`).

`RecordReadsProofs`, part on `RecordReads`. `ReadsInv` adds to the types that sequences are taken
once and only by what was inserted (`SequencesAreTaken`); that a reader which was given anything
passed the check of the owner (`OfTheAgent`), though the query of the page does not repeat it; and
`PagesSoFar`: what it has is at or above its cursor, and what had been committed when it began is
among it or below. A commit behind the cursor disturbs none of this, which is why
`PagesCoverTheTrace` holds and `PagesStayStable` does not. `PageHasTheFirst` says what a page is:
the first records below its cursor, all others below the next one, and no next one without
others. `ListsAreWhole` follows from `ListIsAForestOfAll`, the types of what the two queries return,
and `ListInScope`.

Only model-checked: the liveness properties (`EveryCallEnds`, `NoInsertStarves`,
`ExportCatchesUp`, `DeletedBytesGo`, `PagesEnd`) are beyond TLAPS here, which cannot reason about `ENABLED`.
Every other property of a passing run is a theorem.

## 12. Not modelled

The rows of `PROJECT.json` with status `not_modelled` or `partly` give the reason for each
component. In short: the generated database client under `api-server/src/generated`, which is
two thirds of all source lines and whose behaviour appears here only as the statements the
handlers make through it; generated record types and their generator; what a card and the
inspector show of a record (`trace.ts`) and the graph script, which are pure functions for display; rendering and
browser event handlers; cryptography (a hash is its preimage, a key a value); SQL and
Postgres beyond READ COMMITTED visibility, row locks, unique indexes and sequences; the wording of
errors, logging and pagination links; start-up and migrations.
