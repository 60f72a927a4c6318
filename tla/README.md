# Formal models of Novora

Novora keeps the exam schedule of a school.  Administrators plan and run exams
in a web page, classrooms show the running exam on a screen or through a plugin
of the ClassIsland desktop program, and a stateless HTTP server over PostgreSQL
holds everything.  This directory contains TLA+ models of that system, their TLC
configurations and TLAPS proofs.

Commands, in this directory: `tlasany M.tla` parses a module, `tlc -config X.cfg M`
checks a run (`M` is `MCExamLifecycle`, `MCComponents`, `MCClients`, for `lifecycle_safety` it is
`MCExamParts`, for `silent_revert` and `edit_overwritten` `MCSaveProtocol`, for `class_held_twice` `PluginPairing`),
`tlapm M.tla` checks the proofs of the modules whose names end in `Proofs`.  `PROJECT.json` lists the components, the runs, the lines of code
every definition stands for, the hazards, the findings and the theorems.

## 1. The system

### Server (`src/api`, `src/server`)

| Component | State | Operations | What makes it correct |
|---|---|---|---|
| Exam lifecycle (`_exams/examAutoLifecycle.ts`, `routes/examRecordRoutes.ts`, `src/shared/examLifecycleOperations.ts`) | `exam_data.majors`, `updated_at`, `revisions`; `exam_records`; `exam_record_operations` | lazy advance (start, end, archive), publish, pause, resume, extend, end, archive, unarchive, copy | snapshot and records tell the same story; over is over; each operation happens once; due exams do start and end |
| Projection (`examRecordProjection.ts`) | `exam_records` | upsert of all exams of the snapshot, merging statuses | never revives an exam, never forgets an actual start or end |
| Exam data saves (`routes/examDataRoutes.ts`, `payload.ts`, `diff.ts`, `examSnapshotPatch.ts`) | the document `exam_data`, one revision per domain | load, conditional save, fast save, initialise | no save overwrites what its author has not seen; running state belongs to the server |
| Permissions and scopes (`permissions.ts`, `scopeCleanup.ts`) | account scopes | sanitise and validate a submitted document, freeze archived exams | an archived exam is read-only |
| Settings and reset (`routes/settingsRoutes.ts`) | `exam_data`, policies, presets | reset by category | a reset is a versioned write like any other |
| Migration, start, write slot (`db.ts`, `_schemaMigration.ts`, `writeThrottle.ts`) | schema, last write times | DDL, projection at a cold start, spacing of writes | a cold start harms no running exam |
| Device heartbeat and commands (`routes/deviceSelfRoutes.ts`, `deviceAdminRoutes.ts`) | `device_instances`, `device_commands` | heartbeat (also advances exams), claim, acknowledge, fail, expire, rotate, revoke | every command is settled, and as what happened to it; a report is not lost |
| ClassIsland plugin server (`routes/pluginRoutes.ts`, `plugin.ts`) | `classisland_plugin_instances` | register, pair, confirm, bind, poll, unpair | a class has one device; a paired plugin follows the class of its viewer |
| Announcements (`routes/examAnnouncementRoutes.ts`) | announcements, receipts | publish, withdraw, read, acknowledge | a receipt is not lost |
| Time control, dashboard | one row; nothing | set, read | last write wins |
| Email queue (`_emailQueue.ts`) | `email_outbox` | enqueue, claim, send, requeue | two drains never work on one mail; every mail is settled |
| Diagnostic queue (`_diagnosticQueue.ts`) | `app_diagnostic_bundles` with claims | append, claim, deliver, finish | what is settled stays settled; every bundle is settled |
| Backup and restore (`_backup`) | lease row, files | back up, restore, release | what a restore overwrites is in the backup it made first |
| Authentication (`_auth`, `login.ts`, `users.ts`), rate limiter | sessions, audit log, counters | login, lockout, recovery | the lockout holds under concurrency |
| Logs, telemetry, platform usage, HTTP server | append-only tables, caches | sinks, polling, routing | none of their own |

### Clients

| Component | State | Operations | What makes it correct |
|---|---|---|---|
| Save and conflict handling (`services/examService.ts`, `examOutbox.ts`, `hooks/admin/*`) | edited copy, base version and revisions, outbox in local storage | edit, flush, retry, merge, resolve | an edit is kept until it is stored and does arrive; saved means stored; nobody else's work is undone |
| Action requests (`services/examRecords.ts`) | pending action with its key | send, resend | a resent action happens once |
| Write queue (`services/syncQueue.ts`) | tasks by key, one dispatcher | enqueue, supersede, dispatch, retry | a write is sent or replaced by one that is; progress covers what is pending |
| Snapshot polling (`services/examService.ts`, `hooks/useExamSync.ts`) | shown snapshot, stored snapshot and ETag, requests in flight | poll, force, apply, merge a partial answer | the stored snapshot is one the server had; screens catch up |
| Bindings, pairing, receipts | local storage | bind, confirm, buffer and flush | as on the server side |
| User interface | component state | rendering | not modelled |
| ClassIsland plugin (C#) | token, last snapshot | register, poll | not modelled |

### How they interact and what is hard

Components meet in the database.  The server keeps no state of its own between
requests, and every handler is a sequence of SQL statements, some grouped into a
transaction, with other handlers running in between:

- `exam_data` is one document with all exams.  Every writer reads the document, computes
  a new one and writes it back under `WHERE updated_at = ...` (or a revision); saves
  of clients may hold their copy for hours.
- `exam_records` repeats the exams in rows.  Queries for due exams and the decisions about
  actions rest on the rows, the effects go to both, and the projection copies the
  document into the rows after saves, after actions and at the start of an instance.
- Nobody runs the clock.  Exams advance when some reader or device happens to call.
- Requests are retried by clients with idempotency keys and looked up in
  `exam_record_operations`, the log of everything done.
- Tabs of one browser meet in local storage: the outbox of unsaved edits, the settings
  shown, the last snapshot with its ETag, the receipts to be sent.  Each `await` lets another
  tab, timer or answer in.
- Queues in tables (mails, diagnostic bundles, device commands) and the lease of a backup are
  worked on by whichever instance comes along; it may die, or come back late.

So the hard part is in the interleavings: a decision on rows that have changed, two documents
written under one version, the projection of an old document, an action planned before
and committed after another one, and a retry that meets its original.
`PROJECT.json` lists the hazards at the lines where they bite.

## 2. The modules

| Module | Contents |
|---|---|
| `ExamRules` | The pure rules, with the constants they need: which action an exam permits, what it writes to the record and to the major (an element of the document), when the system acts, the projection and its status merge, what the server keeps from a submitted document. |
| `ExamLifecycle` | The database and the processes that write exams; the properties. |
| `MCExamLifecycle`, `MCExamParts` | Windows, sets of actions and the symmetry of the TLC runs; the three parts of `lifecycle_safety`. |
| `SaveProtocol` | One browser that edits the document while others do: an admin tab that pushes, a classroom tab that flushes, the outbox between them, the server's check of revisions, conflicts and merges. |
| `OutboxPromise` | The abstract specification of the outbox: the latest edit of each part is kept until it is stored. `SaveProtocol` breaks it in one order of events (`edit_overwritten`). |
| `SnapshotReads` | Tabs of one browser that read the document: conditional requests, partial answers, the stored snapshot, its ETag, what is shown. |
| `MCSaveProtocol`, `MCClients` | The document's parts for TLC; saving and reading under one specification. |
| `JobPromise` | The abstract specification of a queue: a job is tried so often, ends once, and no try is lost or counted twice. The rows of `EmailQueue` and `DiagnosticQueue` implement it. |
| `EmailQueue` | Codes and mails, drains, crashes, lost answers of the mail server, the requeueing of stale rows; how often the mail server took a mail. |
| `DiagnosticQueue` | Bundles, the request that uploads, drains with claims, expiry. |
| `BackupLease` | The lease row, the write guard, backups and restores that outlive their lease. |
| `DeviceCommands` | Commands in their two places, heartbeats statement by statement, the page that runs them, lost answers, handlers that die and reloads. |
| `PluginPairing` | Devices, classes, plugins; overlapping binding requests statement by statement; polls that write what they read. |
| `WriteQueue` | The queue of a page's writes, superseding and the wave of progress. |
| `AnnouncementReceipts` | The buffer of receipts, overlapping flushes, the counting row. |
| `MCComponents` | The seven components (`EmailQueue` to `AnnouncementReceipts`) under one specification with their fairness. |
| `Selections` | The elements of a sequence at chosen positions: a `WHERE`, or a filter of an array. |
| `ExamLifecycleProofs` | The inductive invariant of the lifecycle and type correctness. |
| `ExamDataProofs` | The optimistic concurrency of the document, what saves of clients leave alone, and what records keep of the past. |
| `ExamStoryProofs` | What records and document tell of an exam agrees, whoever writes them. |
| `SaveProtocolProofs` | What a browser believes of the server is true; which edits the outbox cannot lose. |
| `ClientProofs` | The stored snapshot is whole; saving and reading together keep their types. |
| `QueueProofs` | `Select`; the invariants of the mails, the bundles and the write queue; the refinements of `JobPromise`. |
| `DeviceCommandsProofs` | What the rows of commands say is true. |
| `ComponentProofs` | Backups, bindings and receipts; all components of `MCComponents` together. |

`ExamLifecycle` composes everything on the server that touches an exam.  `SaveProtocol` stands on the
other side of the same interface, with the server reduced to the check of a save and
the other people's writes; it does not extend `ExamLifecycle`, because the questions
differ: there, what a save does to the running state; here, what becomes of an edit.

### State and actions of `ExamLifecycle`

`majors`, `version` and `revision` are `exam_data.majors`, `updated_at` and
`revisions.major`; `records` is `exam_records`; `opLog` holds the keyed rows of
`exam_record_operations`, `autoLog` counts the system's rows there (their keys contain
a random uuid and never collide).  `applied` is a history variable.  `clock` is
`Date.now()`.

A process has a record with the step it is about to take and everything it has
read.  A step is one SQL read, or one transaction.

| Process | Steps | Code |
|---|---|---|
| `Workers` | `Advance` or `Heartbeat`, then per phase `SelectDue`, `ReadForAdvance`, and per row `CommitRow`, `CommitStaleRow`, `LoseRow` or `SkipRow` | `examAutoLifecycle.ts`, `deviceSelfRoutes.ts:150` |
| `Requests` | `Submit` (with the key lookup), `ReadRecord`, `ReadForAction`, then `CommitAction`, or `LoseAction` and `ProjectLost`; for a copy `CommitCopy` or `LoseCopy` | `handleRecordAction` |
| `Saves` | `Fetch` or `EditBlank` on the client, `ReadForSave`, then `WriteSave`, or `RejectSave` and `ProjectRejected` | `handleExamDataPost` |
| `Instances` | `StartInstance`, `ProjectAtStart` | `db.ts:361` |
| (one action) | `ResetData` | `handleResetData` |

Four points of the correspondence are not obvious.

- *Commit of an advance.* In `commitSystemTransition` the update of the document and the log
  row depend on the version, the update of the record on the version and on the row being
  still due.  `CommitStaleRow` is the transaction in which only the second condition
  fails.  The function then returns nothing and the loop goes on with the copy and the
  version it had, so later rows of the loop are lost.
- *Projections that nothing holds together.* A successful transaction holds the row
  lock of `exam_data` to its end, so its projection sees its own document: one step.
  When the update matched no row (a refused save, a lost action) or there was none
  (cold start), nothing is locked, and under READ COMMITTED the projection applies the document
  its statement began with, possibly after waiting for a row.  These are two steps.
- *Advisory lock.* Advances and actions commit under `pg_advisory_xact_lock`
  (`LockFree`).  Saves, resets and cold starts do not take it.
- *Decisions on older rows.* `ReadRecord` comes before `ReadForAction`.  The version
  guards what happened after the second read only.

### State and actions of `SaveProtocol` and `SnapshotReads`

Both model the local storage of one browser: `cloud` (or `kept` and `etag`) is
`examCloudSnapshot` with its ETag, `settings` (or `shown`) the document the pages show,
`outbox` the entry of `examOutbox.ts`.

| State or step of `SaveProtocol` | Code |
|---|---|
| `draft`, `pending`, `timer`, `chain` | the admin page's state, `pendingSync`, the debounce of the push, the promise chain behind which pushes wait |
| `Edit` | `commit` in `useMajorScheduleActions.ts`: draft, settings and outbox together, the entry paired with the stored snapshot; at any moment, whatever is under way |
| `Continuing` | the next push of the promise chain starts when the last one has ended, before the page handles another event |
| `StartPush`, `Send`, `Serve`, `PushSaved`, `PushConflict`, `PushFailed`, `PushStale` | `pushToServerExec`, `saveExamsToServer` (`examService.ts`), `handleExamDataPost` |
| `StartFlush`, `FlushSaved`, `FlushConflict`, `FlushFailed` | `flushPendingExamSync` in a classroom tab, `markPendingFailure`, the recognition of an own save whose answer was lost (`Ghost`) |
| `Reload`, `Arrive`, `ReadOverview`, `CloseClassroom` | the start of a page, answers of reads, closed tabs |
| `Fails`, `TheyEdit` | lost requests and answers, refusals for good; other people's saves |
| `stored`, `told`, `rested` | history: edits the server has stored, edits reported as saved, the last edit of each part if it was made `AtRest` |

In `SnapshotReads` a read has the steps of `fetchExamsOnce` and `handleExamDataGet`: the
version is read (`Ask`), then the row (`ReadRow`), the headers arrive and the ETag is
stored (`StoreEtag`), then the body is laid over the snapshot stored at that moment
(`ReadBody`).  `Screens` run `useExamSync` (polls, forced reads and one queued behind the
read under way), `Panels` only store.  Since the server reads the version before the row, an
ETag never promises more than the body holds.

### State and actions of the other components

| Module | State | Actions and code | Points of the correspondence |
|---|---|---|---|
| `EmailQueue` | `mailCode`, `mailJob`, `mailDrain` | `_emailQueue.ts`, `_emailAuth.ts`: `SendCode`, `ClaimOwn`, `ClaimDue`, `Deliver`, `AnswerLost`, `MarkSent`, `MarkError`, `FailExpired`, `SlotBusy`, `OverBudget` | rows carry ages and waits in minutes instead of times; `claimJobById` ignores `next_attempt_at` as in the code; a third attempt is never made, the code has expired by then; `AnswerLost` is a mail the server took and the drain counts as an error; `mailed` is a history of what it took |
| `DiagnosticQueue` | `bundle`, `poster` | `_diagnosticQueue.ts`: `UploadBundle`, `FirstAnswer`, `ClaimBundles`, `PostBundle`, `FinishClaimed`, `ReleaseClaim`, `Outlive`, `BrowseCatalog` | the first answer is written by id, later ones only under the claim; a worker may be held up beyond its lease |
| `BackupLease` | `leaseRow`, `runs`, `tables`, `taskPc` | `_backup/service.ts` and its trigger: `Acquire`, `Snapshot`, `CheckLease`, `SaveRun`, `BeginApply`, `ApplyRestore`, `Release`, `WriteTables` | the contents of the guarded tables are the number of their last write |
| `DeviceCommands` | `command`, `temporary`, `beat`, `page` | `deviceAdminRoutes.ts` (`PostCommand`, `PostTemporary`), `deviceSelfRoutes.ts` (`ReportDone`, `ClearDone`, `ReportFailed`, `ClearFailed`, `ReadDevice`, `ClaimCommand`, `HandlerDies`), the page (`SendBeat`, `Answer`, `Reload`, `StopWaiting`), time (`RunLate`) | each report is two statements, and the handler may die between any two; the page drops an answer it no longer waits for, the server carries the heartbeat out all the same; a heartbeat expires what was late at its `now`, read at its start |
| `PluginPairing` | `viewer`, `plugin`, `binder`, `poll` | `deviceAdminRoutes.ts`, `deviceSelfRoutes.ts`, `pluginRoutes.ts`: one action per statement of a binding, a revocation, a status poll, a heartbeat; a managed setup (`SetUpDevice`, `SetUpManagement`) is a read and one transaction | what a request read stays in its record until it writes; `contested` is a history of the classes that two requests had looked at and were both yet to take |
| `WriteQueue` | `business`, `dispatcher`, `wave`, `answers` | `syncQueue.ts`: `RunQueued`, `StartWrite`, `AnswerWrite`, `FinishWrite`, `CloseWave` | a step lasts from one `await` to the next |
| `AnnouncementReceipts` | `unsent`, `flush`, `receipts`, `seen` | `announcementAcks.ts`, `handleAnnouncementAck`: `NoticeSeen`, `PollFlush`, `RecordBatch`, `BatchAnswered`, `BatchFails`, `EraseNotice` | time shown is counted in showings |

### What is abstracted

In `ExamLifecycle`:

- `endedAt` and `actualEndAt` of a major are always written together and are one
  field; `archivedAt` is tested for presence only and is a flag.
- Names, subjects, colours and scopes are left out.  An exam of `Itemized` has one subject
  that spans its window, which is what decides whether it can be extended.
- `publishedAt`, the reasons and the actor of an operation, and audit entries are left out:
  nothing reads them back to decide anything.
- `revision` is that of the domain of exams.  The other domains of the document appear
  as the edit `other` of a save, which carries no exams when the client knows revisions.
- The write slot (`writeThrottle.ts`) delays and excludes nothing.  The lock for
  creating schedules, scope checks, the limits of 50 and 200 due rows and the promotion
  of a quick exam to a formal one are left out.
- A request or a save is sent once.  A retry is another request with the same key,
  at any time, so a lost answer, a late duplicate and a double click are all covered.
- No client in the repository sends `baseUpdatedAt` with an action, so an action is
  guarded by the version the server itself has read.
- Identifiers are fresh (`Fresh`): they are random in the code.

In the other modules:

- `SaveProtocol`: a part of the document (an exam, the alerts) has a number for a value;
  three-way merges of lists become a choice per part.  The weekly schedule's hook, exams
  frozen by the archive, retry counts and back-off, the 120 seconds in which a lost
  answer is recognised, and saves with base 0 are left out.
- `SnapshotReads`: flights shared within a tab and their reuse window, the version last
  advertised moving ahead of the snapshot, bootstrap, and the versioned URL of edge caches
  are left out.  A body that never ends (the timeout is cleared when the headers arrive) is
  a read that fails.
- `EmailQueue`: a drain ends before `STALE_SENDING_MS` has passed over its row (the guard of
  `MailMinute`).  The callers ensure it: at most five sends of eight seconds (`api/system.ts:630`) or
  one with a two second slot (`_emailAuth.ts:327`, `:449`), against two minutes.  So the late writer
  that `markJobSent` and `requeueJob` would let through, as they write by id alone, does not occur.
- `BackupLease`: file formats, the nightly window, pruning, the daily check and the hosted
  storage mode are left out.
- `DeviceCommands`: idempotency keys, registration and key rotation are left out; whether the
  local exam admits a command is left to chance.
- `PluginPairing`: a grade and a class are one room; a bootstrap that knows the version is left out.
  The write slot is not modelled: it lets writes begin 900 ms apart, after what they rely on was
  read, so it makes an overlap rare and excludes none.
- `WriteQueue`: intervals are one step; a task that never settles is excluded, and so is the
  debounced entry point, which has no caller.
- `AnnouncementReceipts`: the trimming of a buffer beyond its limit, and the counting of
  time twice, are left out.

## 3. The runs

`lifecycle_live`, and five of the runs below that expect a violation, use
`MCExamLifecycle`, `lifecycle_safety` uses `MCExamParts`.  Bounds: `MaxClock` (instants of the clock),
`MaxResets`, `Grace` (how long a finished quick exam is kept out of the archive),
`Extension` (units per extend) and the sizes of the sets.

### `lifecycle_safety` and `lifecycle_live`

| Run | Instance | Checks |
|---|---|---|
| `lifecycle_safety` | one advance and, beside it, one of three parts; about 2.0 million states in two and a half minutes | `TypeOK`, `CopiesAreCurrent`, `StartedRecordStartedInSnapshot`, `EndedRecordEndedInSnapshot`, `PausedIsStarted`, `ArchivedHasTimestamp`; `ChangesAreVersioned`, `OverIsFinal`, `HistoryIsKept`, `SaveKeepsLifecycle`, `ArchivedIsFrozen` |
| part `requests` | two requests with every action, one key, a formal exam, clock to 2 | |
| part `starts` | one request, two starting instances, a formal exam, clock to 3 | |
| part `saves` | one save with every kind of base and edit, one request without a key, one reset, a quick exam with a subject in two windows, clock to 2 | |
| `lifecycle_live` | a quick and a formal exam, one advance, one request (pause, resume, end, copy), one reset, fairness; about 153 thousand states | `CopiesAreCurrent`, `OneExamPerTransaction`, `DueExamsStart`, `DueExamsEnd`, `FinishedQuickExamsAreArchived` |

A behaviour of `lifecycle_safety` chooses its part at the start (`PartSpec`), so the state space is the
sum of the parts, and every property is checked in all of them.

*Why these bounds.* A window of one unit starting at 1 and a clock to 2 leave room to
act before the start, during the exam and after its end, and a clock to 3 after an extension too.  One
advance process is called again and again and interleaves with the others at every
statement; two advances at once meet in `start_logged_twice`.  Two requests are enough for a
race on a version, a race on a key, a retry, and one action overtaking another.
Two exams are needed where the loop over rows and the rest of the document matter
(`lifecycle_live`), and one elsewhere, since the rules look at one exam at a time.  Two
instances starting can hold two different old documents.  Every action fires in some
passing run: `CommitCopy` and `LoseCopy` in `lifecycle_live`, the saves in the part
`saves`, `SkipRow` and `ResetData` in both, the cold starts in the part `starts`.

Symmetry over workers, requests and instances is used in `lifecycle_safety`,
where these sets are interchangeable, never with liveness.

### `client_saves`

About 463 thousand states in three minutes.  A behaviour saves, or reads, from beginning
to end; the two share no variable.

*Saving.*  The document has exams and alerts (two domains with a revision, two parts in one
of them); the user makes up to two edits at any moment, other people one; up to two mishaps (a lost request or
answer, a refusal, a reload, a return online, an overview read, a closed classroom tab), and of
these edits and mishaps at most three in one behaviour (`MaxEvents`); pushes wait two deep.  Two edits
are needed for a newer entry to meet an older save, one foreign edit for a conflict, one mishap for each way in
which an answer goes missing and a second for a reload after it.  All four events together (5.8
million states) are too many for the liveness properties; the invariants were checked with them
as well, and the theorems have no bound.

`ReportedWasStored` says that "saved" is told of stored edits only.  `RestedEditsAreKept` says
of an edit made `AtRest` that it is in the outbox until the server has stored it or its part is edited
again.  At rest means that no push waits and no flush is under way, and that a push under way is one of
an entry, which the edit replaces: the saves that could put an older document into the entry's
place are those that began before the edit and do not notice it.  Later edits, pushes and flushes come when they like.
`EditsArrive` says that such an edit gets to the server, with three exceptions stated in it: a newer edit of
its part, a refusal for good, and a snapshot that is `Outdated`.  The last one is a livelock of the code: after a
partial save the stored snapshot has the server's version and an old revision of a domain others
changed; a later save of that domain is refused, and every retry
takes its base from that snapshot again (`examService.ts:445`) until it is re-read.

For edits made at other moments the outbox does not keep its promise: `edit_overwritten`
shows it, below.

*Reading.*  One domain with a revision and the rest, one screen, one panel, three versions, one
fault.  `KeptIsWhole`: though put together from partial answers, the stored snapshot is
one the server had.  `ScreensCatchUp`: polling alone brings a screen to the last document, except
when a body broke off after its headers (`EtagAhead`): then the browser holds the ETag
of a document it does not have, and polls are answered 304 until the next write or forced read, although
`useExamSync.ts:44` counts on the fallback poll.  What a screen *shows* may be a mixture for a moment,
when an answer laid over a newer stored snapshot is shown under its older version.

*Fairness.*  Debounce timers fire, a request under way ends with an answer or a timeout, an open
classroom tab flushes and a screen polls on a timer: weak fairness of each.  Mishaps are bounded and
nothing has to happen that a user or an administrator does.

### `server_components`

About 569 thousand states in three minutes.  A behaviour picks one of the seven components and
runs it alone, so that the state space is the sum and not the product of theirs; the components
share no state.

| Component | Instance | Checks |
|---|---|---|
| mails | two mails to one address, two drains, one fault (a drain that dies or an answer of the mail server lost), codes that count for three minutes, rows stale after one, attempts one and three minutes apart | `OneDrainPerMail`, `MailsAreCounted`, `MailsKeepPromise`; `MailsSettle` |
| bundles | one bundle, two workers, a lease of two minutes, two faults (a crash or a delay beyond the lease) | `SettledIsFinal`, `BundlesKeepPromise`; `BundlesSettle` |
| backups | a backup and a restore, a lease of two ticks, two writes of the application | `RestoreIsProtected` |
| commands | two commands, two heartbeats under way, one lost answer, dead handler or reload | `AcknowledgedWasRun`, `NoReportOverwritten`, `CommandTransitions`; `CommandsSettle` |
| pairings | two devices, two classes, one plugin, two binding requests that may overlap (one of which may die), two polls | `RoomHeldOnce`; `PairingsSettle` |
| write queue | four writes with two keys and two priorities | `WaveCoversPending`; `WriteOrSuccessorSent` |
| receipts | three announcements of which one may be erased, batches of two, two flushes, three showings, one fault | `ReceiptsArrive` |

`TypeOK` is that of the component that runs.  Two of each actor is what the races need: an outcome written late
over a newer attempt, a claim that changes hands, a stale copy written back, a batch answered while
another is under way.  A third write of the same key makes superseding happen twice, a fourth
lets another key run in between.

`MailsKeepPromise` and `BundlesKeepPromise` are refinements: both queues implement `JobPromise`
(`INSTANCE ... WITH`), in which workers, claims, leases and crashes do not exist.  A row that is
pending, or failed with tries left, is a job that waits; a row being sent is a job that is taken; an outcome
either sends it, counts exactly one more try, or drops it, and it may be dropped only after the last try or when it is
no longer wanted: the code of the mail is used or expired, the bundle is over its retention.  One step may
move many jobs, as one `UPDATE` does.  The promise speaks of rows.  What the recipient gets is `MailsAreCounted`: a
mail written down as sent was taken by the mail server, and the server takes it once, but for each drain that died after
the server took it and each answer that was lost.  After such a fault the mail is sent again, and its code
may still count: in the run, a job left behind is due again before its code has expired.

Limits stated in the properties: `RestoreIsProtected` excepts a lease that ends during the (at
most ten seconds') wait for the table locks, since `applyRestore` reads its clock before; `RoomHeldOnce` excepts
a class that two binding requests had looked at while both were yet to take it (`contested`), and
`class_held_twice` shows what becomes of such a class; `ReceiptsArrive` supposes that
announcements the server does not know do not fill a whole batch.  A command may be carried out twice (after
a reload, or from a late `temporary_command`), so "at most once" is not claimed; nor is it settled in one way
only: a command whose fallback was lost expires.

*Fairness.*  `Goes`: a request or drain that has begun takes its next step or dies by a counted fault
(WF for each slot).  `Begins`: cron workers, the heartbeats of an open page, polls and the dispatcher of the
queue come again (WF).  `Passes`: minutes pass, and a request that stored a command goes on to its second
statement (WF).  `Recurs` is strong: an attempt that is made again and again, each time with the
chance of another outcome (a send refused by the mail slot, a poll of a plugin
between the steps of others), is made whenever it keeps being possible.

### Runs that expect a violation

Eight runs look for a disagreement between the code and what it says of itself, and TLC
finds each; `PROJECT.json` quotes the sentence under "findings".

| Run | Property violated | What happens |
|---|---|---|
| `replay_of_conflict` | `ReplayMeansDone` | An action with a key that lost the version race is answered as a replay of a success. |
| `key_applied_twice` | `KeyAppliedOnce` | Two sendings of one key pass the lookup together and both change the document. |
| `archive_left` | `OnlyUnarchiveLeavesArchive` | An action planned on an older row takes the record out of the archive. |
| `start_logged_twice` | `AutoStartLoggedOnce` | Two advances both log the start of one exam. |
| `rejected_projection` | `NoDrift` | A refused save projects an older document over a newer record. |
| `silent_revert` | `SavesCarryOwnEdits` | A page reloaded with an edit pending fetches a newer snapshot, pairs its old document with the new version and undoes another administrator's change without any conflict. |
| `edit_overwritten` | `EditsAreKept` | A classroom tab flushes edit 1; edit 2 is made in the admin tab during the request; the request meets a conflict with somebody else's edit, and the flush queues the merge of the entry it had taken up over that of edit 2 (`examOutbox.ts:340`).  The retry is stored and clears the entry, the admin page is reloaded before its push: edit 2 is nowhere. |
| `class_held_twice` | `OneDevicePerClass` | Two binding requests look up the holders of a class, then both take it. |

`EditsAreKept` is a refinement: `kept` of `OutboxPromise` is the latest edit of a part in any document of the
browser (settings, draft, timer, waiting pushes, outbox) that is not stored.  TLC finds no violation without a mishap:
as long as the page lives, its own push brings the edit back.

`CHECK_DEADLOCK FALSE` stands where the processes are finite and the model stops when all are
done: runs without an advance, and those of the client and of the other components.

*Fairness of the lifecycle.* `Tick` is weakly fair: time passes.  Each handler that has begun runs to its
end (`WF` of its steps): the server does not abandon a request.  `Advance` is strongly
fair.  Lists and details of exams call `advanceExamLifecycle`, and so in effect does every
heartbeat of a classroom that shows no exam, once a minute; strong, because a
worker that handles a heartbeat meanwhile is not ready to take another call, and such heartbeats
must not starve the full ones.  Where no idle classroom
and no administrator's page is connected, nothing would start an exam; the code
has no other trigger, and the liveness properties say nothing about that case.  Requests, saves,
resets and starts of instances need not happen.

The liveness properties say that a due exam does not stay due: it is started (ended,
archived), or someone moves, ends or removes it, be it by a reset.  They hold although any transaction
of the advance may lose its version race, since each lost race means that somebody
else made one of finitely many writes.

*Mutants.* Next to the definitions they change stand operators with a comment that begins
"Mutant:".  They are plausible mistakes and show that each property can fail.

## 4. What is proved

The constants are arbitrary sets, finite or not, and the bounds arbitrary numbers, under the
named assumptions of each module (`Null`, `None` and the other markers of absence are not values of
anything else, the actions and bases are those of the code, bounds are natural numbers).

| Theorem | Statement |
|---|---|
| `InductiveInvariant`, `TypeCorrect` | `Spec => []IInv`, `Spec => []TypeOK` |
| `ChangesVersioned` | `Spec => ChangesAreVersioned` |
| `CopiesCurrent` | `Spec => []CopiesAreCurrent` |
| `OneExam` | `Spec => OneExamPerTransaction` |
| `HistoryKept` | `Spec => HistoryIsKept` |
| `ArchiveStamped` | `Spec => []ArchivedHasTimestamp` |
| `SavesKeepLifecycle` | `Spec => SaveKeepsLifecycle` |
| `ArchiveFrozen` | `Spec => ArchivedIsFrozen` |
| `EndedInSnapshot`, `OverFinal` | `Spec => []EndedRecordEndedInSnapshot`, `Spec => OverIsFinal` |
| `PausedStarted` | `Spec => []PausedIsStarted` |
| `StartedInSnapshot` | `Spec => []StartedRecordStartedInSnapshot` when no save is blank |
| `SavedWasStored` | `SaveSpec => []ReportedWasStored` |
| `RestedEditsKept` | `SaveSpec => []RestedEditsAreKept` |
| `SnapshotIsWhole` | `ReadSpec => []KeptIsWhole` |
| `ClientsTypeCorrect` | `Spec => []TypeOK` of `MCClients` |
| `MailsAreApart`, `MailsTaken` | `MailSpec => []OneDrainPerMail`, `MailSpec => []MailsAreCounted` |
| `SentIsFinal` | `PostSpec => SettledIsFinal` |
| `MailsArePromised`, `BundlesArePromised` | `MailSpec => MailsKeepPromise`, `PostSpec => BundlesKeepPromise`, the refinements of `JobPromise` |
| `WaveCovers` | `QueueSpec => []WaveCoversPending` |
| `AcknowledgedIsTrue`, `ReportsSurvive`, `TransitionsHold` | `DeviceSpec => []AcknowledgedWasRun`, `[]NoReportOverwritten`, `CommandTransitions` |
| `RestoresAreProtected` | `BackupSpec => RestoreIsProtected` |
| `OneDevicePerRoom` | `PairSpec => []RoomHeldOnce` |
| `SeenIsNotLost` | `ReceiptSpec => []SeenIsKept` |
| `ComponentsTypeCorrect` | `Spec => []TypeOK` of `MCComponents` |

So every safety property that a passing run checks is also proved.

### The lifecycle

`TypeOK` is not inductive.  A transaction writes fields it computes from the row and the
document the handler read earlier, and these are numbers only if the handler read
what it needed: ending an exam adds `endAt` and `pausedMs`, which `TypeOK` allows to be
absent.  `IInv` adds what the guards established and nobody can undo while the handler runs:
every row an advance still has to handle was due when it was selected (`RowsDue`), a request that has
passed `ReadRecord` holds a row that permits its action, one that has passed
`ReadForAction` holds a document that contains its exam (`Planned`), and rows never leave
`exam_records`.

`CopiesCurrent` is the heart of the optimistic concurrency.  Its induction has two cases.
Somebody else's step either leaves the document alone or makes the version larger than
any version a handler can hold, by `ChangesVersioned`.  The handler's own step, inside
the loop over due rows, replaces its copy and its version together, or neither; that the
version equals the current one was the guard of the transaction.  With it, a
transaction that passes its guard writes the stored document changed in one place,
which is `OneExam`: no commit of the advance or of an action loses somebody else's write.

`HistoryKept` and `ArchiveStamped` need no invariant beyond `IInv`, for a reason that is
itself worth knowing: every writer of a row (the system, an action, the
projection of any document, however old) only adds to what the row says of starts and
ends, because each goes through `COALESCE`, and stamps what it archives
(`RowsKeep`).  So the order of late projections does not matter.

`SavesKeepLifecycle` and `ArchiveFrozen` rest on `SInv`, the analogue of `CopiesCurrent` for clients.
While a client edits, its copy is the stored document if the guard of its save still matches;
once the server has sanitised what arrived, the result respects the running state and
the archive of the stored document (`Respects`), if the guard still matches.  Versions and revisions grow with every
change, so a guard that stopped matching never matches again.  The client may drop any of the fields older clients
do not know.  A save with base 0 matches everything, and the two properties leave it out: it may overwrite what came before.

The last four theorems relate records to a document that several handlers rewrite and project from
copies of any age.  Their invariant `TInv` adds to the two above one statement about all of them,
`Story`: whatever a row says, or a copy of the document that somebody will still project
(`Late`: a rejected save, a lost action, a starting instance), the stored document says too (`Told`).
It survives every step for these reasons:

- a writer of the document only adds to what it tells, because its copy is the stored one
  (`CopiesCurrent`) and its patch only adds, or because the server put the running state back
  (`Respects`); a copy that becomes late at this moment is the stored document itself;
- an exam that is new in the document is one nobody has told of.  For a copied exam this
  is the fresh identifier; for a save it must be carried from the read to the write (`Creates`): until
  the guard of the save stops matching, no row and no late copy can come to hold its new exams;
- a save with base 0 (`Blank`) overwrites whatever is there when it is written.  Its client had nothing, so of the
  stored exams it carries only those the server put back into it, the archived ones, as they were when it
  arrived; and the document archives only what has ended (`MajorSound`).  Anything else it carries it created,
  and as its guard never stops matching, that stays unknown to everybody, other saves included (`BlankSound`);
- an action writes the row from a plan made on an older row, and an advance from the row it found due.  The row
  has only gained since (`Recalls`, `DueKept`), so an archive finds the end.

`OverFinal` needs more than the rows: publishing writes `published` over a row that may have ended since
the plan.  But then the document tells of the end, by `Story`, and the projection in the same
transaction restores the status.

`StartedInSnapshot` alone has the premise that no save is blank, and TLC shows that it is needed.  A blank save
arrives and keeps an archived exam that was ended without ever having started; a pause planned while
the exam was live commits now and backfills the start in row and document; then the save is written and puts
the archived exam back as it was.  Row and document disagree about the start, of an exam that is over: `Told`
says exactly this much.

`PausedStarted` must get by without that: a pause backfills the start only where the row it was planned on lacks
one, and adds none to the document otherwise.  Its invariant `PInv` says of every exam that is still live that
its start in the row, in a late copy or in a planned row is in the document (`LiveTold`, `StartKnown`), and of what a blank
save puts back that the exam is over in the rows (`PutBackSound`, `Shelved`), where no plan made
on a live row can find it without its start.

### Saving and reading

*What a browser believes.*  The invariant of `SaveProtocol`, `SaveIInv`, says of every copy of the stored
document (the snapshot, the base and baseline of a save, the base of the outbox entry, an answer on its way)
that it was the stored document once: its edits of the user are stored and neither its version nor a revision
is ahead of the server's (`Copied`).  Of a save it says that its answer is true (`Answered`).  The case that needs
both is a save that sends only the domains that differ: what it leaves out equals the base, and the
base is such a copy.  `SavedWasStored` follows, also for the save skipped because nothing
differs and for the conflict taken for the lost answer of an own save.

*What the outbox keeps.*  `RestedEditsKept` has the invariant `RestIInv`: until an edit made at rest is stored
or replaced, every document of the browser that may still be saved, merged or queued has it (`Carried`): the draft, the
settings, the entry, the timer, the waiting pushes, the flush.  So whatever is stored, merged or
given up takes the edit with it or leaves it in the entry.  The hard case is a push that began before the edit.  Its
document lacks the edit, and it must find its entry replaced when it ends; it does, because the entry
has a new time of saving, and no flush holds an entry of the old one that a failure
would put back (`Superseded`, `NewTimeIsNew`).  Later edits need no rest: they start from the draft, which has the
edit, so every document they bring into being has it too.  A merge keeps the edit because the base does
not have it, being stored (`MergeCarries`).  `edit_overwritten` shows that the condition cannot be dropped:
there the edit is made during a flush.

*Reading.*  Revisions never go back, so a domain that an answer leaves out is either the same in the
stored snapshot, or the stored snapshot is newer and the answer is dropped (`SnapshotIsWhole`).

### The queues

The three queues read rows in order and keep some of them.  `Select` in `Selections` is written as a
recursive function of the position and a set of positions, because `SelectSeq` takes an operator as a
parameter and the provers have no lemma about it.  Its own lemmas are at the top of `QueueProofs`: what is selected are
elements of the sequence, at chosen positions, in order (`SelectPicks`), and two complementary selections
together have the length of the whole (`SelectSplits`).  The induction over the length is a
well-founded one over a set of numbers, not the library's induction theorem.

- `MailsAreApart`: a drain only holds jobs that are `sending`, once each, and no older than the drain itself
  (`DrainHolds`, `DrainDistinct`, `DrainsApart` in `MailIInv`).  A row becomes stale only after the drain that claimed it
  has ended, because SMTP timeouts are shorter than `STALE_SENDING_MS`, so what is recovered is nobody's.
- `SentIsFinal`: the request that uploads a bundle writes its first result by the id alone.  In `PostIInv` that
  request holds its row within the first lease (`FirstHolds`), so no drain has claimed it; every later result
  names the claim, and a claim that changed hands matches nothing.
- `MailsTaken`: a mail is taken once more than there were faults only while its drain is about to write `sent`, and then
  the row says so (`MailedOf`).  As the drains are apart, no other drain mails it in between, and a job that is
  sent is never claimed again.
- `MailsArePromised`: an outcome of a mail is written by id alone, with the count of attempts that the drain read
  when it claimed the job.  `CountsHold` says that this count is still that of the row: while a job
  is held nobody else writes its attempts, since the drains are apart and what is recovered is nobody's.  `TriesLeft` adds
  that a job that is open has a try left, so the count of the last one cannot pass the limit.  With them, each action
  moves each row as `JobPromise` allows, and only an insert makes a job wanted.
- `BundlesArePromised`: here a worker may outlive its lease, so its count is true only while the row carries its
  claim (`ClaimCounts`), which is what the `WHERE` of every later outcome asks for.  The request that uploads
  writes by id, but holds its row with no attempt made (`FirstHolds`).  `BundleTries` says that a row being sent has a
  try left, whoever claimed it.
- `WaveCovers`: what waits or is under way was counted when it entered, and the count is only reset when
  nothing is pending.  A replaced write leaves the queue and stays in the total, so the progress may cover more than is
  pending, never less.

### The other components

- `AcknowledgedIsTrue`, `ReportsSurvive`: a heartbeat carries what the page has carried out
  when it is sent; the server settles what a heartbeat carries, statement by statement, before it hands anything out
  (a handler that dies before that hands out nothing), and the page waits for one heartbeat at a time, so the slot is free, or its content settled, when the next command arrives.
- `RestoresAreProtected`: while the row names a restore and its protection lasts, the trigger keeps
  everybody else from writing, so the file holds what the tables hold; a task that lost the row
  never gets it back.
- `OneDevicePerRoom`: what a request found out about the holders of its class stays true until it is used
  (`KnowsHolders`), because only a request that claims the class brings a device into it, and a class
  that two requests claim is contested from then on (`ClaimsContest`).  A request that dies leaves the class to
  nobody or to one device; polls and heartbeats write no device's class.
- `SeenIsNotLost`: what was on screen waits in the buffer, is counted, or is unknown to the server.  A batch
  leaves the buffer as a whole when one of its announcements counts.  Nothing is lost, because the batch was recorded in
  one statement and an announcement, once gone, stays gone (`Counted`).  It is the safety half of
  `ReceiptsArrive`, which needs the premise on the size of a batch; this one does not.
- `ComponentsTypeCorrect`: a step of `MCComponents` is a step of one component and stutters in
  the others (`ComponentsStep`), so the invariants of all seven hold in every behaviour.  Two of them exist for the
  types alone: `PairTypeOK` is not inductive, a poll copies the class of the device it named, so it must name one
  (`NamesViewer`, `PairedToViewer`, also with binding requests that overlap); and the buffer of receipts is bounded
  because no announcement was held more often than all were shown.  `ClientsTypeCorrect` does the same for `MCClients`.

### Only model-checked

The liveness properties, since fairness and ENABLED are out of the prover's reach: `DueExamsStart`, `DueExamsEnd`,
`FinishedQuickExamsAreArchived`, `EditsArrive`, `ScreensCatchUp`, `MailsSettle`, `BundlesSettle`, `CommandsSettle`,
`PairingsSettle`, `WriteOrSuccessorSent`, `ReceiptsArrive`.

## 5. What is not modelled, and what comes next

Not modelled, and why: the user interface, rendering and static files, which are most of the
repository's lines (no state shared with others beyond what is modelled); logs, telemetry and platform
usage (sinks and polling); cryptography of sessions and tokens; the lockout of logins, which promises nothing about
attempts that overlap; time control and the dashboard (a single counter, read-only views); the C#
program, of which the server sees only the requests.

Hazards without a property, with the reason in `PROJECT.json`: the steps after the commit of a
save, the exam that a copy which loses its key race leaves in the snapshot, a restore that sets versions back when
clocks of two machines differ, a write that never settles, the login lockout, and the two that are exceptions of a property
(the retries of a save on an outdated snapshot, the end of a lease while a restore waits for the tables).
Others are caught in part; the note says which part is not.

Next, most important first:

1. The reminders of exams (`useExamNotify`, the plugin's `ExamSyncService.cs`), the lease of time
   synchronisation (`utils/timeSync.ts`), and the flights of reads shared within a tab.
2. `handleExamDataPost` with the creation lock and scopes, as a second author of one document.
