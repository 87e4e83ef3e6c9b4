# A verification project for the in-app updates center

The repository is a Rust service (axum, tokio, sqlx on PostgreSQL) that hands
Android releases to a fleet of point-of-sale devices, keeps the directory of
the sites they belong to, and offers those devices a few services of their own:
reading a pump's meter from a photo, and two append-only logs.  This directory
holds TLA+ modules translated from that code, the TLC configurations that check
them on small instances, and proofs that TLAPS checks for every size.

1. [The system](#1-the-system)
2. [The modules and the code](#2-the-modules-and-the-code)
3. [The runs](#3-the-runs)
4. [Fairness](#4-fairness)
5. [What is proved](#5-what-is-proved)
6. [Where the code and its documentation disagree](#6-where-the-code-and-its-documentation-disagree)
7. [What is abstracted, and what is not modelled](#7-what-is-abstracted-and-what-is-not-modelled)
8. [Plan](#8-plan)

Paths below are relative to the repository; line numbers are those of the
commit the models were written from.

## 1. The system

One process, one tokio runtime.  Every request is a future of its own; between
two `.await`s a handler runs alone, at an `.await` any other handler may go on,
and when its client closes the connection axum drops the future where it waits.
Handlers share nothing in memory: what they share is the database (a pool of
ten connections), the directory of the APK library, and the environment.  No
handler opens a transaction, so each SQL statement is the unit of atomicity.

| component | state | operations | what is hard |
|---|---|---|---|
| **APK library** `src/apk_library.rs` | directories `<id>` and `.upload-<id>` of `APK_STORAGE_DIR`, each with `app.apk` and `release.json`; signed tickets that live outside the server | make a ticket, upload, download, list | the same ticket used concurrently; a handler dropped, a process killed or a file operation failing in mid-upload; readers meeting half-written releases |
| **Meter OCR, /read** `src/meter_ocr/operations.rs` | table `meter_ocr_fallback_calls` (one row per call), the companies table | check the company and its daily cap, call Gemini with two layers of retries, log the call | the cap is checked long before the row that counts is written; retries multiply, with a flag carried between them; clients that give up |
| **Meter OCR, baseline and /confirm** same file | tables `pump_reading_state`, `pump_reading_audit` | compare a reading with the last confirmed one; record a confirmed reading | two statements without a transaction; confirmations overtaking each other; the wrap of the sale counter |
| **Releases** `src/configuration/operations.rs` | table `releases`, two partial unique indexes | create, edit, delete, deliver to a device, list by page | blank, missing and NULL fields against SQL's three-valued logic; paging while others write |
| **Companies** `src/companies/operations.rs` | table `companies` | create, edit, delete, search and list by page | paging by a sort key that is not unique; PATCH against POST validation |
| **Telemetry** `src/telemetry/pings.rs`, `device_inventory.sql` | table `app_pings`, append-only | ping, two lists, summary, device inventory, CSV | overlapping inserts, whose times, ids and commits come in different orders; answers put together from several queries; a fix and an activity of different age |
| **Bulk milk log** `src/bulk_milk_log/submissions.rs` | table `bulk_milk_submission_log`, append-only | log, list, summary strip, CSV | a total queried before its page; a list, its file and the strip that should agree; days that end at 23:59:59 |
| **Authentication** `src/authentication/` | table `users`; JWTs held by clients | sign up, edit, delete, log in, guard | the account may change between the SELECT and the token signed, while bcrypt verifies on the same thread (there is no await in between); claims nobody looks up again; a key that falls back to "change_me" |
| **Set-up** `src/main.rs` | none | routing, panic layer, shutdown | only ctrl-c is graceful |

How they interact:

- The dashboard publishes an APK through the library, then creates a release
  whose `file_link` points at it.  The two are not tied together in the code:
  the link is text.
- `GET /configure` decides, by the company and ABI a device reports, which
  releases it sees; `/meter-ocr/read` looks the same pair up in `companies`.
- `/read` reads `pump_reading_state`, which only `/confirm` writes; the daily
  cap counts the rows `/read` itself wrote in the last 24 hours.
- The guard (`require_auth`) stands before every admin route and shares with
  the components only the claims it puts in the request.

What makes each component correct:

- **Library**: a visible release is whole, whatever failed; a published id keeps
  its APK for ever; two uploads never mix; the bytes downloaded are those
  `release.json` describes; the listing never fails on an upload in progress; a
  rejected upload frees its id; a 409 tells the truth.
- **/read**: the calls the COUNT let pass keep the cap up to the number of
  requests in flight; at most four POSTs, each for a stated reason; every
  request is answered with the kind of the last failure.  That every call has a
  row is documented and does not hold (section 6).
- **Nozzle**: only confirmed numbers become the baseline; a success answer
  means an audit row; a right read raises no false alarm; a misread that nobody
  reviews is off by a bounded number of litres.  That the baseline is the latest
  confirmation is documented and does not hold (section 6).
- **Releases**: a release reaches the devices its author named, through any
  sequence of edits; two releases of one version have different audiences; a
  client that pages misses nothing that stayed in its view.
- **Companies**: the pages together are the directory, or what the search
  finds in it; required fields stay filled.
- **Telemetry**: the inventory has one card per device and company, which says
  what a registry kept up to date ping by ping would say, and never goes back;
  the parts of a summary, queried one after the other, fit together.
- **Lists of the two logs**: who reads to the last page has seen what was
  there, up to the rows a total came too early for; the file has what the
  screen had; the strip and the list behind it agree.
- **Authentication**: a session belongs to who typed the account's password;
  what a session claims is out of date for a bounded time; a deleted account is
  locked out in the end.

`PROJECT.json` lists every hazard of this kind with its line and the properties
that would catch it going wrong.

## 2. The modules and the code

### ApkRegistry and ApkLibrary (`src/apk_library.rs`)

`ApkRegistry` is what the library promises: a write-once catalogue from ids to
APKs, and the set of promises made to clients.  `ApkLibrary` is the code.

| variable | code |
|---|---|
| `staging[id]`, `published[id]` | the directories `.upload-<id>` and `<id>`; a record of the two files, each `Absent`, `Torn` (created or half written) or whole |
| `issued`, `tickets` | ids of the upload tickets made, and the tickets not yet expired |
| `up[h]` | the upload handler: where it awaits (`pc`), the ticket's id, the text fields received, `file_info`, and whether the client has gone |
| `downloads`, `listing` | downloads between `metadata` and `File::open`; directory entries the listing has still to read |
| `promised` | history: what a 201 or a finished download told a client |

`pc` follows `upload` and `save` from await to await:
`mkdir` (`create_dir`), `body` (the next field), `apk` (chunks), `manifest` and
`writing` (the two halves of `fs::write`), `rename`, `reply`, `cleanup`
(`remove_dir_all`).  Three kinds of failure are switched on by `Failures`:

- `hangup`: the handler is dropped.  Where it awaited a file operation, that
  operation is already with tokio's blocking pool and still completes, which
  `dropped` models: the operation's effect happens, nothing after it does.
- `crash`: the process dies and starts again; disk and tickets remain.
- `io`: a file operation fails (`map_err(internal)`), the clean-up included.

### MeterRead (`meter_ocr_read`, `call_gemini`, `send_with_retry`, `ReadLog`)

`rows[c]` and `free[c]` are the log rows of company `c` inside the 24-hour
window: of requests that the COUNT let pass, and of requests let in by a COUNT
that failed (`unwrap_or(0)`).  The code's COUNT sees their sum (`CountedRows`);
the model tells them apart so that a property can.  `Age` takes a row out.
`rd[r]` is a request: `lookup`, `count`, `send`, `log`, with the two loop
counters (`round` of `call_gemini`, `attempt` of `send_with_retry`), the flag
`last_was_rate_limited` (`limited`), the outcomes of its POSTs (`trail`) and the
kind of answer.  Each POST comes to any member of `Outcomes`.  `FailSend` is the
`continue` of the loop, which sets the flag; `SendExhausted` is the code after the
loop, which reads it; `SecondRound` starts `send_with_retry` anew, with its
flag; `CallEnds` and `NoCall` are the other ways out.  A failed company lookup is
a 400, a failed log insert is ignored, a hang-up ends a request at any await.

### MeterNozzle (anomalies and `meter_ocr_confirm`)

One nozzle with its true counters (`meter`), the baseline `row`, the `audit`
trail and, per device, the request it is at.  The sale count is kept without
its wraps; `Shown` is what the display has left of it, and the anomaly rules
work on what is shown.  A read returns what the photo shows or one of `Misreads`,
with either number possibly missing.  A confirmation is the audit insert, then the upsert
with COALESCE; each may fail or be cut off, and a device without an answer may
send the same confirmation again.

### Releases (`src/configuration/operations.rs`, migrations 003 and 004)

`table[id]` is a row or `Null`, with `asked`, the body it was last written from,
as history.  `Clean` is the handlers' `filter(|s| !s.trim().is_empty())`, `Clash`
the two partial unique indexes, `Delivered` the WHERE clause with SQL's `NULL`.
`NOW()` is the time an INSERT began: `CreateRelease` takes any time up to the
clock, so that releases commit late and share a time, and `Pages` is the set of
pages that `ORDER BY created_at DESC` alone allows.

`scan` is a client reading the list page by page; each page is two queries with
other requests between them.  `owed` is what it has still to be shown: the
releases that were in its view all along and on none of its pages.  A write
that takes a release out of the view or gives two the same time (`Disturbs`)
clears it, since paging by OFFSET can then promise nothing.  `CountFails` is the
COUNT whose error the handler drops: the page says `total_pages` 0, and the client
stops.

### Companies (`src/companies/operations.rs`, migration 002)

`sites[id]` is a row; a name stands for the sort key `(site_name, branch_)`.
`Pages` is the set of pages the ORDER BY allows: rows with equal keys come in an
order PostgreSQL chooses anew for each query.  A search is the set of names
and pairs its text occurs in; `Found` is the ILIKE over three columns
(`site_name`, `branch_`, `company_url`), used by the page and by its total alike.
`CountFails` is as in `Releases`.

### LogTable, FleetRegistry and Fleet (`src/telemetry/pings.rs`, migrations 001, 005 and 009)

`LogTable` is what the two logs are: `rows`, the sequence `lastId`, the
database's `clock`, and `running[h]`, the INSERT of handler `h`.  `Begin` takes
the time (`NOW()`), `DrawId` the id, `Commit` shows the row to others, `Lose` is
a failure: three orders that differ when inserts overlap.

`FleetRegistry` is what the device inventory promises: cards kept up to date by
one `Report` per ping.  `Fleet` is the code: `FixOf` is `post_telemetry`'s rule
that half a position is none, `Latest`, `Gps` and `Inventory` are the subqueries
and joins of `device_inventory.sql`, and `ReadTotals`, `ReadCompanies`,
`ReadVersions` the three queries of `get_telemetry_summary`.  `summary` holds
the answer as it grows, with `missed`, the rows committed since its first query.

### AuditLog (the lists of `pings.rs` and `submissions.rs`)

One module for `GET /telemetry`, `GET /telemetry/log` and `GET /bulk-milk-log`,
which differ in their fields, their filters and the order of their two queries
(`CountFirst`); `table` says which log the behaviour is about.  `Slices` is what
`ORDER BY ... LIMIT ... OFFSET` may return where times are equal.  `from` and `to`
are texts: a day, a time, or one that is blank or unreadable and sets no limit
(`IsLimit`); `FromTs` and `ToTs` are the handlers' reading of the others.  `scan` is an administrator going
from page to page and exporting what is on the screen, `strip` the summary of
the bulk milk page (`SubmissionOf` is the POST's counting of records and
litres).

### Accounts (`src/authentication/`)

`users[id]` is a row (kept as history after its deletion), `tokens` the JWTs in
the clients' hands, `req[h]` the request at its await: `verify`, between the
SELECT of `login` and the signature, with the row it read; `admin`, past the
guard.  `Tick` is time: it takes from a token's life, ages requests, and counts
in `stale` for how long a claim has no longer been true.  `secret` is
`JWT_SECRET` of the running process and `Key` what a token is signed and verified
with, the fallback "change_me" included; `Restart` starts the server anew, with
the same secret, another one or none.

### MC modules and proofs

`MCApkLibrary`, `MCMeterRead`, `MCMeterNozzle`, `MCReleases`, `MCCompanies`,
`MCFleet`, `MCAuditLog` and `MCAccounts` give the constants of the .cfg files
names.  `ApkLibraryProofs`, `MeterReadProofs`, `MeterNozzleProofs`,
`ReleasesProofs`, `FleetProofs`, `AuditLogProofs` and `AccountsProofs` hold the
theorems, each about the module its name begins with; `SumTheorems` has the facts
about sums over finite sets that three of them cite.

A module states its variables' types as `TypeOK`.  `ApkLibrary`, `MeterRead` and
`Accounts` have it checked and proved, `MeterNozzle` and `Fleet` proved; in the
others it documents the state.

Operators introduced by a comment "Mutant" are wrong versions of the definition
that follows them.  They are used by no specification; `PROJECT.json` names the
one that breaks each property, which shows that the property depends on that
line of the code.

## 3. The runs

| run | properties | what it shows |
|---|---|---|
| `apk_library` (`MCApkLibrary.cfg`) | `TypeOK`, `PublishedComplete`, `PromisesKept`, `OneOwner`, `StagedAsReceived`, `DownloadMatches`, `ListingReadable`, `ImplementsRegistry` | Three handlers share one upload ticket while the server crashes, clients hang up and file operations fail: releases are whole, promises last, the staging directory is a lock, and the library implements the write-once catalogue. |
| `apk_live` (`MCApkLive.cfg`) | `CleanupFrees`, `ValidUploadSettles` | With clients that hang up and a disk that works, a rejected upload frees its id and a complete one is published. |
| `apk_conflict` (`MCApkConflict.cfg`), ends in a violation | `ConflictMeansRunning` | A client that hangs up in mid-upload leaves its staging directory; the retry is told that an upload is running when none is. |
| `meter_read` (`MCMeterRead.cfg`) | `TypeOK`, `CapOvershoot`, `RetryBudget`, `RetriesJustified`, `RateLimitedLast`, `EveryReadAnswered` | Two requests of two companies that share a prefix race past the cap, through both layers of retries, with failing queries, clients that go away and rows that leave the 24-hour window: the calls the COUNT let pass stay below the cap plus the number of requests, at most four POSTs each, none without a reason, the right kind of answer, and always an answer. |
| `meter_calls` (`MCMeterCalls.cfg`), ends in a violation | `EveryCallLogged` | A client that hangs up after its POST failed, between two attempts, leaves a call without a row. |
| `nozzle` (`MCNozzle.cfg`) | `BaselineAudited`, `AckedAudited`, `AlarmsJustified`, `QuietReadsClose` | Two devices on one pump over more than one lap of its display, a model that misreads, failing queries, hang-ups and resends: the baseline only ever holds audited numbers, a success answer has its audit row, a right read raises no false alarm, and a misread nobody reviews is off by a bounded number of litres. |
| `nozzle_latest` (`MCNozzleLatest.cfg`), ends in a violation | `LatestBaseline` | Two devices confirm, and the older confirmation's upsert comes last: the baseline is not the latest value, though nothing has failed. |
| `release_scopes` (`MCReleaseScopes.cfg`) | `DeliveredAsAsked`, `NoTwins`, `ScanComplete` | Releases created, in overlapping INSERTs that commit late or share a time, and edited with blank, missing or given fields reach exactly the devices asked for, the unique indexes tell apart exactly the releases with different audiences, and a client that meanwhile pages through its view to the last page misses none that stays in it, if none leaves it and no two have the same time. |
| `company_scan` (`MCCompanyScan.cfg`) | `ScanFindsSettled` | A dashboard that pages to the end of the sorted directory, or of what a search finds in it, while sites are added and edited, finds every site that stays put, if no two have the same sort key and no count fails. |
| `fleet` (`MCFleet.cfg`) | `CardsCounted`, `FleetHealth`, `SummaryCovers`, `ImplementsRegistry`, `CardsAdvance` | Pings of two companies with one prefix, one device of both, in overlapping inserts whose times, ids and commits come in different orders: the device inventory is the registry kept up to date ping by ping, its cards never go back, and the three queries of a summary fit together. |
| `audit_log` (`MCAuditLog.cfg`) | `ScanMissesFew`, `FileHasScreen`, `StripAgrees` | An administrator reads a list page by page, filtered by field, day or time, exports it and compares it with the summary strip while rows are inserted, commit late or share a time, and while queries fail, for the two tables and their three lists. |
| `accounts` (`MCAccounts.cfg`) | `TypeOK`, `SessionsProved`, `ClaimsSettle`, `DeletedLockedOut` | Two accounts are made, edited, deleted and exchange an e-mail while log-ins are between SELECT and signature, sessions are used and the server restarts with JWT_SECRET or without: a session is of the account whose password was typed, its claims are out of date for a bounded time only, and a deleted account is locked out in the end. |

### Bounds, and why they are enough

- **Library.** One id is enough for everything but the interplay of ids, of
  which there is none beyond the handlers (a handler touches only its ticket's
  id); the proofs have any number.  Three handlers: one that works, one
  whose left-over operation is still running, one that meets them.  Two valid
  contents so that a release could be replaced by another one, one invalid.
  One required text field stands for all: the code treats them alike.
- **/read.** Two requests of two companies with one prefix against a cap of
  one: both pass the check, which is the overshoot allowed.  `MaxRows` stops
  new requests of a company at one row, so that each company's rows and, by
  the shared prefix, their sum reach and pass the cap.  Five outcomes stand for
  the nine the code tells apart: each of the classes a decision of the code
  makes (transient and not a 429, a 429, a schema mismatch, another error, an
  answer) has one, and all sequences of them occur.  `meter_calls` has all nine,
  with one request.  The proofs have any numbers.
- **Nozzle.** A display of four numbers and up to four sales: the counter
  passes the wrap, and a drop that counts as a wrap (90 % of the ceiling, rounded
  down) and one that does not both occur.  Two devices with two confirmations
  between them, two litres against a `MaxDelta` of one, and two misreads: one
  of both numbers, one whose sale row is unreadable.  `nozzle_latest` needs no
  failure, no misread and one sale.
- **Releases.** Audiences and clashes are relations between two rows, paging
  needs a third: three rows, pages of one, three times (`MaxClock`), over
  one url, two prefixes and two ABIs, with bodies that give both company fields
  or neither and leave fields out by not naming them or as an empty form; the
  proofs have all bodies.
- **Companies.** Three sites with three names, pages of one, and two searches:
  the empty one, and one that finds some sites by name and some by company.
- **Fleet.** Two inserts at a time and three rows: one that overtakes, one
  that is overtaken, and one to be latest before both.  Two companies share a
  prefix and one device reports for both; the four payloads have a whole fix, a
  fix without accuracy off the globe, half a fix, and a fix on a second device.
  An hour is one tick, a day and a week are two: a device can be active in the
  day and not in the hour, and one that is not active is at the edge of stale at
  once, so that the strict and the weak inequality meet.  Time goes to three.
- **AuditLog.** Days of two ticks, the second being the last second, which the
  first day of the period has behind it; pages of one row and three
  rows, so that rows cross the page boundary; an export of two, so that the cap
  is reached.  The ping lists are filtered by a field, by a day, and by a time
  with an unreadable `to`; the bulk milk list by nothing and by each of the three
  statuses, with a submission of each, one of them without records.
- **Accounts.** Two accounts and two e-mails, which can be handed from one to
  the other; two passwords, and one that sign-up takes and log-in refuses.  A
  token lives two ticks with a leeway of one and handlers may take one: log-in,
  life, leeway and guarded work are intervals of their own, and the bounds of
  `ClaimsSettle` are reached.  One token and one handler, since sessions
  do not look at each other, and one secret beside the fallback; the proofs have
  any number.
- `MCNozzle*`, `MCFleet` and `MCAuditLog` turn the deadlock check off: their
  counters reach their bounds (litres, sales and confirmations; ids and time)
  and the small instance stops there.  No other run does.

Symmetry is used in safety runs only, over values no definition tells apart.

## 4. Fairness

Safety properties are checked under `Spec`, without fairness.  Three fair
specifications exist:

- `ApkLibrary!FairSpec`: weak fairness of `FileOperation(h)`.  tokio's blocking
  pool runs what was submitted to it and the runtime polls the handler that
  waits for it.  Nothing obliges a client to send its body (the code sets no
  timeout), so no property promises that an upload ends.
- `MeterRead!FairSpec`: weak fairness of the queries, of each POST and of the
  insert of the log row.  reqwest's client is built with a 25 s timeout
  (`operations.rs:636-639`), so each POST ends one way or another; that the
  database answers is an assumption about it, not a fact of the code.  A request
  whose client goes away counts as ended.
- `Accounts!FairSpec`: weak fairness of `Tick` (time passes), of `LogIn` (bcrypt
  is a computation and the signature another; neither awaits anything from
  outside) and of `Serve` (the database answers).  `Tick` waits for requests
  that have used up their `Slow` ticks: that a handler is not slower than
  `Slow` is an assumption, for which `Slow` may be as large as one likes.

## 5. What is proved

All of it for any sets of ids, handlers, requests, rows, contents and outcomes.
Of the properties the passing runs check, every one is also a theorem but for
those named at the end of this section.

**ApkLibraryProofs.**  The safety properties are not inductive by themselves:
that a rename publishes a whole release depends on what the handler has done
before.  The invariant `IInv` adds, per handler and phase, what the staging
directory must hold and what has been received (`PhasesEarned`), that a handler
past `create_dir` owns its directory alone (`OneOwner`, with `StagedAsReceived`), and that readers hold
only what is published.  The argument: `create_dir` fails on an existing
directory, so there is one owner; only the owner changes the directory; so at
the rename the two files are the ones the owner wrote; a rename does not
replace a release; nothing ever removes one.  `NextIInv` has a lemma per group of
actions.  From it:

- `TypeCorrect`, `ReleasesComplete`, `PromisesHold`, `StagingExclusive`,
  `StagingUntouched`, `DownloadsServed`, `ListingServed`: the invariants of the
  run `apk_library`.
- `Refinement`: the library implements `ApkRegistry`; `Publish` is `Store`, the
  201 and the end of a download are `Promise`, every other step is a stutter.
- `NothingLeftBehind`, `ConflictTruthful`: under the hypothesis
  `Failures = {}`, which they need (see the run `apk_conflict`).

**SumTheorems.**  A sum is a fold, that is, a recursive function on the subsets
of a set.  That such a function exists, and that its value does not depend on
the order in which elements are taken, would be an induction over data; here
each is shown by looking at a least set for which it fails (`WFMin` of the
library).  From there on sums grow by one element (`SumStep`), are monotonic, and
are the size of a disjoint union when they sum up sizes (`SumOfSizes`).

**MeterReadProofs.**  `RetryInv` relates the loop counters to the trail: with
`round` and `attempt` at hand, the trail is a finished first round that ended
in a schema mismatch (or nothing) followed by a transient failure (or
nothing), and the flag `limited` to its end (`FlagFits`): within a round the flag
stands exactly if the last failure was a 429, and at the start of one it is
down.  Hence `BudgetKept` (four POSTs), `NoIdleRetry` (each POST has one of
the reasons the comments give), `BusyMeansBusy` (the answer `rate_limited`, which
the code takes from the flag, is given exactly if the last POST came to a 429) and
`ReadTypeCorrect`.

`CapHolds`: `CapOvershoot` is inductive as it stands, beside `RetryInv`.  The rows
counted and the requests not counted yet, per prefix, grow together only when a
request passes the check, at which moment the rows alone are below the cap
and the requests past the check are at most all the others; the log insert
turns one of the requests into a row.  Queries may fail and clients hang up:
calls that a failed COUNT let pass are counted by the code's COUNT and not by
the property, which makes the check only stricter; nothing bounds their own
number.

**MeterNozzleProofs.**  That the audit row of a confirmation exists is known
only from where its handler is: the invariant adds `InsertedFirst`, a handler at
the upsert or past it has its row in the trail.  As nothing deletes audit rows,
the upsert then writes audited numbers, and COALESCE keeps those of an earlier
confirmation: `BaselineIsAudited`.  A success is sent only after the insert, and
resends only add rows: `SuccessIsAudited`.

`NoFalseAlarm` and `QuietMisreadsClose` need what a handler with an answer keeps
(`Judged`): its flags are those the rules give for the numbers read and the
baseline they were compared with, and a review is left out only of an answer
without flags and with both numbers.  The rest is arithmetic for every ceiling,
every delta and every misread.  A right read is flagged only if the photographed
counters are before the baseline or further past it than `MaxDelta` litres or
`SaleSlack` sales, the share of the display the 90 % rule leaves, with the wrap in
between or not.  A misread without a review has litres within `MaxDelta` of the
baseline, so of the truth, if the truth is too.  Of its sale number nothing
follows, as section 6 says.

**ReleasesProofs.**  Two facts carry the table through any sequence of edits:
`Written`, every row is `RowOf` of some body, and `Unique`, no two rows clash.
`AudienceOfRow` works out the delivery query over a normalised row for each case
of given and left-out fields, hence `AudienceAsAsked`.  `TwinsClash` shows that rows of one
version with the same, non-empty audience have equal scope and ABI: it needs a
device of another ABI and one of another company, which is why
`AudiencesDiffer` assumes two of each (with one ABI, a release for it and one
for all reach the same devices without clashing).

`PagingComplete` is the invariant `ScanInv`: a release still owed comes after the
pages shown, that is, at least as many releases in the view are newer than it as
rows have been fetched.  That holds of late commits too.  A write that does not disturb the scan keeps the invariant: what
was in the view stays, and an edit keeps `created_at`, so the number before an owed
release never falls, and no write pushes one into the pages already read.
`PageHolds` says that with distinct times a page has every release whose
number of newer ones falls into it.  At the last page the number fetched is at
least that of the view, so nothing can come after it.  Excluded are scans that
are disturbed (a release leaves the view, or two in it have one time) and those
that a failed count ends.

**FleetProofs.**  `TableInv` says of the log table that ids are given once, that
rows have times no later than the clock, and that a running insert's id is that
of no visible row and of no other insert.

- `InventoryIsRegistry`: every committed ping is one `Report` of `FleetRegistry`.
  The latest ping of a device with one more row is the new row or the one before, and
  so are the latest fix and the count; that the step is the registry's is shown
  field by field of the card.  `CardsNeverGoBack` follows from the same lemmas.
- `HealthAddsUp`: the windows only have to be ordered (`WindowsAssumption`).
- `CountsAreCards`: the devices counted per company are disjoint parts of
  the inventory, so their sizes add up to its size (`SumOfSizes`).
- `PartsInOrder`: `SummaryInv` names the rows each of the three queries saw: the
  totals those of a set R, the companies of Q, the versions of P, with
  R a part of Q, Q of P and P of the table, and `missed` counts the rows outside R.
- `TypesHold`: the types; a stored fix may lack its accuracy.

**AuditLogProofs.**

- `PagesMissFew`: the invariant `Reader` follows the reader page by page.  Of the
  rows present from the start, those among the first pages of the list as it now is have been seen
  (`Covered`), and what has been missed comes after what has been seen
  (`Ordered`); rows only ever come in, so those among the first stay seen.  Where the
  total is queried first, the list is as long as the total and `gap` together,
  which bounds the rows past the last page announced.
- `ExportHasScreen`: the file is the list's beginning up to the cap; a row
  that was on the screen is still in the list, so it is in the file or after it.
- `StripAndList`: `StripInv` says that the strip was computed of a set R of rows,
  that `since` counts the rows outside R, and that a list gone through later was
  begun with all of R that it filters; counts and litres are sums over parts.

**AccountsProofs.**  `Known` says that every token and every request is of an
account that was once made; ids are never drawn twice and no operation changes
a password, so what a token's holder typed stays that account's password:
`SessionsEarned`, across restarts with any key.  `ClaimsBounded` rests on `Timely`, which bounds sums that a
`Tick` leaves alone: the ticks a token's claims have been stale and those it has
left to live are together at most `Day + Slow`; a log-in's claims have been
stale for no longer than the log-in has run, those of guarded work for no
longer than that work and a token's whole life.

Assumptions: only the named `ASSUME`s of the modules, which TLC evaluates in the
runs, and the hypotheses named above.  Most say that the constants have the shape
their comments state (a marker such as `Null`, `Open` or `NoRow` is none of the
values it marks the absence of).  Those that say more:

- `TableAssumption`, `ReadersAssumption`: finitely many handlers, requests and
  companies; a server has finitely many connections.
- `BodiesAssumption`, `NoCardAssumption`: what `post_telemetry` stores of a body it
  is sent is a body, and no card is taken for its absence.
- `QuantityAssumption`: the litres of a submission's records are not negative,
  which devices keep to and the handler does not check; with negative litres
  the strip's litres would not be bounded by those of the rows the list shows.

**Only model-checked:** liveness (`CleanupFrees`, `ValidUploadSettles`,
`EveryReadAnswered`, `DeletedLockedOut`), which is beyond the prover;
`ScanFindsSettled` of `Companies`, whose argument is that of `PagingComplete` with
pages chosen by the database among rows of equal keys; and the three
counterexamples of section 6.

## 6. Where the code and its documentation disagree

Three have a run that ends in a violation, and an entry in `PROJECT.json`:

| run | what the repository says | what the code does |
|---|---|---|
| `apk_conflict` | 409 "This upload is already running." (`apk_library.rs:166`) | a client that hangs up, or a crash, leaves `.upload-<id>` behind for good; every later use of the ticket gets this 409 though nothing runs |
| `meter_calls` | "Every call to the meter-OCR cloud fallback ..., win or lose" (migration 006, 1-2) has a row | the row is inserted at the handler's end: a hang-up after a billed POST cuts it off, and a failed insert is traced and forgotten |
| `nozzle_latest` | `pump_reading_state` "only ever holds the latest value" (migration 007, 29-30) | the upsert does not compare times: of two devices on a nozzle, or of a resend and a newer confirmation, the one executed last wins |

Met while modelling, and stated here without a run of their own:

- The "per-company daily cap" counts by `company_prefix`, which several
  companies may share; `CapOvershoot` is therefore stated per prefix.
- The cap is not enforced while the COUNT fails: a failed COUNT is zero
  (`operations.rs:163`).  `CapOvershoot` bounds the calls that a COUNT let pass.
- "the release is global" when the company is left out; with `company_url` given
  and `company_prefix` left out, no device ever sees the release.
- The comment at `operations.rs:767-769` says a slow log write never delays the
  answer; the insert is awaited before the answer is returned.
- A sale number that drops by 90 % of the ceiling or more counts as a wrap of
  the display (`operations.rs:472-490`), also where it is a misread; and any
  higher number is progress.  A misread sale number may so pass without a
  review, and `QuietReadsClose` says nothing of it.
- The sites list is ordered by `site_name, branch_`, which are not unique: two
  sites that agree on both may be shown twice or not at all across pages.
  `ScanFindsSettled` excludes such ties; the lists of the logs, ordered by time
  alone, are alike (`ScanMissesFew`).
- A PATCH of a site stores white space in the fields the POST requires.
- The releases list is ordered by `created_at` alone, which is the time an INSERT
  began: two releases may share it, and a deletion moves others up a page.
  `ScanComplete` excludes scans during which either happens.
- A position without an accuracy is stored as a fix (`FixOf`), where the comments
  (`pings.rs:33-34` and `175-177`) say that a fix without all three fields is none.
  It is stored this way by a single statement, so the divergence is told here
  and has no run; the inventory's properties hold with such fixes.
- A failed COUNT in `GET /configure`, `GET /companies` and `GET /telemetry` is answered
  with status 200, a total of 0 and `total_pages` 0: a client that goes from page to
  page by `total_pages` stops there and misses the rest.  `CountFails` of
  `Releases`, `Companies` and `AuditLog` is this step; `ScanComplete`,
  `ScanFindsSettled` and `ScanMissesFew` are about clients it did not cut short.
- "inclusive, end-of-day" (`pings.rs:457`) is 23:59:59 (495): a row of the second
  after it is in no day that a filter can name, but in a longer period around
  it.  `ToTs` models it; it is plain arithmetic and has no run.
- "load secret from env, never hardcode it" (`login.rs:87`) stands above the
  fallback "change_me" (88-91), which `guard.rs:45-48` shares; the library's own
  `secret()` (`apk_library.rs:47-49`) refuses instead.
- The two lists of `/log` query the total before the page, so a row committed in
  between pushes the last row off a page that is never asked for.
- Sign-up accepts passwords and e-mails the log-in refuses as malformed.
- The strip's total of inserted records counts the records submitted, also for
  partial batches (`submissions.rs:505`), and its number of companies counts
  distinct urls, not pairs (504).

## 7. What is abstracted, and what is not modelled

Abstracted:

- The bytes of an APK are one value; `Accepts` stands for the size limit and the
  ZIP signature, the sha256 for the content itself.  Text fields are a set of
  the names received; what makes a body invalid (a duplicate, an overlong or an
  unknown field, a second APK) is the one action `RejectBody`.
- A ticket is a purpose and an id; its signature and its clock are `Expire`.
- Litres are whole numbers; the totalizer does not wrap; a parse that fails is
  `Null`.  A timestamp is the order in which attendants confirmed.  A photo is
  read right or as one of `Misreads`.
- The 24-hour window is `Age` at any time.  A company is its pair of url and
  prefix; lookups of unknown companies end at once and change nothing.
- The crash is one of the process, not of the machine: data the kernel has
  accepted is not lost.  `release.json` is not synced before the rename, so a
  loss of power needs a model of its own.
- In `LogTable` a row's fields are those a filter, a card or a count looks at;
  what else a ping or a submission says is left out.  Times are ticks, so that
  several rows can share one.
- A password is who knows it: bcrypt accepts exactly the password the account
  was made with.  A token is its claims, what it has left to live and the key it
  was signed with; the tokens are those this server signed.  Nothing is said of
  tokens others could sign with the known fallback key.  A deleted row is kept as
  history and no action reads it, but for the password a log-in has already
  fetched.

Not modelled:

- the text of the CSV files, of which `Export` gives the rows;
- `compute_reading`, the prompt and the parsing of Gemini's JSON: a reading is
  what comes out of them;
- the strip's counts of users, companies and records, and the telemetry
  client's own timestamp, which is stored and shown but never compared;
- user names and the list of users: nothing looks them up;
- the loss of power under the library, and NaN and the wrap of the litres
  totalizer under the nozzle;
- set-up (`src/main.rs`): routing, CORS, tracing, the pool and the panic layer
  have no state the components depend on.

## 8. Plan

Done, in this order, because the library is where failures meet concurrency:

1. `ApkRegistry`, `ApkLibrary`, their runs, invariant and refinement proofs.
2. `MeterRead`, its runs and proofs.
3. `MeterNozzle`, `Releases`, `Companies` and their runs; the search.
4. `LogTable`, `FleetRegistry`, `Fleet`: the inventory and the summary.
5. `AuditLog`: the lists, exports and the strip of both logs.
6. `Accounts`, its run and proofs.
7. The proofs of `MeterNozzle` and `Releases`.
8. Sums over sets, `CapOvershoot`, the flags; the proofs of `Fleet` and `AuditLog`;
   paging in `Releases`.
9. The retry flag, misreads, late commits and ties, failed counts, and the
   signing key; the runs `meter_calls` and `nozzle_latest`.

Next:

10. `ScanFindsSettled` as a theorem: `ScanInv` of `ReleasesProofs` over the sort key
   of the sites and the pages it allows.
11. `ApkDurability`: `ApkLibrary`'s save over a disk that loses unsynced data.
12. Companies edited and deleted under releases, baselines and counted calls
    that name them; NaN and the totalizer's wrap in `MeterNozzle`.
