# Verification of the bulk import/export service

TLA+ models of the program in `src/`, checked with TLC and, where the table of theorems says so,
proved with TLAPS for all values of the constants. Source paths below are relative to the
repository's own `src/`.

1. [The system](#1-the-system)
2. [Modules](#2-modules)
3. [What the runs check](#3-what-the-runs-check)
4. [What is proved](#4-what-is-proved)
5. [What we found](#5-what-we-found)
6. [What is not modelled](#6-what-is-not-modelled)
7. [Plan](#7-plan)

## 1. The system

API processes (Fastify) take imports and exports of users, articles and comments. An import, or
an asynchronous export, becomes a row of `bulk_jobs` and an entry of a BullMQ queue in Redis;
worker processes take entries and run them. A recovery sweep in every worker process repairs
what gets lost between the row and the entry.

| Component | Code | State it keeps | Operations |
|---|---|---|---|
| Import submission | `application/import/service.ts` | table `import_idempotency` (key, user → job id) | reserve a key, wait for the owner's job, create, enqueue, release, clean up |
| Input files | `infrastructure/storage/importStorage.ts` | one file per candidate job id | store an upload, download a URL, remove |
| Job rows | `infrastructure/repositories/jobRepository.ts` | `bulk_jobs` (status, started_at, totals), `bulk_job_errors` | create, mark running, completed or failed, sweep stale rows, totals |
| Queue | `infrastructure/queue/bulkQueue.ts`, BullMQ | an entry per job id: state, attempts, stalls, lock | `enqueueBulkJob`, take, complete, fail with backoff, stall, evict |
| Workers | `interfaces/worker/index.ts` | the handlers in flight | startup recovery, take entries, run handlers |
| Recovery | `application/recovery/jobRecoveryService.ts` | Redis lock `job:recovery:lock`, the job ids it has read | lock, snapshot, fail stale rows, requeue, unlock |
| Import processing | `application/import/processor.ts`, `batchFlusher.ts`, `stagingMerger.ts`, `infrastructure/repositories/stagingRepository.ts`, `entityRepository.ts` | staging tables per job, buffers, totals; the production tables, which all imports share | read, validate, flush a batch, reject slugs, merge, save totals, tidy, fail |
| Record reader | `application/common/recordStream.ts`, `jsonArrayStream.ts`, `domain/importExport/validation.ts` | position in the input | parse a record, validate it |
| COPY stream | `infrastructure/database/copyStream.ts` | a stream on the job's own connection | write a row, wait for drain, finish |
| Streaming export | `application/export/streamingExporter.ts`, `queryBuilder.ts`, `interfaces/http/exportRoutes.ts` | cursor, count | fetch a page, write a chunk under back-pressure |
| Export jobs | `application/export/pipeline.ts`, `service.ts` | output file, job row | create and enqueue, write pages, finish |
| Connection pool | `infrastructure/database/pool.ts`, Prisma | connections in use | connect, release |
| Accounts | `application/auth/service.ts` | table of auth users, unique email | register, log in |
| HTTP shell, configuration, metrics | `interfaces/http`, `infrastructure/config`, `infrastructure/observability` | none that matters here | routing, error mapping, counters |

How they meet:

- Submission writes the row and then the entry, in two stores without a transaction. A failed
  enqueue is logged and answered with 202: only recovery makes up for it.
- Recovery reads queued rows and then enqueues them one by one, while workers run them. What
  prevents a second run is that the entry's id is the job's id.
- A worker's runs of one job are kept apart only by the lock of the queue entry. Staging rows,
  error rows and totals have no other protection.
- Row and entry change separately at the end of a run: first the row, then BullMQ. Stale sweeps
  write to the row without asking BullMQ.
- Imports meet in the production tables: a batch looks keys up and the merge, many awaits later
  and without a transaction around both, relies on what was found.
- Exports and the error stream read those tables, and the error rows, page by page while imports
  write them. Their clients may leave at any time, and an export job may run again over the file
  of an earlier run.
- Prisma and the COPY connections of imports draw on one pool per process, so an import that
  keeps a connection competes with its own statements.

What makes this hard: requests race for a key and give it back (§3, submission); crashes, lost
calls and timeouts fall between any two of the stores (job life); duplicates are found in
different places within a batch, across batches, at the merge and against another import's rows,
and each place corrects the totals by itself (pipeline); a reader resumes from a cursor in a
table that has changed meanwhile (exports); callers that hold a connection wait for another
(connections). The properties that make each part correct are those listed with the runs.
`PROJECT.json` lists every hazard at its line, including those no property covers yet.

## 2. Modules

| Module | Models | State and actions |
|---|---|---|
| `SubmitOnce` | abstract: a key is spent by one job, answers are truthful | `created`, `answer`; `Create`, `Answer` |
| `ImportSubmission` | the two handlers of `POST /v1/imports` | one `pc` per request; an action for each awaited statement, and one for its failure |
| `BulkJobs` | rows: `status`, and `aged` for `started_at < now - STALE_JOB_TIMEOUT_MS` | the `mark…` statements of jobRepository.ts, by name |
| `BulkQueue` | BullMQ as bulkQueue.ts configures it | `entry`, `attempts`, `stalls`, `holder` (the lock); external but for `enqueueBulkJob` and the options |
| `Worker` | runners: the handlers in flight | `up` per process, `pc` and `job` per runner; an action for each statement on the row |
| `Recovery` | the sweep | `sweep`, `todo` (its concurrent statements), `snap`, `lock` |
| `JobSystem` | `Worker` and `Recovery` over one `BulkQueue` and one `BulkJobs`; creation, crashes, restarts | `submitting`, `crashes` |
| `JobRuns` | abstract: what a job handler may rely on | `runs`, `failures`, `losses`, `done`; a run begins, succeeds, fails or is lost |
| `ImportRules` | pure: references, identity, duplicates, slug conflicts, merge | operators only |
| `ImportSelection` | what a reader delivers of a file, and which lines of it one pass would write, said of these lines and the database | `db`, `bulk` (entity, file and the records the present run reads); operators only |
| `ImportPipeline` | what `Worker!Body` stands for when the job is an import | per job: position and totals, buffer, batch, staging, errors, `stray` deletes; `db` is shared |
| `WholeImport` | abstract: an import is a single write and a report of what it left out | `outcome`, `written`, `report`; `Read`, `Write`, `StartOver`, `Complete`, `GiveUp` |
| `OrderedDelivery` | abstract: what a reader of a changing table is promised | `table`, `stable` (what has been there since the reading began), `out`, `over` |
| `KeysetPages` | pages beyond a cursor, and writes to the table between them | `table`, `after`, `rows`, `out`; operators the readers build on |
| `StreamingExport` | `GET /v1/exports` and a client that follows its cursor | a step per page, row, wait for drain and end of response; requests, aborts, failures |
| `ErrorStream` | `GET /v1/imports/:jobId/errors` | the same without limit and cursor |
| `ExportJob` | `runExportJob` and the download of its file | a step per page, row and statement; `file` is a sequence of rows and array marks; a download checks the row, opens the file and reads it in steps of their own |
| `Exports` | one of the three readers beside the imports that write its table | `kind`; refines `OrderedDelivery` |
| `ConnectionPool` | the pool of a process: connections and the line for them | `user`, `line`; external but for its size and its missing timeout |
| `CopyStream` | copyStream.ts and `writeRowsToStaging` | `flow`, `left`; write, drain, finish, the error of the stream nobody listens for |
| `WorkerConnections` | everything in a worker that needs connections | `pc` per caller; an import's statements, batches and ways out |
| `MC…` | constants for TLC | |
| `…_proofs` | theorems | |

Four boundaries join the parts. `ImportSubmission` ends with a row and perhaps an entry;
`JobSystem!Create` and `Submit` start there. `ImportPipeline` assumes that a job is run by one
handler at a time and again after a failure or crash. `JobRuns` is that assumption, stated once:
`JobSystem` guarantees it (`QueueKeepsItsPromise`), and the environment that `ImportPipeline`
gives its handlers stays within it (`RunsAsQueued`). `JobRuns` admits one thing more than
`ImportPipeline` does: that a job ends because its entry stalled once too often. `ExportJob`
assumes the same of its job, with `SingleRunner`. `WorkerConnections` looks at the imports of
`ImportPipeline` again, for what they hold rather than what they write: the body of the `try`
block is a sequence of statements and batches, in any order. The merges of `ImportPipeline` are
what `Exports!Others` does to a table.

Abstractions:

- *Submission.* A request is a process, and its random candidate job id is the request itself. A
  request hash is a value that two requests share or do not. An upload is stored before the key
  is reserved, a URL is fetched after. `MaxPolls` bounds the waiting loop; since slow statements
  use up the deadline too, the loop may end at any poll.
- *Jobs.* Both queues are one table of entries, because entries never interact. Backoff is a
  fair delay. `Unsupported` jobs are the exports that `runExportJob` refuses before it marks
  them running (csv). Time is `aged`: a running row may age once no live runner has the job, or
  at any time where `Faults` has `"slow"`.
- *Pipeline.* A record is `Bad` or has an id (or `NoName`), a natural key and references; other
  fields are never compared. Ids and keys share one set of names because a record without id
  takes its key for one. Only production tables are shared, so only their accesses are steps
  other imports can fall between; all steps are separated by failures and crashes. COPY and the
  merge are single statements. The two deletes a run begins with are sent together: when one
  fails the other may be done, not be carried out, or still be on its way (`stray`). The merge
  takes rows by line: it is refused where a row or a unique key would be hit twice, and merges
  whose rows meet in opposite order deadlock, which PostgreSQL resolves by failing some; the
  first that gets through may then be refused itself. Rows meet when they are the same, want the
  same unique key, or one is what the other's foreign key refers to (`Clash`), so merges into
  different tables can deadlock as well.
- *Input.* What a run reads of its file is drawn when it opens it (`Deliveries`). The stream of
  a csv or ndjson file that breaks throws, and the run fails. The one of a JSON file does not:
  `streamInputRecords` (recordStream.ts:13-28) catches the error and yields one more record that
  does not parse, so the run completes with a prefix of the file and that error. A gzip file
  that cannot be read ends the process (processor.ts:58: `pipe` hands on no error), which is a
  crash.
- *Timing.* Two things rest on the backoff of at least two seconds (bulkQueue.ts:12): that a
  delete which was left behind ends before its job runs again, unless `Faults` has `"stray"`,
  and that of merges that wait for each other the first to get through has ended before an
  aborted one is back.
- *Exports.* A row is its key. External ids are compared as PostgreSQL compares them, in the
  filter as in the order, so keys are numbers. A row that an update takes out of an export's
  filter leaves the table; the streaming export has no filter. A cursor is the key it encodes; a
  malformed one starts from the beginning (exportDto.ts:46), and the client sends none. A
  handler whose client has left runs on, but nothing it does reaches a later response, so it is
  followed until the client's next request. The transforms of an export job hand on one row at a
  time, and what waits in their buffers is lost with a failed run. `createJsonFormatTransform`
  and `createJsonArrayWrapper` see their first row together, so `started` stands for the flags
  of both. Errors are ordered by (created_at, id); a new row may come anywhere, also before the
  cursor.
- *Connections.* An import's work is any sequence of at most `MaxSteps` statements (one or two
  at a time) and batches. Statements of others are sent `Width` at a time. When a statement of
  `Promise.all` fails, those beside it become stray: nobody waits for them, and they keep their
  place. pg-pool hands a released connection to the first in line.

Faults are constants: a run names those it admits, so that a property says under which it holds.
Exports and connections have theirs in every run: responses that break (`MaxBroken` of them),
clients that leave, runs that fail, crash or are swept, statements that fail or commit behind an
error; failing statements, refused connections, errors of COPY streams, of an import's
connection and of its file.

| `Faults` | Meaning |
|---|---|
| submission `crash`, `release`, `rm` | an API process dies; deleting the reservation fails; removing a file fails. Ordinary failures of statements are always admitted |
| submission `reserveAck`, `createAck` | the INSERT of the reservation, or that of the job row, commits and its client sees an error |
| jobs `crash`, `early`, `late`, `answer` | a worker process dies; a statement before the `try` fails; the final statement on the row fails; a statement on the row commits and its answer is lost |
| jobs `ack`, `lost`, `sweep` | BullMQ is not told; an enqueue fails; a statement of a sweep fails, the SET of its lock included |
| jobs `zombie`, `slow`, `ttl`, `evict` | a live runner loses its lock; a live run outlasts the stale timeout; the recovery lock ends during a sweep; BullMQ removes old entries |
| pipeline `crash`, `statement`, `input` | the worker dies; an awaited statement fails, or the stream of a csv or ndjson file; the stream of a JSON file breaks |
| pipeline `stray`, `deadlock` | a delete outlives the attempt that sent it and the backoff; PostgreSQL aborts merges that wait for each other |

## 3. What the runs check

| Run | Properties | Instance |
|---|---|---|
| `submit` | `TypeOK`, `AtMostOneJobPerKey`, `ReplayMatches`, `JobHasInput`, `KeyOwned`, `ImplementsSubmitOnce` | three requests for one key (two alike), two API processes |
| `submit_live` | `NoLeakedFile`, `EveryRequestAnswered` | two with a key, one without, INSERTs that commit behind an error, failing releases |
| `submit_key_stuck` | `KeyInUseResolves`, **violated** | two requests, crash or failing release |
| `jobs_crash` | `TypeOK`, `SingleRunner`, `QueuedIsRunnable`, `OneSweeper`, `JobSettles`, `ImplementsJobRuns` | one job, two processes, a crash, lost enqueues, answers and reports, failing final statements |
| `jobs_steady` | `SingleRunner`, `AckedIsCompleted`, `CompletedIsFinal` | one job, two processes that run and sweep, an early end of the recovery lock; every failure that leaves the end of a run heard (`EndsAreHeard`) |
| `jobs_zombie` | `JobSettles` | one job, two runners, lost locks, eviction |
| `jobs_stuck` | `JobSettles`, **violated** | one job, failures before the `try` block |
| `import_alone` | `TypeOK`, `TotalsMatchReport`, `FirstWins`, `MergeNeverRefused`, `ReportMatchesDatabase`, `ImplementsJobRuns`, `ImplementsWholeImport` | one import of every file up to 3 records, crash, failures and broken JSON streams anywhere |
| `import_pair` | `TotalsMatchReport`, `FirstWins`, `ReportMatchesDatabase`, `FailuresArePaidFor`, `ImportsComplete`, `ImplementsWholeImport` | two imports of the same rows, no failures but those they cause each other |
| `import_totals` | `TotalsAddUp`, **violated** | one import, no failures |
| `exports` | `TypeOK`, `CompletedFileIsWhole`, `DownloadIsWhole`, `ImplementsDelivery`, `EveryReaderEnds` | three keys, pages of two, each of the three readers against any writes; responses of one or three rows; two runs of a job in either format |
| `connections` | `TypeOK`, `LineMoves`, `OneConnectionKept`, `EveryImportEnds` | two imports and an export that sends two statements at a time, three connections |

What they show.

**Submission.** However requests for a key interleave with failures and crashes, the key gets
one job; a replayed answer names a job of the same content; the input of a job is never removed
and no other file is left (files of dead processes excepted); a key without a job is being
worked on, or its worker died. The handlers implement `SubmitOnce`. All of this is claimed where
no job row commits behind an error, which is the case the code does not cover (§5). Every
request is answered, but for two waits that the statement itself exempts, because nothing bounds
them: the body of an upload, which the client sends at its leisure (importStorage.ts:51, 136),
and the body of a download, whose timer `downloadImportFile` clears when the headers arrive
(importStorage.ts:110). Who waits for a key that such a request holds is answered all the same.

**Job life.** A job has one handler at a time, and its runs are those of `JobRuns`; whatever is
lost or dies, its row settles as completed or failed for good. A stale sweep that overtakes a
slow run is repaired when the run ends. `AckedIsCompleted` holds against stale sweeps since a
sweep touches running rows only, and the report follows the row. `CompletedIsFinal` is stated
where the end of a run is heard: a crash before the report makes BullMQ run a completed job
again, and where `markJobCompleted` commits and its answer is lost the catch block marks the
completed row as failed before the job runs again. `jobs_crash` has both (`"answer"`), and the
row settles; the pipeline must then survive the second run: that is part of `import_alone`,
whose crashes and failures include those between `markJobCompleted` and BullMQ's answer (`Ack`).
What is said of a completed import is said from `markJobCompleted` on (`MarkedCompleted`), until
a new run begins.

**Pipeline.** Batches are invisible: what is merged is what one pass over the file would select
(`FirstWins`), although duplicates are compared with the database, with staged rows, within the
batch and, for slugs, after the last batch. That is claimed of imports that stay `Apart`: no
other writes its table or a table its references lead to. The merge of the only import of its
entity (`OwnTable`) is never refused. The totals of a completed job count its error rows,
however often the job was run before, and when a broken JSON stream made it complete with part
of its file there is an error that says so (`CutIsLogged`). `ReportMatchesDatabase` ties its
report to the tables: a line that is no error was written, and is in its table unless another
import of the entity has changed it; a line that is an error was not written in a first run. The
second half is subtle when a job runs again after its merge, over the rows of its first run. A
user line that the first run wrote may then be an error; the property asks that its email is
gone from the table or now stands for a line that is none. Articles that ran more than once are
exempt (§5 has the case).

`ImplementsWholeImport` says all of this of the import as a whole, as one would like to describe
it to a client: an attempt changes the database in one step or not at all; what it writes is
good lines of the file, selected as one pass would where the import is `Apart`; an attempt that
is cut off after its write starts over, even after its report if BullMQ had not heard of it; and
the report lists the lines that the last write left out, and their number. Whatever other
imports do, an import is never half written and its report never claims more or less than its
merge did.

Imports that disturb each other (lookups out of date, merge refused, merge deadlock) complete
within two attempts when there are two of them. Why is `FailuresArePaidFor`: without failing
statements, every failed attempt of an import took another import's merge, and no import merges
twice. Of three imports that is true as long as merges only refuse each other. With deadlocks it
is not: let the first merge; the second is refused because of it and comes back; then its merge
is aborted in a deadlock with the third, whose own merge the rows of the first refuse. The
second has failed twice, and one import has merged.

**Exports.** Whatever is written between two pages, a client that follows `X-Next-Cursor` with
changing limits, and repeats what broke, ends with the rows in order, none twice, and none
missing that was there all the time. The same holds for an error stream and for the file of a
completed job, which is one well-formed array (or lines) however often the job was run before.
It does not hold for a *download* that a second run overtakes: the property exempts it (`rerun`,
from the check of the row on), since `createWriteStream` truncates the file under it and the
download ends short, without an error. `OrderedDelivery!Retract` is there because a completed
job may be marked failed afterwards, when the answer to `markJobCompleted` is lost. Readers end,
but for a handler that waits for a drain: its client may have gone (exportRoutes.ts:79).

**Connections.** While fewer imports run than the pool has connections, the line for connections
moves and every import ends, whether statements fail, connections are refused or an uncaught
error ends the process: of a COPY stream in a drain, of the connection that an import keeps, or
of its gzip file. An import returns its connection on every way out. The assumption
`EnoughConnections` is the exact condition, which TLC confirms when it is dropped: two imports
on two connections wait for each other. The defaults are 2 and 10, and 2 and 5 in
docker-compose.yml; nothing in the code compares `BULK_WORKER_CONCURRENCY` with `DB_POOL_MAX`.

**Bounds.** Two batches and a rest are reached with `FlushSize = 2` and three records, and with
three records there is one to repeat and one to conflict with both. Two emails are not enough
for one case: a row that gives its email to the next, whose own goes to a third, so that a
second run reads the file differently from the first. `Passes` adds those files with a third
email; without them a stronger, and false, `ReportMatchesDatabase` had passed.
`ProgressEvery = 2` saves totals inside and outside a batch. The names are two ids and two keys plus an author or
article that exists and one that does not; databases are all ways in which earlier imports can
own the keys, up to renaming (files are closed under it); users and articles start with the same
rows, since an import of users does not look at articles and one of articles asks only whether
its author exists. In `import_pair` files have up to two records: two rows are what it takes to
deadlock, and one batch has no more. JSON files, which may break off before, between and after
their records, are two of two users each; a user file is enough, since what breaks is the
reader. A comment's key is its id; article and user ids may equal keys, as they do when a record
brings no id. `MaxAttempts = 2` is the smallest that has a retry and a last attempt (the code
has 3). `MaxStalls = 1` is BullMQ's default. Two runners and two processes suffice for two
handlers, two sweeps, or a sweep against a handler to meet. `jobs_steady` gives its one job two
processes, so that two sweeps and a GET and DEL of one lock around the other's SET are in it; a
csv export, which is refused before it is marked running, is in none of the runs and covered by
the proofs alone. A crash may come at any step, and one per behaviour is what `MaxStalls = 1`
lets an entry survive: see finding 2 for a second one. In the pipeline one crash may be
followed, or preceded, by a failed attempt. `MaxPolls = 1` lets a request wait once and give up.
Three keys and pages of two give a full page, a short one and an empty one, a limit inside, at
and beyond a page, and a key before, between and after those delivered. `DefaultLimit` and
`LimitCap` stand for 5000 and 50000, `Limits` has one value below the range, one above it and
one that is no number. `MaxRuns = 2` is a run and the one that repeats or overtakes it. Two
steps of an import suffice to fail before, in and after a batch; an export of width two fills
what two imports leave of three connections and stands in line for more. Symmetry is not used:
most runs check liveness or have too few symmetric values.

**Fairness.** `ImportSubmission!FairSpec`: a started handler goes on, since statements, file
operations and timers end; arrivals, crashes and those who send a body, of an upload or of a
download, are free. `JobSystem!FairSpec`: a live runner goes on, a process that is up takes
entries, the recovery interval fires (`setInterval`), BullMQ promotes and detects stalls, the
TTL ends, clocks advance, and a dead process is restarted (`restart: unless-stopped` in
docker-compose.yml:162); faults and creations are free. `Exports!FairSpec`: a handler goes on,
because its statements and its writes to a file end; no fairness for clients (requests, reading,
drain) or for those who write the table. `EveryReaderEnds` needs that keys are finitely many: a
table that grows for ever keeps a reader busy for ever. `WorkerConnections!FairSpec`: an import
goes on, the pool serves its line, statements end; nothing makes one fail or end the process.
`ImportPipeline!FairSpec`: a job that may run goes on, and deletes that were left behind end.
Weak fairness is enough everywhere, as no step is disabled and enabled for ever by others. Where
one condition hides several outcomes (a statement succeeds or fails) fairness favours none of
them.

**Deadlock** is checked for the jobs, where timers never stop, and for the connections, where it
is the question, and switched off for submission, pipeline and exports, whose requests and jobs
all end.

## 4. What is proved

`ImportSubmission_proofs`, for all requests, keys, hashes, servers and deadlines:

| Theorem | Says | Assumes |
|---|---|---|
| `Typing` | `[]TypeOK` | nothing |
| `OneJobPerKey` | `[]AtMostOneJobPerKey` | `ReliableCreate` |
| `ReplayIsExact` | `[]ReplayMatches` | `ReliableCreate` |
| `InputKept` | `[]JobHasInput` | `ReliableCreate` |
| `NoKeyAbandoned` | `[]KeyOwned` | `ReliableCreate`, neither `"reserveAck"` nor `"release"` in `Faults` |
| `FilesCleaned` | `[]NoLeakedFile` | `"rm" \notin Faults` |
| `Refinement` | `ImplementsSubmitOnce` | `ReliableCreate` |

The inductive invariant is `IInv`. Uniqueness does not follow from the table's primary key
alone, because releases delete by key and not by job: it needs `OwnersHoldKey` (who is between
reservation and job holds the row, so nobody else can release it) and `JobsHoldKey` (the row of
a created job is never released), and these need to know where the creator of a job can be
(`JobsPastCreate`, `OutcomeFits`). Typing needs that only a request with a key reads a
reservation (`KeyedRead`). `ReliableCreate` (`"createAck" \notin Faults`) is necessary: an
INSERT of the job row that commits behind an error is followed by a release, so that the next
request creates a second job, and by the clean-up, so that the job that exists loses its input.
`NoKeyAbandoned` needs it too, that the answer to the reservation is heard (a request that does
not know that it holds the key does not release it), and that releases succeed: where one fails
the key stays, which is finding 1. `FilesCleaned` needs neither, because the clean-up looks at
whether the job was created and not at the key; it rests on `PartialInWrite`: only a handler in
the middle of a write, or a dead one, has half a file.

`JobSystem_proofs`, for all jobs, processes, runners and limits:

| Theorem | Says | Assumes |
|---|---|---|
| `Typing` | `[]TypeOK` | nothing |
| `OneRunnerPerJob` | `[]SingleRunner` | `LocksRenewed` |
| `OneSweepAtATime` | `[]OneSweeper` | the TTL outlasts a sweep |
| `AckedJobsAreCompleted` | `[]AckedIsCompleted` | `LocksRenewed` |
| `QueuedCanRun` | `[]QueuedIsRunnable` | `FewCrashes` |
| `CompletedStays` | `CompletedIsFinal` | `EndsAreHeard` |
| `QueueKeepsItsPromise` | `ImplementsJobRuns` | `EntriesKept`: locks are renewed and entries not evicted |

`Typing` contains that attempts and stalls stay within their limits; it is inductive with
`WithinLimits` (an entry that may run again has attempts left), `LockedIsActive` and
`BusyHasJob`. `SingleRunner` follows from `RunnerHoldsEntry`: a lock has one holder.
`AckedIsCompleted` needs that a success is reported after the row is written, and that there is
no entry before a row, recovery's snapshots included. For `CompletedIsFinal`, `CompletedIsOver`:
a completed row has a completed entry, which keeps recovery from adding another, or a runner
about to complete it. `EndsAreHeard` excludes crashes, lost locks, lost answers of the
statements on the row, lost reports and evictions: each of them makes BullMQ, or recovery, run a
completed job again, or has the catch block fail it. For `QueuedCanRun`, `QueuedIsEarly` (while
the row is queued its handler has not got past `markJobRunning`, so it cannot be about to
report) and `StallsAreCrashes` (each stall so far took a crash, and one is left over while the
handler is dead). `FewCrashes` excludes what finding 2 is about: failures before the row is
marked, and more crashes than stalls are forgiven. For `QueueKeepsItsPromise`, `HolderRuns` is
the converse of `RunnerHoldsEntry`: a locked entry has its runner. A loss counts from the moment
the lock is given up, so that the later stall is a stutter. Neither assumption can go: a zombie
is a second run, and an evicted entry lets recovery run a completed job again.

`ImportPipeline_proofs`, for all files, tables, imports, batch sizes and limits, and every fault
but `"stray"` (`NoStrays`):

| Theorem | Says | Assumes |
|---|---|---|
| `Typing` | `[]TypeOK`: no batch outgrows `FlushSize`, no run reads past its file | `NoStrays` |
| `TotalsMatch` | `[]TotalsMatchReport` | `NoStrays` |

`NoStrays` is necessary. With `"stray"` TLC finds `TotalsMatchReport` violated in 13 steps: the
first attempt's `deleteStagingRows` fails and its `deleteJobErrors` stays on its way; the second
attempt reads a bad line, and then the old delete removes its error row.

The inductive invariant `IInv` is `TypeOK` and, for each job, `JobInv`. Its core is
`LinesAccounted`: the error rows, the rows staged or about to be, and the lines still pending
divide the lines read so far among them. With `OneRowPerLine`, rows are as many as their lines,
so the cardinalities in `CountsFit` add up when the staging rows are counted. `BatchesFit` says
that the reader stops at a full batch, or has reached the end of the file. A run that starts
over begins with nothing in memory (`FreshStart`) and clears what an earlier one left. A step of
one job is a stutter for the `JobInv` of the others (`Frame`, `OthersSame`); `MergeDeadlocks`
moves those that are stuck. `BulkOK` says what a run may have got of its file. The same
invariant was model-checked on the instances of `import_alone` and `import_pair` before it was
proved.

`ImportApart_proofs`, for any number of imports beside each other, on any tables that obey their
indexes, with any files, batch sizes and limits:

| Theorem | Says | Assumes |
|---|---|---|
| `NeverRefused` | `[]MergeNeverRefused` | `NoStrays` |
| `FirstLineWins` | `[]FirstWins` | `NoStrays` |
| `ReportIsTrue` | `[]ReportMatchesDatabase` | `NoStrays` |
| `FailuresArePaid` | `[]FailuresArePaidFor` | `MergesOnly` (`Faults` has at most `"deadlock"`), `PairsDeadlock` (two jobs, or no `"deadlock"`), finitely many jobs |
| `NoImportFails` | no job ever ends as failed | the same, and no more jobs than attempts |

`SchemaAssumption` (module `ImportPipeline`) says that the tables are `Sound` at the start, as
the unique indexes make sure, and that a comment has no key but its id. `Apart` and `OwnTable`
are part of the properties, where they say for which jobs something is claimed. A step of the
system is, for a job, its own, its merge, or another job's step that leaves it where it is or
aborts its merge (`Views`, `Beside`); each invariant is shown for these three. Each theorem has
its own layer over `IInv`:

- `FitInv`: the tables stay `Sound` through every merge, and the rows kept so far, staged or in
  the batch, have distinct ids and keys (`RowsDistinct`) and fit the table (`RowsFit`). A lookup
  that was made at the head of a batch is still true at its end if nobody else writes the table;
  this is where two imports differ. For articles the slug check removes what does not fit.
- `ChoiceInv`: what was decided so far is what one pass would decide. `DecidedInOrder` says that
  rows kept are from earlier lines than those still pending, are what their lines resolve to
  (`KeptIsRow`), and that every eligible line that is an error has an earlier kept row that
  `Supersedes` it. So the batch in which a line falls does not matter. The slug conflicts come
  after the last batch and are taken into account at the merge. It needs every table the job
  reads to keep still, so references count.
- `ReportInv`: what this job ever merged, and is still in the table, stems from a line that is
  eligible if the file is read again. A line whose key is in the table resolves to the row that
  owns it (`ResolvedIsOwner`), whatever its own id says. So when a second run rejects a line
  that wrote a user, either a line it keeps has the same email, or the email leaves the table.
- `PaidInv`: rows that no longer fit are a debt. As long as staged rows fit, the merge can only
  be aborted by a deadlock, whose other side merges in the same step: of two imports the
  survivor cannot be refused (`SomeoneAccepted`), and of more this is where the argument ends
  (§3). When they cease to fit, another import has just merged, and has not been charged to this
  job before. `NoImportFails` counts: `n` imports have at most `n - 1` merges of others to lose
  an attempt to. It is the safety half of `ImportsComplete`.

`ImportRefinement_proofs`, for the same:

| Theorem | Says | Assumes |
|---|---|---|
| `RunsAsQueued` | `ImplementsJobRuns` | `NoStrays` |
| `ImportIsOneWrite` | `ImplementsWholeImport` | `NoStrays` |

The mapping hides everything but the position of a job, its error rows and saved totals. What an
attempt has `written` is the lines that are no error rows, from the merge on. Opening the file
is the `Read` of the abstract import (`ClearReads`). `MergeWrites` is the heart of it: staged
rows and lines that are no errors are the same (`StagedRows`, from `LinesAccounted`), each with
the id and key that `RowsDistinct` and `KeptIsRow` give it, and they are what `ChoiceSelects`
says. A merge deadlock is at most a write of one job and invisible for the others.
`CompletePublishes` turns totals into counts of lines and needs `ErrorsAreLines`; everything
else is a stutter (`OwnSeen`, `BesideUnseen`), a fresh start or the last failure
(`UndoneStartsOver`).

`Exports_proofs`, for every finite set of keys, page sizes, limits, formats and numbers of runs:

| Theorem | Says | Assumes |
|---|---|---|
| `Typing` | `[]TypeOK` | nothing |
| `FileOfCompletedJob` | `[]CompletedFileIsWhole` | nothing |
| `WholeDownload` | `[]DownloadIsWhole` | nothing |
| `Refinement` | `ImplementsDelivery` | nothing |

`OnCourse` carries the argument: everything stable up to the cursor is delivered and nothing
beyond (`Covered`), and the page holds what comes next (`PageNext`). A page establishes it
(`FetchKeeps`), a row keeps it and is the one `OrderedDelivery!Deliver` wants (`DeliverKeeps`),
and writes by others only shrink `stable` (`WritesKeep`). An empty page beyond a covered cursor
means that all is read. The streaming session adds what the client keeps, and why a response
cannot end at its own first cursor with rows beyond it: it has a limit of at least one. For the
file, `Objects` says what an array looks like before its end; `ObjectsGrow` and `ObjectsEnd` add
an object and the bracket. `StepIInv` shows invariant and refinement together.

`WorkerConnections_proofs`, for every pool and any callers, while fewer imports run than there
are connections (`EnoughConnections`, an assumption of the module):

| Theorem | Says | Assumes |
|---|---|---|
| `Typing` | `[]TypeOK` | nothing |
| `KeepsOneConnection` | `[]OneConnectionKept` | nothing |
| `NobodyWaitsForEver` | `[]LineMoves` | `EnoughConnections` |

`CopyHeld` and `CopyAsked` say that an import has, or has asked for, one connection exactly
while it should. So the connections kept by imports are at most as many as imports, and by the
pigeonhole principle one is free or runs a statement. `FlowFits` and `StatementFits` tie the
COPY stream and the statements to where the import is.

Only model-checked: everything about liveness (`EveryRequestAnswered`, `JobSettles`,
`ImportsComplete`, `EveryReaderEnds`, `EveryImportEnds`), which is out of the prover's reach.
`ImportsComplete` is proved as far as it is safety (`NoImportFails`). That what `JobRuns`
guarantees is all that `ImportPipeline` uses is an argument over two theorems, not a third one:
the two specifications are not composed. Every invariant, action property and refinement of a
passing run is proved, under the assumptions above.

## 5. What we found

1. *A key can stay in use for ever* (`submit_key_stuck`). A waiting request is told "Retry the
   same request shortly." (service.ts:206). If the process that reserved the key dies before it
   writes the job row, or its release fails, nothing ever frees the key.
2. *A queued job may never run* (`jobs_stuck`). When a statement before the `try` block
   (processor.ts:99) fails on every attempt, the row stays queued and the entry failed.
   `enqueueBulkJob` takes the failed entry for a queued one, so that recovery skips the row
   until BullMQ evicts the entry. A csv export whose `markJobFailed` fails each time ends the
   same way. So do two crashes before `markJobRunning`, because BullMQ fails an entry when it
   stalls for the second time; `jobs_crash` is therefore limited to one.
3. *Totals need not add up* (`import_totals`). A slug conflict raises `failed` and leaves
   `valid` (processor.ts:203), where every other rejection lowers it (batchFlusher.ts:45). The
   totals of the README's example do add up.

Noted on the way, and not counted as disagreements with a document:

- *A job row that commits behind an error* (service.ts:144) is treated as none: the catch
  releases the key, so that the next request creates a second job, and the finally block removes
  the input (service.ts:264-276), so that the first one fails in its worker.
- *A completed row may be marked failed*: when `markJobCompleted` commits and its answer is
  lost, the catch block runs `markJobFailed` over it (pipeline.ts:206-218,
  processor.ts:227-233). The job runs again, if it has attempts left.
- *A JSON import completes with part of its file* when its stream breaks
  (recordStream.ts:13-28), while a csv or ndjson import fails and is tried again. The report has
  a `PARSE_ERROR` for it.
- *A delete of an earlier attempt may remove error rows of the next* (processor.ts:118:
  `Promise.all` does not wait for the other delete when one fails). It takes a delete that
  outlives the backoff.
- *Running an article import again after its merge* can reject a line that the first run wrote.
  Take a file (id A, slug e), (A, f), (B, f) and no articles: the first run stages A with e,
  rejects line 2 as a repeated id and writes line 3 as B with f. On a second run line 2 resolves
  to B by its slug, is staged, and line 3 becomes the repeat. A row may even stay that the
  report denies. Let A own slug e, and the file be (A, g), (V, e), (B, e), (B, f). If the worker
  dies after the merge, the second run reports lines 3 and 4, and the B with slug f of line 4 is
  in the table. `ReportMatchesDatabase` therefore exempts article imports that ran more than
  once from its second half.
- *Running a user import again after its merge* has milder effects. Let A own email e, and the
  file be (B, e), (A, f), (B, g). The first run rejects line 1, because e belongs to A, and
  writes A with f and B with g. On a second run e is free: line 1 makes B the owner of e, and
  line 3, now the repeat, is reported. Report and table agree again, but other lines won than
  the first time.
- *Concurrent imports are not serializable*: user A has email e; one import brings email e
  without an id, another moves A to f. The first may find A by e, wait, and write e back.
- A failure of `pool.connect` after `bulkJobsRunning.inc` leaves the gauge raised
  (processor.ts:109-113).
- *Some errors of an import have no listener*: `finish` attaches one to the COPY stream
  (copyStream.ts:50), `drain` does not; the connection that an import keeps has none
  (processor.ts:113), and neither has a file that is piped into `createGunzip`
  (processor.ts:58). Such an error is uncaught and ends the worker process, with every other job
  it runs; recovery repairs what is left.
- *A streaming export whose client has left* goes on reading pages up to its limit
  (exportRoutes.ts:76), or waits for ever if it was in a drain. The error stream does not look
  at its client at all, and a failure in it leaves a reply that nobody ends
  (importRoutes.ts:158).
- `markJobCompleted` of an export writes totals of zero (pipeline.ts:206), where the job view of
  README.md:466 shows the number of rows.
- README.md:245 speaks of the first registered user as admin; `registerAuthUser` takes the role
  it is given.
- Jobs are `queued`, `running`, `completed` or `failed`; export jobs accept csv and always fail
  on it (pipeline.ts).

## 6. What is not modelled

Validation rules, CSV and JSON syntax, gzip, redirects and the URL check, the projection of
fields, the HTTP shell, passwords and tokens, metrics, logs and configuration: they decide
whether a step succeeds, or what a row looks like, which the models leave open, and keep no
state that two actors share. Registration and login each rest on one statement and the unique
email. Graceful shutdown closes the workers and is covered by crashes. Data lost by PostgreSQL
or Redis is outside the scope. Two runs of one export job at a time, after a lost lock, would
write one file together; `ExportJob` excludes them with `SingleRunner`, as `ImportPipeline`
does.

## 7. Plan

The order was: submission, because everything else starts there and its races are the most
intricate; the life of a job, because the pipeline relies on it; the pipeline; the readers;
connections and COPY streams. What is left:

1. `RecordStream` and `CsvCodec`: the line reader of recordStream.ts with its limits,
   `parseCsvLine` against a reference definition, and `csvEscape` as its inverse, as operators
   over bounded inputs.
