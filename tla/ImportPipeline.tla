--------------------------- MODULE ImportPipeline ---------------------------
(***************************************************************************)
(* application/import/processor.ts with batchFlusher.ts and                *)
(* stagingMerger.ts: an import job reads its file record by record, stages *)
(* the good ones in batches, and merges them into the production tables,   *)
(* which other imports read and write at the same time.  BullMQ runs the   *)
(* job again after a failure or a crash; that nobody else runs it          *)
(* meanwhile is what SingleRunner of module JobSystem says.                *)
(*                                                                         *)
(* Staging rows, error rows and totals are private to a job, so awaits     *)
(* between two of their statements are only told apart by failures and     *)
(* crashes; every access to a production table is a step of its own.       *)
(* What a run reads of its file is drawn when it begins to read.           *)
(***************************************************************************)
EXTENDS ImportSelection, Integers, FiniteSets

CONSTANTS
  Inputs,         \* what a job may be about: its entity and its file
  Databases,      \* what the production tables may hold at the start
  FlushSize,      \* IMPORT_FLUSH_SIZE
  ProgressEvery,  \* JOB_PROGRESS_EVERY
  MaxAttempts,    \* defaultJobOptions.attempts of the queue
  MaxCrashes,     \* bound on the crashes of a job
  Faults          \* the faults a run admits

(* "statement": a statement fails, or the stream of a csv or ndjson file.  *)
(* "input": the stream of a JSON file breaks.  "stray": a delete outlives  *)
(* the attempt that sent it, and the backoff.  "deadlock": merges want     *)
(* each other's rows.  "crash": the worker process dies, also because of a *)
(* gzip file that cannot be read, whose error nobody listens to.           *)
FaultKinds == {"statement", "input", "stray", "deadlock", "crash"}

ASSUME PipelineAssumption ==
  /\ FlushSize \in Nat \ {0}
  /\ ProgressEvery \in Nat \ {0}
  /\ MaxAttempts \in Nat \ {0}
  /\ MaxCrashes \in Nat
  /\ Databases \subseteq Tables
  /\ Faults \subseteq FaultKinds
  /\ Inputs \subseteq [entity : Entities, json : BOOLEAN, file : Seq(Records \cup {Bad})]

(* Earlier imports left tables that obey their indexes; a comment has no   *)
(* natural key but its id.                                                 *)
ASSUME SchemaAssumption ==
  /\ \A d \in Databases : Sound(d)
  /\ \A b \in Inputs : b.entity = "comments" =>
       \A n \in 1..Len(b.file) : b.file[n].good => b.file[n].id = b.file[n].key

VARIABLES
  pc,        \* where each job is, or how it ended
  totals,    \* the totals each run keeps in memory
  buffer,    \* the lines read and not yet handed to a batch that is done
  todo,      \* the lines of the current batch not yet looked at
  found,     \* the production tables as the current batch read them
  batch,     \* the rows of the current batch that go to staging
  staging,   \* the job's rows in stg_users, stg_articles or stg_comments
  errors,    \* the lines with a row in bulk_job_errors
  stray,     \* the deletes of a failed attempt that are still on their way
  saved,     \* bulk_jobs.totals
  attempts,  \* failed attempts
  crashes,
  merged     \* history: the lines this job ever wrote to production

run == <<totals, buffer, todo, found, batch>>
vars == <<db, bulk, pc, run, staging, errors, stray, saved, attempts, crashes, merged>>

Running == {"clear", "read", "lookup", "items", "progress", "slugs", "merge",
            "save", "tidy", "complete", "ack", "catch"}
MarkedCompleted == {"ack", "completed"}   \* what the row says
Deletes == {"staging", "errors"}          \* what a run sends before it reads
Zero == [read |-> 0, valid |-> 0, failed |-> 0, written |-> 0]
Counts == {"read", "valid", "failed", "written"}
Totals == [Counts -> Nat]

TypeOK ==
  /\ db \in Tables
  /\ pc \in [Jobs -> Running \cup {"waiting", "completed", "failed"}]
  /\ totals \in [Jobs -> Totals]
  /\ saved \in [Jobs -> Totals]
  /\ found \in [Jobs -> Tables]
  /\ attempts \in [Jobs -> 0..MaxAttempts]
  /\ crashes \in [Jobs -> 0..MaxCrashes]
  /\ buffer \in [Jobs -> SUBSET Nat]
  /\ todo \in [Jobs -> SUBSET Nat]
  /\ errors \in [Jobs -> SUBSET Nat]
  /\ stray \in [Jobs -> SUBSET Deletes]
  /\ merged \in [Jobs -> SUBSET Nat]
  /\ batch \in [Jobs -> SUBSET Rows]
  /\ staging \in [Jobs -> SUBSET Rows]
  /\ \A j \in Jobs :
       /\ totals[j].read <= Length(j)
       /\ buffer[j] \subseteq 1..totals[j].read
       /\ Cardinality(buffer[j]) <= FlushSize
       /\ todo[j] \subseteq buffer[j]

(* A job row, with the records that a run gets of its file.                *)
Opened(b, records) == [entity |-> b.entity, json |-> b.json, file |-> b.file, records |-> records]

Init ==
  /\ db \in Databases
  /\ \E input \in [Jobs -> Inputs] : bulk = [j \in Jobs |-> Opened(input[j], input[j].file)]
  /\ pc = [j \in Jobs |-> "waiting"]
  /\ totals = [j \in Jobs |-> Zero]
  /\ buffer = [j \in Jobs |-> {}]
  /\ todo = [j \in Jobs |-> {}]
  /\ found = [j \in Jobs |-> db]
  /\ batch = [j \in Jobs |-> {}]
  /\ staging = [j \in Jobs |-> {}]
  /\ errors = [j \in Jobs |-> {}]
  /\ stray = [j \in Jobs |-> {}]
  /\ saved = [j \in Jobs |-> Zero]
  /\ attempts = [j \in Jobs |-> 0]
  /\ crashes = [j \in Jobs |-> 0]
  /\ merged = [j \in Jobs |-> {}]

GoTo(j, l) == pc' = [pc EXCEPT ![j] = l]
Set(f, j, v) == [f EXCEPT ![j] = v]
Add(t, c, n) == [t EXCEPT ![c] = @ + n]

-----------------------------------------------------------------------------
(* findJobById, markJobRunning, pool.connect                               *)
Start(j) ==
  /\ pc[j] = "waiting"
  /\ stray[j] = {} \/ "stray" \in Faults
  /\ GoTo(j, "clear")
  /\ UNCHANGED <<db, bulk, stray, run, staging, errors, saved, attempts, crashes, merged>>

Clear(j, tables) ==
  /\ staging' = IF "staging" \in tables THEN Set(staging, j, {}) ELSE staging
  /\ errors' = IF "errors" \in tables THEN Set(errors, j, {}) ELSE errors

Delivered(j) == IF "input" \in Faults THEN Deliveries(bulk[j]) ELSE {bulk[j].file}

Open(j) == \E records \in Delivered(j) : bulk' = [bulk EXCEPT ![j] = Opened(@, records)]

(* Mutant: an earlier attempt's staging rows are left.                     *)
ClearPrevious_KeepsStaging(j) ==
  /\ pc[j] = "clear"
  /\ GoTo(j, "read")
  /\ Clear(j, {"errors"})
  /\ saved' = Set(saved, j, totals[j])
  /\ Open(j)
  /\ UNCHANGED <<db, stray, run, attempts, crashes, merged>>

(* "Clear any state from a previous crashed attempt": two deletes at a     *)
(* time, then updateJobTotals; then the reader is opened.                  *)
ClearPrevious(j) ==
  /\ pc[j] = "clear"
  /\ GoTo(j, "read")
  /\ Clear(j, Deletes)
  /\ saved' = Set(saved, j, totals[j])
  /\ Open(j)
  /\ UNCHANGED <<db, stray, run, attempts, crashes, merged>>

(* A delete fails, or updateJobTotals: the other delete may be done, or    *)
(* still on its way.                                                       *)
ClearFails(j) ==
  /\ "statement" \in Faults
  /\ pc[j] = "clear"
  /\ GoTo(j, "catch")
  /\ \E done \in SUBSET Deletes, late \in {{}, {"staging"}, {"errors"}} :
       /\ Clear(j, done)
       /\ stray' = [stray EXCEPT ![j] = @ \cup (late \ done)]
  /\ UNCHANGED <<db, bulk, run, saved, attempts, crashes, merged>>

(* It ends before the job runs again, seconds later, unless "stray".       *)
StrayDelete(j) ==
  /\ pc[j] \in {"catch", "waiting", "failed"} \/ "stray" \in Faults
  /\ \E table \in stray[j] :
       /\ Clear(j, {table})
       /\ stray' = [stray EXCEPT ![j] = @ \ {table}]
  /\ UNCHANGED <<db, bulk, pc, run, saved, attempts, crashes, merged>>

-----------------------------------------------------------------------------
NextLine(j) == totals[j].read + 1

ReadBad(j) ==
  /\ pc[j] = "read"
  /\ NextLine(j) \in Lines(j)
  /\ ~Record(j, NextLine(j)).good
  /\ totals' = Set(totals, j, Add(Add(totals[j], "read", 1), "failed", 1))
  /\ errors' = [errors EXCEPT ![j] = @ \cup {NextLine(j)}]
  /\ UNCHANGED <<db, bulk, stray, pc, buffer, todo, found, batch, staging, saved,
                 attempts, crashes, merged>>

(* Mutant: a batch is flushed when one more record than its size is there. *)
ReadGood_LateFlush(j) ==
  /\ pc[j] = "read"
  /\ NextLine(j) \in Lines(j)
  /\ Record(j, NextLine(j)).good
  /\ totals' = Set(totals, j, Add(Add(totals[j], "read", 1), "valid", 1))
  /\ buffer' = [buffer EXCEPT ![j] = @ \cup {NextLine(j)}]
  /\ GoTo(j, IF Cardinality(buffer'[j]) > FlushSize THEN "lookup" ELSE "progress")
  /\ UNCHANGED <<db, bulk, stray, todo, found, batch, staging, errors, saved, attempts,
                 crashes, merged>>

ReadGood(j) ==
  /\ pc[j] = "read"
  /\ NextLine(j) \in Lines(j)
  /\ Record(j, NextLine(j)).good
  /\ totals' = Set(totals, j, Add(Add(totals[j], "read", 1), "valid", 1))
  /\ buffer' = [buffer EXCEPT ![j] = @ \cup {NextLine(j)}]
  /\ GoTo(j, IF Cardinality(buffer'[j]) >= FlushSize THEN "lookup" ELSE "progress")
  /\ UNCHANGED <<db, bulk, stray, todo, found, batch, staging, errors, saved, attempts,
                 crashes, merged>>

Staged(j) == IF Entity(j) = "articles" THEN "slugs" ELSE "merge"

(* End of the input: flushAllBuffers hands over what is left.              *)
ReadEnd(j) ==
  /\ pc[j] = "read"
  /\ NextLine(j) \notin Lines(j)
  /\ GoTo(j, IF buffer[j] # {} THEN "lookup" ELSE Staged(j))
  /\ UNCHANGED <<db, bulk, stray, run, staging, errors, saved, attempts, crashes, merged>>

(* After a record of the loop, unless it failed: the progress update.      *)
Progress(j) ==
  /\ pc[j] = "progress"
  /\ GoTo(j, "read")
  /\ saved' = IF totals[j].read % ProgressEvery = 0
              THEN Set(saved, j, totals[j]) ELSE saved
  /\ UNCHANGED <<db, bulk, stray, run, staging, errors, attempts, crashes, merged>>

-----------------------------------------------------------------------------
(* Mutant: a worker that runs a job again trusts what it looked up before. *)
Lookup_Cached(j) ==
  /\ pc[j] = "lookup"
  /\ GoTo(j, "items")
  /\ found' = IF attempts[j] = 0 THEN Set(found, j, db) ELSE found
  /\ todo' = Set(todo, j, buffer[j])
  /\ UNCHANGED <<db, bulk, stray, totals, buffer, batch, staging, errors, saved, attempts,
                 crashes, merged>>

(* A batch: the lookups at its head are all it sees of other imports.      *)
Lookup(j) ==
  /\ pc[j] = "lookup"
  /\ GoTo(j, "items")
  /\ found' = Set(found, j, db)
  /\ todo' = Set(todo, j, buffer[j])
  /\ UNCHANGED <<db, bulk, stray, totals, buffer, batch, staging, errors, saved, attempts,
                 crashes, merged>>

RowOf(j, n) ==
  LET r == Record(j, n) IN
  [line |-> n, id |-> Resolved(found[j], Entity(j), r), key |-> r.key]

ItemAccepted(j, n) == Accepted(found[j], Entity(j), staging[j], batch[j], Record(j, n))

IsNext(j, n) == \A m \in todo[j] : n <= m

WriteItem(j) ==
  /\ pc[j] = "items"
  /\ \E n \in todo[j] :
     /\ IsNext(j, n)
     /\ ItemAccepted(j, n)
     /\ batch' = [batch EXCEPT ![j] = @ \cup {RowOf(j, n)}]
     /\ todo' = [todo EXCEPT ![j] = @ \ {n}]
  /\ UNCHANGED <<db, bulk, stray, pc, totals, buffer, found, staging, errors, saved,
                 attempts, crashes, merged>>

(* Mutant: valid is corrected and failed is not counted.                   *)
RejectItem_Uncounted(j) ==
  /\ pc[j] = "items"
  /\ \E n \in todo[j] :
     /\ IsNext(j, n)
     /\ ~ItemAccepted(j, n)
     /\ errors' = [errors EXCEPT ![j] = @ \cup {n}]
     /\ todo' = [todo EXCEPT ![j] = @ \ {n}]
  /\ totals' = Set(totals, j, Add(totals[j], "valid", -1))
  /\ UNCHANGED <<db, bulk, stray, pc, buffer, found, batch, staging, saved, attempts,
                 crashes, merged>>

(* recordDuplicateError, or the same for a missing reference.              *)
RejectItem(j) ==
  /\ pc[j] = "items"
  /\ \E n \in todo[j] :
     /\ IsNext(j, n)
     /\ ~ItemAccepted(j, n)
     /\ errors' = [errors EXCEPT ![j] = @ \cup {n}]
     /\ todo' = [todo EXCEPT ![j] = @ \ {n}]
  /\ totals' = Set(totals, j, Add(Add(totals[j], "valid", -1), "failed", 1))
  /\ UNCHANGED <<db, bulk, stray, pc, buffer, found, batch, staging, saved, attempts,
                 crashes, merged>>

(* writeRowsToStaging: COPY writes all rows of the batch or none.  A full  *)
(* batch was flushed inside the loop, a smaller one after it.              *)
CopyBatch(j) ==
  /\ pc[j] = "items"
  /\ todo[j] = {}
  /\ staging' = [staging EXCEPT ![j] = @ \cup batch[j]]
  /\ batch' = Set(batch, j, {})
  /\ buffer' = Set(buffer, j, {})
  /\ GoTo(j, IF Cardinality(buffer[j]) = FlushSize THEN "progress" ELSE Staged(j))
  /\ UNCHANGED <<db, bulk, stray, totals, todo, found, errors, saved, attempts, crashes,
                 merged>>

-----------------------------------------------------------------------------
(* Mutant: conflicting slugs are left to the merge.                        *)
RejectSlugs_Skipped(j) ==
  /\ pc[j] = "slugs"
  /\ GoTo(j, "merge")
  /\ UNCHANGED <<db, bulk, stray, run, staging, errors, saved, attempts, crashes, merged>>

(* findAndDeleteSlugConflicts and its error rows: failed goes up, valid    *)
(* stays.                                                                  *)
RejectSlugs(j) ==
  /\ pc[j] = "slugs"
  /\ GoTo(j, "merge")
  /\ LET conflicts == SlugConflicts(db["articles"], staging[j]) IN
     /\ staging' = [staging EXCEPT ![j] = @ \ conflicts]
     /\ errors' = [errors EXCEPT ![j] = @ \cup {r.line : r \in conflicts}]
     /\ totals' = Set(totals, j, Add(totals[j], "failed", Cardinality(conflicts)))
  /\ UNCHANGED <<db, bulk, stray, buffer, todo, found, batch, saved, attempts, crashes, merged>>

(* mergeStagingRows                                                        *)
Merge(j) ==
  /\ pc[j] = "merge"
  /\ MergeAccepts(db[Entity(j)], staging[j])
  /\ db' = [db EXCEPT ![Entity(j)] = Merged(@, staging[j])]
  /\ merged' = [merged EXCEPT ![j] = @ \cup {r.line : r \in staging[j]}]
  /\ GoTo(j, "save")
  /\ UNCHANGED <<bulk, stray, run, staging, errors, saved, attempts, crashes>>

(* Mutant: an error of the merge is logged and the job goes on.            *)
MergeRefused_GoesOn(j) ==
  /\ pc[j] = "merge"
  /\ ~MergeAccepts(db[Entity(j)], staging[j])
  /\ GoTo(j, "save")
  /\ UNCHANGED <<db, bulk, stray, run, staging, errors, saved, attempts, crashes, merged>>

MergeRefused(j) ==
  /\ pc[j] = "merge"
  /\ ~MergeAccepts(db[Entity(j)], staging[j])
  /\ GoTo(j, "catch")
  /\ UNCHANGED <<db, bulk, stray, run, staging, errors, saved, attempts, crashes, merged>>

(* A merge locks rows in the order of its lines: those it writes and, for  *)
(* foreign keys, those it refers to.  It may have to wait for another one  *)
(* while it holds rows itself.                                             *)
RefersTo(j, r, k, s) == s.id \in Record(j, r.line).refs[Entity(k)]

Clash(j, r, k, s) ==
  \/ Entity(j) = Entity(k) /\ (r.id = s.id \/ r.key = s.key)
  \/ RefersTo(j, r, k, s) \/ RefersTo(k, s, j, r)

WaitsFor(j, k) ==
  \E r1, r2 \in staging[j], s \in staging[k] : r1.line < r2.line /\ Clash(j, r2, k, s)

Deadlocked(stuck) ==
  \A j \in stuck : pc[j] = "merge" /\ \E k \in stuck \ {j} : WaitsFor(j, k)

(* Of merges that wait for each other PostgreSQL aborts some.  The first   *)
(* to get through ends, one way or the other, before those come back: they *)
(* wait out a backoff.                                                     *)
MergeDeadlocks(stuck, lost, k) ==
  LET accepted == MergeAccepts(db[Entity(k)], staging[k]) IN
  /\ "deadlock" \in Faults
  /\ Deadlocked(stuck)
  /\ db' = IF accepted THEN [db EXCEPT ![Entity(k)] = Merged(@, staging[k])] ELSE db
  /\ merged' = IF accepted THEN [merged EXCEPT ![k] = @ \cup {r.line : r \in staging[k]}]
                           ELSE merged
  /\ pc' = [j \in Jobs |-> IF j \in lost \/ (j = k /\ ~accepted) THEN "catch"
                           ELSE IF j = k THEN "save" ELSE pc[j]]
  /\ UNCHANGED <<bulk, stray, run, staging, errors, saved, attempts, crashes>>

(* countStagingRows and updateJobTotals                                    *)
Save(j) ==
  /\ pc[j] = "save"
  /\ GoTo(j, "tidy")
  /\ totals' = Set(totals, j, [totals[j] EXCEPT !.written = Cardinality(staging[j])])
  /\ saved' = Set(saved, j, totals'[j])
  /\ UNCHANGED <<db, bulk, stray, buffer, todo, found, batch, staging, errors, attempts,
                 crashes, merged>>

(* deleteStagingRows                                                       *)
Tidy(j) ==
  /\ pc[j] = "tidy"
  /\ GoTo(j, "complete")
  /\ staging' = Set(staging, j, {})
  /\ UNCHANGED <<db, bulk, stray, run, errors, saved, attempts, crashes, merged>>

(* What a run keeps in memory ends with it.                                *)
EndRun(j, l) ==
  /\ GoTo(j, l)
  /\ totals' = Set(totals, j, Zero)
  /\ buffer' = Set(buffer, j, {})
  /\ todo' = Set(todo, j, {})
  /\ batch' = Set(batch, j, {})
  /\ UNCHANGED <<db, bulk, stray, found, errors, merged>>

(* markJobCompleted                                                        *)
Complete(j) ==
  /\ pc[j] = "complete"
  /\ EndRun(j, "ack")
  /\ saved' = Set(saved, j, totals[j])
  /\ UNCHANGED <<staging, attempts, crashes>>

(* BullMQ is told.  Until then the job, completed or not, may run again.   *)
Ack(j) ==
  /\ pc[j] = "ack"
  /\ GoTo(j, "completed")
  /\ UNCHANGED <<db, bulk, stray, run, staging, errors, saved, attempts, crashes, merged>>

-----------------------------------------------------------------------------
(* Mutant: the error is not rethrown, so BullMQ does not retry.            *)
Catch_Swallows(j) ==
  /\ pc[j] = "catch"
  /\ EndRun(j, "failed")
  /\ staging' = Set(staging, j, {})
  /\ UNCHANGED <<saved, attempts, crashes>>

(* The catch block: its clean-up may fail too.  BullMQ retries.            *)
Catch(j) ==
  /\ pc[j] = "catch"
  /\ EndRun(j, IF attempts[j] + 1 < MaxAttempts THEN "waiting" ELSE "failed")
  /\ attempts' = [attempts EXCEPT ![j] = @ + 1]
  /\ \/ staging' = Set(staging, j, {})
     \/ "statement" \in Faults /\ UNCHANGED staging
  /\ UNCHANGED <<saved, crashes>>

(* Whatever is awaited in the try block may fail; a statement that commits *)
(* and still reports an error is the failure of the step after it.         *)
StatementFails(j) ==
  /\ "statement" \in Faults
  /\ pc[j] \in Running \ {"clear", "catch"}
  /\ GoTo(j, "catch")
  /\ UNCHANGED <<db, bulk, stray, run, staging, errors, saved, attempts, crashes, merged>>

(* The worker dies: BullMQ sees the entry stall and runs the job again.    *)
Crash(j) ==
  /\ "crash" \in Faults
  /\ pc[j] \in Running
  /\ crashes[j] < MaxCrashes
  /\ crashes' = [crashes EXCEPT ![j] = @ + 1]
  /\ EndRun(j, "waiting")
  /\ UNCHANGED <<staging, saved, attempts>>

-----------------------------------------------------------------------------
Step(j) ==
  \/ Start(j) \/ ClearPrevious(j)
  \/ ReadBad(j) \/ ReadGood(j) \/ ReadEnd(j) \/ Progress(j)
  \/ Lookup(j) \/ WriteItem(j) \/ RejectItem(j) \/ CopyBatch(j)
  \/ RejectSlugs(j) \/ Merge(j) \/ MergeRefused(j)
  \/ Save(j) \/ Tidy(j) \/ Complete(j) \/ Ack(j) \/ Catch(j)

Next ==
  \/ \E j \in Jobs :
       Step(j) \/ ClearFails(j) \/ StrayDelete(j) \/ StatementFails(j) \/ Crash(j)
  \/ \E stuck \in SUBSET Jobs : \E k \in stuck : \E lost \in SUBSET (stuck \ {k}) \ {{}} :
       MergeDeadlocks(stuck, lost, k)

Spec == Init /\ [][Next]_vars

(* Awaited statements end, and BullMQ starts and retries jobs.             *)
FairSpec == Spec /\ \A j \in Jobs : WF_vars(Step(j)) /\ WF_vars(StrayDelete(j))

-----------------------------------------------------------------------------
(* Properties                                                              *)

Describes(j, t) ==
  /\ t.read = Length(j)
  /\ t.failed = Cardinality(errors[j])
  /\ t.written = Length(j) - Cardinality(errors[j])

(* What the reader could not read of a file is one line that is an error.  *)
CutIsLogged(j) == bulk[j].records # bulk[j].file => Length(j) \in errors[j]

(* The totals of a completed job describe its error report: every line     *)
(* that the reader delivers is read once and either logged as an error or  *)
(* written, however often the job was cut off and run again, and a job     *)
(* that completes with part of its file has an error that says so.         *)
TotalsMatchReport ==
  \A j \in Jobs : pc[j] \in MarkedCompleted => Describes(j, saved[j]) /\ CutIsLogged(j)

(* Batches are invisible: what reaches the merge is what one pass over all *)
(* that the run reads selects.  Of the users that share an id or an email, *)
(* the first wins.  Of the articles that share an id the first stays, and  *)
(* of those that share a slug again the first; comments have only an id.   *)
(* Imports of other entities may run meanwhile, if nothing refers to them. *)
FirstWins ==
  \A j \in Jobs : pc[j] = "merge" /\ Apart(j) => Selects(j, {r.line : r \in staging[j]})

(* The checks before it leave the merge nothing to refuse: an import never *)
(* fails as a whole because of what its records say, unless another import *)
(* of the same entity gets in between.                                     *)
MergeNeverRefused ==
  \A j \in Jobs : pc[j] = "merge" /\ OwnTable(j) => MergeAccepts(db[Entity(j)], staging[j])

(* No run of a job gets less than its file: only JSON streams are cut.     *)
Unbroken(j) == bulk[j].json => "input" \notin Faults

(* The report of a completed job and the database agree.  Every line that  *)
(* is not an error was written, and is in the table unless another import  *)
(* of the entity changed it.  No line that is an error was written, unless *)
(* by an earlier attempt: then its key is gone again, or taken by a line   *)
(* that is no error.  That last claim is not made for articles, where a    *)
(* line may lose its row to a line that in the end loses its slug, nor     *)
(* where runs may get different parts of the file.                         *)
ReportMatchesDatabase ==
  \A j \in Jobs : pc[j] \in MarkedCompleted =>
    /\ \A n \in Lines(j) \ errors[j] : n \in merged[j] /\ (OwnTable(j) => InTable(j, n))
    /\ attempts[j] + crashes[j] = 0 => merged[j] \cap errors[j] = {}
    /\ Unbroken(j) /\ Apart(j) /\ Entity(j) # "articles" =>
         \A n \in merged[j] \cap errors[j] : InTable(j, n) =>
           \E m \in Lines(j) \ errors[j] : Repeats(j, m, n)

(* Imports fail only where others succeed: where no statement fails, every *)
(* failed attempt of an import is paid for by another import's merge, so   *)
(* no two of them can go on undoing each other until both run out of       *)
(* attempts.  Of three, one may fail twice for a single merge: refused     *)
(* because of it, and then aborted for a merge that it refuses too.        *)
AfterMerge == {"save", "tidy", "complete", "ack", "completed"}
MergedBeside(j) == {k \in Jobs \ {j} : pc[k] \in AfterMerge}

FailuresArePaidFor ==
  \A j \in Jobs : attempts[j] <= Cardinality(MergedBeside(j))

(* Imports that disturb each other recover: where no statement fails, each *)
(* of them completes within the attempts BullMQ grants.                    *)
ImportsComplete == \A j \in Jobs : <>(pc[j] = "completed")

(* The totals add up, as in the README's example: 10000 read, 9985 valid,  *)
(* 15 failed, 9985 written.                                                *)
TotalsAddUp ==
  \A j \in Jobs : pc[j] \in MarkedCompleted =>
    saved[j].read = saved[j].valid + saved[j].failed

(* Attempts begin and end as the queue of JobSystem lets them: a job runs  *)
(* again after a failed attempt or a crash as long as some are left, never *)
(* after it has completed, and what ended each attempt is counted.         *)
Runs == INSTANCE JobRuns WITH
  Runners <- Jobs,
  MaxFailures <- MaxAttempts,
  MaxLosses <- MaxCrashes,
  runs <- [j \in Jobs |-> IF pc[j] \in Running THEN {j} ELSE {}],
  failures <- attempts,
  losses <- crashes,
  done <- {j \in Jobs : pc[j] = "completed"}

ImplementsJobRuns == Runs!Spec

(* Seen from outside an import is a single write (module WholeImport).     *)
Outcome(j) ==
  CASE pc[j] \in {"save", "tidy", "complete"} -> "written"
    [] pc[j] \in MarkedCompleted -> "completed"
    [] pc[j] = "failed" -> "failed"
    [] OTHER -> "open"

Report(j) == [errors |-> errors[j], read |-> saved[j].read, failed |-> saved[j].failed,
              written |-> saved[j].written]

Whole == INSTANCE WholeImport WITH
  outcome <- [j \in Jobs |-> Outcome(j)],
  written <- [j \in Jobs |-> IF pc[j] \in AfterMerge THEN Lines(j) \ errors[j] ELSE {}],
  report <- [j \in Jobs |-> IF pc[j] \in MarkedCompleted THEN Report(j) ELSE
               [errors |-> {}, read |-> 0, failed |-> 0, written |-> 0]]

(* Batches, staging tables and error rows, retries, crashes and deadlocks  *)
(* leave no trace: the database changes in one step per attempt, by what   *)
(* one pass over the records it reads selects, and the report of a         *)
(* completed import lists exactly the lines that this step did not write.  *)
ImplementsWholeImport == Whole!Spec

-----------------------------------------------------------------------------
(* The inductive invariant behind typing and TotalsMatchReport.            *)

BulkOK ==
  /\ bulk \in [Jobs -> [entity : Entities, json : BOOLEAN, file : Seq(Records \cup {Bad}),
                        records : Seq(Records \cup {Bad})]]
  /\ \A j \in Jobs :
       /\ \E b \in Inputs : bulk[j] = Opened(b, bulk[j].records)
       /\ bulk[j].records \in Deliveries(bulk[j])
       /\ Unbroken(j) => bulk[j].records = bulk[j].file

LinesOf(rows) == {r.line : r \in rows}

(* The lines that a run has read and not yet decided about.                *)
Pending(j) == IF pc[j] = "items" THEN todo[j] ELSE buffer[j]

Kept(j) == staging[j] \cup batch[j]

Reading == {"read", "progress", "lookup", "items"}
Counting == Reading \cup {"slugs", "merge", "save", "tidy"}

(* A run begins with nothing in memory.                                    *)
FreshStart(j) ==
  pc[j] \in {"waiting", "clear"} =>
    totals[j] = Zero /\ buffer[j] = {} /\ todo[j] = {} /\ batch[j] = {}

AttemptsLeft(j) == pc[j] \in Running \cup {"waiting"} => attempts[j] < MaxAttempts

PendingAreGood(j) == \A n \in buffer[j] : Record(j, n).good
KeptAreGood(j) == \A r \in Kept(j) : Record(j, r.line).good

OneRowPerLine(j) == \A r, s \in Kept(j) : r.line = s.line => r = s

(* Each line read so far is in the report, in the staging table or batch,  *)
(* or pending, and in one of these only.                                   *)
LinesAccounted(j) ==
  pc[j] \in Counting =>
    /\ errors[j] \cup LinesOf(Kept(j)) \cup Pending(j) = 1..totals[j].read
    /\ errors[j] \cap LinesOf(Kept(j)) = {}
    /\ errors[j] \cap Pending(j) = {}
    /\ LinesOf(Kept(j)) \cap Pending(j) = {}

CountsFit(j) ==
  /\ pc[j] \in Counting => totals[j].failed = Cardinality(errors[j])
  /\ pc[j] \in Reading =>
       totals[j].valid = Cardinality(Kept(j)) + Cardinality(Pending(j))
  /\ pc[j] = "tidy" => totals[j].written = Cardinality(staging[j])

(* A batch is full, or it is the last.                                     *)
BatchesFit(j) ==
  /\ pc[j] \in {"read", "progress"} => Cardinality(buffer[j]) < FlushSize
  /\ pc[j] \in {"lookup", "items"} /\ Cardinality(buffer[j]) # FlushSize =>
       totals[j].read = Length(j)
  /\ pc[j] \in Counting \ {"items"} => todo[j] = {} /\ batch[j] = {}
  /\ pc[j] \in Counting \ Reading => buffer[j] = {} /\ totals[j].read = Length(j)

Reported(j) ==
  /\ pc[j] = "complete" => Describes(j, totals[j])
  /\ pc[j] \in MarkedCompleted => Describes(j, saved[j])
  /\ pc[j] \in MarkedCompleted \cup {"complete"} =>
       \A n \in Lines(j) : ~Record(j, n).good => n \in errors[j]

JobInv(j) ==
  /\ FreshStart(j) /\ AttemptsLeft(j)
  /\ PendingAreGood(j) /\ KeptAreGood(j) /\ OneRowPerLine(j) /\ LinesAccounted(j)
  /\ CountsFit(j) /\ BatchesFit(j) /\ Reported(j)

IInv == TypeOK /\ BulkOK /\ \A j \in Jobs : JobInv(j)

-----------------------------------------------------------------------------
(* The inductive invariant behind MergeNeverRefused.                       *)

(* The staged rows are about rows of their own, with keys of their own.    *)
RowsDistinct(j) ==
  /\ Sound(found[j])
  /\ \A r \in Kept(j) : Record(j, r.line).good /\ r.key = Record(j, r.line).key
  /\ pc[j] \in Reading \cup {"slugs", "merge"} =>
       /\ \A r, s \in Kept(j) : r # s => r.id # s.id
       /\ Entity(j) = "comments" => \A r \in Kept(j) : r.key = r.id
       /\ Entity(j) = "users" \/ pc[j] = "merge" =>
            \A r, s \in Kept(j) : r # s => r.key # s.key

(* Nobody else has the key of a staged row.                                *)
RowsFit(j) ==
  /\ pc[j] = "items" => found[j][Entity(j)] = db[Entity(j)]
  /\ pc[j] \in Reading \cup {"slugs", "merge"} =>
       \A r \in Kept(j), i \in Names : db[Entity(j)][i] = r.key => i = r.id

FitInv ==
  /\ Sound(db)
  /\ \A j \in Jobs : RowsDistinct(j) /\ (OwnTable(j) => RowsFit(j))

(* Behind FirstWins: lines are decided in their order, the kept ones are   *)
(* eligible, and an eligible line is only given up for an earlier kept     *)
(* one, until the slugs of articles are compared.                          *)
Supersedes(j, r, n) ==
  /\ r.line < n
  /\ \/ r.id = Resolved(db, Entity(j), Record(j, n))
     \/ Entity(j) = "users" /\ r.key = Record(j, n).key

KeptIsRow(j, r) ==
  /\ Eligible(j, r.line)
  /\ r.id = Resolved(db, Entity(j), Record(j, r.line))
  /\ r.key = Record(j, r.line).key

DecidedInOrder(j) ==
  /\ \A r \in Kept(j), n \in Pending(j) : r.line < n
  /\ \A r \in Kept(j) : KeptIsRow(j, r)
  /\ \A n \in errors[j] : Eligible(j, n) => \E r \in Kept(j) : Supersedes(j, r, n)

ChoiceFits(j) ==
  /\ pc[j] = "items" => \A e \in Reads(j) : found[j][e] = db[e]
  /\ pc[j] = "slugs" => Entity(j) = "articles"
  /\ pc[j] \in Reading \cup {"slugs"} \/ (pc[j] = "merge" /\ Entity(j) # "articles") =>
       DecidedInOrder(j)
  /\ pc[j] = "merge" /\ Entity(j) = "articles" =>
       Selects(j, LinesOf(staging[j])) /\ \A r \in Kept(j) : KeptIsRow(j, r)

ChoiceInv == \A j \in Jobs : Apart(j) => ChoiceFits(j)

(* Behind ReportMatchesDatabase: a key that this job ever wrote, and that  *)
(* is still in the table, belongs to a line that is eligible if the file   *)
(* is read again.                                                          *)
ReportFits(j) ==
  /\ pc[j] \in AfterMerge =>
       \A n \in Lines(j) \ errors[j] : n \in merged[j] /\ (OwnTable(j) => InTable(j, n))
  /\ attempts[j] + crashes[j] = 0 =>
       /\ pc[j] \in AfterMerge => merged[j] \cap errors[j] = {}
       /\ pc[j] \notin AfterMerge \cup {"catch"} => merged[j] = {}
  /\ Unbroken(j) /\ Apart(j) /\ Entity(j) # "articles" =>
       \A n \in merged[j] : InTable(j, n) =>
         /\ \E m \in Lines(j) : Eligible(j, m) /\ Repeats(j, m, n)
         /\ pc[j] \in AfterMerge => \E m \in Lines(j) \ errors[j] : Repeats(j, m, n)

ReportInv == \A j \in Jobs : ReportFits(j)

(* Behind FailuresArePaidFor: staged rows no longer fit only after a merge *)
(* that no failure has been paid for with yet.                             *)
PaidFor(j) ==
  /\ attempts[j] <= Cardinality(MergedBeside(j))
  /\ pc[j] = "catch" \/ ~RowsFit(j) => attempts[j] < Cardinality(MergedBeside(j))

PaidInv == \A j \in Jobs : PaidFor(j)
=============================================================================
