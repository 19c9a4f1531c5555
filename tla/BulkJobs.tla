------------------------------ MODULE BulkJobs ------------------------------
(***************************************************************************)
(* The rows of table bulk_jobs, as far as the life of a job depends on     *)
(* them, and the statements of jobRepository.ts that change them.  None of *)
(* these statements looks at the status it overwrites, except the sweep of *)
(* stale rows.                                                             *)
(***************************************************************************)
CONSTANTS
  Jobs,
  KindOf,       \* "import" or "export"
  Unsupported   \* export jobs whose format the pipeline refuses (csv)

ASSUME JobsAssumption ==
  /\ KindOf \in [Jobs -> {"import", "export"}]
  /\ Unsupported \subseteq {j \in Jobs : KindOf[j] = "export"}

VARIABLES
  status,   \* column status of each row, "none" while there is no row
  aged      \* running rows whose started_at is older than STALE_JOB_TIMEOUT_MS

jobVars == <<status, aged>>

Statuses == {"none", "queued", "running", "completed", "failed"}
Settled == {"completed", "failed"}

JobsTypeOK ==
  /\ status \in [Jobs -> Statuses]
  /\ aged \subseteq Jobs

JobsInit ==
  /\ status = [j \in Jobs |-> "none"]
  /\ aged = {}

SetStatus(j, s) ==
  /\ status' = [status EXCEPT ![j] = s]
  /\ aged' = aged \ {j}

createJob(j) ==
  /\ status[j] = "none"
  /\ SetStatus(j, "queued")

markJobRunning(j) == SetStatus(j, "running")
markJobCompleted(j) == SetStatus(j, "completed")
markJobFailed(j) == SetStatus(j, "failed")

(* Mutant: rows are failed whatever their status.                          *)
markStaleRunningJobsFailed_AnyStatus ==
  /\ status' = [j \in Jobs |-> IF status[j] # "none" THEN "failed" ELSE "none"]
  /\ aged' = {}

(* Mutant: no stale row is ever found.                                     *)
markStaleRunningJobsFailed_Never == UNCHANGED jobVars

markStaleRunningJobsFailed ==
  /\ status' = [j \in Jobs |-> IF status[j] = "running" /\ j \in aged
                               THEN "failed" ELSE status[j]]
  /\ aged' = {}

queuedJobIds(kind) == {j \in Jobs : status[j] = "queued" /\ KindOf[j] = kind}
=============================================================================
