------------------------------- MODULE Worker -------------------------------
(***************************************************************************)
(* interfaces/worker/index.ts: what a worker process does with an entry.   *)
(* A runner is one of the BULK_WORKER_CONCURRENCY invocations of           *)
(* processImportJob or runExportJob that a process has in flight; every    *)
(* awaited statement on the job's row is a step.  What the body does with  *)
(* the records is in module ImportPipeline.                                *)
(***************************************************************************)
EXTENDS BulkQueue

CONSTANTS
  ProcOf,     \* the process of each runner
  NoJob,
  Faults      \* the faults a run admits

(* "crash": a process dies.  "early": a statement before the try block     *)
(* fails.  "late": markJobCompleted or markJobFailed fails.  "answer": a   *)
(* statement on the row commits and its answer is lost.  "ack": BullMQ     *)
(* cannot be told how a job ended.  "zombie": a live runner fails to renew *)
(* its lock.  "slow": a live run outlasts STALE_JOB_TIMEOUT_MS.  "lost":   *)
(* an enqueue fails.  "evict": old entries are removed.  "ttl": the        *)
(* recovery lock expires during a sweep.  "sweep": a statement of a sweep  *)
(* fails.                                                                  *)
FaultKinds == {"crash", "early", "late", "answer", "ack", "zombie", "slow", "lost", "evict",
               "ttl", "sweep"}

ASSUME WorkerAssumption ==
  /\ ProcOf \in [Runners -> Processes]
  /\ NoJob \notin Jobs
  /\ Faults \subseteq FaultKinds

VARIABLES
  up,   \* "down", "starting" (startup recovery), "up" (taking jobs)
  pc,   \* where each runner is suspended
  job   \* the job each runner works on

runnerVars == <<pc, job>>

RunnerPcs == {"idle", "find", "mark", "connect", "body", "complete", "fail", "ack", "nack"}

WorkerTypeOK ==
  /\ up \in [Processes -> {"down", "starting", "up"}]
  /\ pc \in [Runners -> RunnerPcs]
  /\ job \in [Runners -> Jobs \cup {NoJob}]

WorkerInit ==
  /\ up = [p \in Processes |-> "starting"]
  /\ pc = [x \in Runners |-> "idle"]
  /\ job = [x \in Runners |-> NoJob]

Busy(x) == pc[x] # "idle"

GoTo(x, l) == pc' = [pc EXCEPT ![x] = l] /\ UNCHANGED job
Park(x) ==
  /\ pc' = [pc EXCEPT ![x] = "idle"]
  /\ job' = [job EXCEPT ![x] = NoJob]

-----------------------------------------------------------------------------
Take(x, j) ==
  /\ up[ProcOf[x]] = "up"
  /\ pc[x] = "idle"
  /\ TakeEntry(x, j)
  /\ pc' = [pc EXCEPT ![x] = "find"]
  /\ job' = [job EXCEPT ![x] = j]
  /\ UNCHANGED jobVars

(* findJobById.  The pipeline refuses csv before it marks the job running. *)
FindJob(x) ==
  /\ pc[x] = "find"
  /\ GoTo(x, IF job[x] \in Unsupported THEN "fail" ELSE "mark")
  /\ UNCHANGED <<jobVars, queueVars>>

(* Mutant: the row is not marked before the work starts.                   *)
MarkRunning_Skipped(x) ==
  /\ pc[x] = "mark"
  /\ GoTo(x, IF KindOf[job[x]] = "import" THEN "connect" ELSE "body")
  /\ UNCHANGED <<jobVars, queueVars>>

(* If its answer is lost, the row says running and the run ends here.      *)
MarkRunning(x) ==
  /\ pc[x] = "mark"
  /\ markJobRunning(job[x])
  /\ \/ GoTo(x, IF KindOf[job[x]] = "import" THEN "connect" ELSE "body")
     \/ "answer" \in Faults /\ GoTo(x, "nack")
  /\ UNCHANGED queueVars

(* pool.connect                                                            *)
Connect(x) ==
  /\ pc[x] = "connect"
  /\ GoTo(x, "body")
  /\ UNCHANGED <<jobVars, queueVars>>

(* Before the try block an error goes straight to BullMQ.                  *)
EarlyFailure(x) ==
  /\ "early" \in Faults
  /\ pc[x] \in {"find", "mark", "connect"}
  /\ GoTo(x, "nack")
  /\ UNCHANGED <<jobVars, queueVars>>

(* The records are processed, or something in the try block throws.        *)
Body(x) ==
  /\ pc[x] = "body"
  /\ GoTo(x, "complete") \/ GoTo(x, "fail")
  /\ UNCHANGED <<jobVars, queueVars>>

(* If it fails, or commits and its answer is lost, the catch block runs:   *)
(* in the second case over a row that is completed.                        *)
MarkCompleted(x) ==
  /\ pc[x] = "complete"
  /\ \/ markJobCompleted(job[x]) /\ GoTo(x, "ack")
     \/ "answer" \in Faults /\ markJobCompleted(job[x]) /\ GoTo(x, "fail")
     \/ "late" \in Faults /\ GoTo(x, "fail") /\ UNCHANGED jobVars
  /\ UNCHANGED queueVars

(* Mutant: the catch block does not rethrow, so BullMQ sees a success.     *)
MarkFailed_Swallows(x) ==
  /\ pc[x] = "fail"
  /\ markJobFailed(job[x]) /\ GoTo(x, "ack")
  /\ UNCHANGED queueVars

(* The catch block: markJobFailed, then rethrow, whether or not it worked. *)
MarkFailed(x) ==
  /\ pc[x] = "fail"
  /\ \/ markJobFailed(job[x]) /\ GoTo(x, "nack")
     \/ "late" \in Faults /\ GoTo(x, "nack") /\ UNCHANGED jobVars
  /\ UNCHANGED queueVars

Report(x) ==
  /\ \/ pc[x] = "ack" /\ CompleteEntry(x, job[x])
     \/ pc[x] = "nack" /\ FailEntry(x, job[x])
  /\ Park(x)
  /\ UNCHANGED jobVars

(* The report does not reach Redis: the lock is no longer renewed.         *)
ReportLost(x) ==
  /\ "ack" \in Faults
  /\ pc[x] \in {"ack", "nack"}
  /\ holder' = [holder EXCEPT ![job[x]] = IF @ = x THEN NoRunner ELSE @]
  /\ Park(x)
  /\ UNCHANGED <<jobVars, entry, attempts, stalls>>

RunnerStep(x) ==
  /\ \/ FindJob(x) \/ MarkRunning(x) \/ Connect(x) \/ EarlyFailure(x)
     \/ Body(x) \/ MarkCompleted(x) \/ MarkFailed(x) \/ Report(x) \/ ReportLost(x)
  /\ UNCHANGED up

-----------------------------------------------------------------------------
Promote(j) == PromoteEntry(j) /\ UNCHANGED <<jobVars, up, runnerVars>>

(* Any live process detects stalled entries.                               *)
Stall(j) ==
  /\ holder[j] = NoRunner \/ "zombie" \in Faults
  /\ \E p \in Processes : up[p] = "up"
  /\ StallEntry(j)
  /\ UNCHANGED <<jobVars, up, runnerVars>>

Evict(j) ==
  /\ "evict" \in Faults
  /\ EvictEntry(j)
  /\ UNCHANGED <<jobVars, up, runnerVars>>

(* Time passes.  A run that is still alive ages only where "slow" says so. *)
Age(j) ==
  /\ status[j] = "running"
  /\ j \notin aged
  /\ "slow" \in Faults \/ \A x \in Runners : job[x] # j
  /\ aged' = aged \cup {j}
  /\ UNCHANGED <<status, queueVars, up, runnerVars>>
=============================================================================
