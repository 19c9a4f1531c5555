----------------------------- MODULE JobSystem -----------------------------
(***************************************************************************)
(* The life of bulk jobs: API processes create rows and enqueue them,      *)
(* worker processes run them, and recovery repairs what the two leave.     *)
(***************************************************************************)
EXTENDS Worker, Recovery

CONSTANT MaxCrashes   \* bound on the crashes of a behaviour

ASSUME SystemAssumption == MaxCrashes \in Nat

VARIABLES
  submitting,   \* the jobs whose row is written and whose enqueue is not done
  crashes

vars == <<jobVars, queueVars, up, runnerVars, sweepVars, submitting, crashes>>
apiVars == <<submitting, crashes>>

TypeOK ==
  /\ JobsTypeOK /\ QueueTypeOK /\ WorkerTypeOK /\ RecoveryTypeOK
  /\ submitting \subseteq Jobs
  /\ crashes \in 0..MaxCrashes

Init ==
  /\ JobsInit /\ QueueInit /\ WorkerInit /\ RecoveryInit
  /\ submitting = {}
  /\ crashes = 0

-----------------------------------------------------------------------------
(* enqueueNewImportJob and enqueueExportJob: the row first, then the entry *)
Create(j) ==
  /\ createJob(j)
  /\ submitting' = submitting \cup {j}
  /\ UNCHANGED <<crashes, queueVars, up, runnerVars, sweepVars>>

(* An enqueue that fails is logged; so is one cut off by a dying process.  *)
Submit(j) ==
  /\ j \in submitting
  /\ submitting' = submitting \ {j}
  /\ \/ enqueueBulkJob(j)
     \/ "lost" \in Faults /\ UNCHANGED queueVars
  /\ UNCHANGED <<crashes, jobVars, up, runnerVars, sweepVars>>

-----------------------------------------------------------------------------
(* startWorker: recovery first, then the handlers are attached.  A process *)
(* that does not get the lock skips its startup sweep.                     *)
StartSweep(p) ==
  /\ up[p] # "down"
  /\ acquireRecoveryLock(p)
  /\ UNCHANGED <<up, runnerVars, apiVars>>

SkipSweep(p) ==
  /\ up[p] = "starting"
  /\ sweep[p] = "idle"
  /\ lock # NoProcess
  /\ up' = [up EXCEPT ![p] = "up"]
  /\ UNCHANGED <<jobVars, queueVars, runnerVars, sweepVars, apiVars>>

(* runRecovery logs the error and goes on: at startup without a sweep.     *)
SweepNotBegun(p) ==
  /\ "sweep" \in Faults
  /\ up[p] # "down"
  /\ AcquireFails(p)
  /\ up' = [up EXCEPT ![p] = "up"]
  /\ UNCHANGED <<runnerVars, apiVars>>

Sweep(p) ==
  /\ SweepStep(p) \/ ("sweep" \in Faults /\ SweepFault(p))
  /\ up' = IF sweep[p] \in {"check", "delete"} /\ sweep'[p] = "idle"
           THEN [up EXCEPT ![p] = "up"] ELSE up
  /\ UNCHANGED <<runnerVars, apiVars>>

(* A dead process renews no lock and finishes no sweep.                    *)
Crash(p) ==
  /\ "crash" \in Faults
  /\ up[p] # "down"
  /\ crashes < MaxCrashes
  /\ crashes' = crashes + 1
  /\ up' = [up EXCEPT ![p] = "down"]
  /\ LET dead == {x \in Runners : ProcOf[x] = p} IN
     /\ pc' = [x \in Runners |-> IF x \in dead THEN "idle" ELSE pc[x]]
     /\ job' = [x \in Runners |-> IF x \in dead THEN NoJob ELSE job[x]]
     /\ holder' = [j \in Jobs |-> IF holder[j] \in dead THEN NoRunner ELSE holder[j]]
  /\ sweep' = [sweep EXCEPT ![p] = "idle"]
  /\ todo' = [todo EXCEPT ![p] = {}]
  /\ snap' = [snap EXCEPT ![p] = {}]
  /\ UNCHANGED <<jobVars, entry, attempts, stalls, lock, submitting>>

Restart(p) ==
  /\ up[p] = "down"
  /\ up' = [up EXCEPT ![p] = "starting"]
  /\ UNCHANGED <<jobVars, queueVars, runnerVars, sweepVars, apiVars>>

-----------------------------------------------------------------------------
Aside == UNCHANGED <<sweepVars, apiVars>>

Run(x) == RunnerStep(x) /\ Aside
Start(x) == \E j \in Jobs : Take(x, j) /\ UNCHANGED up /\ Aside
Tick(j) == (Promote(j) \/ Stall(j) \/ Age(j) \/ Evict(j)) /\ Aside

Expire == ExpireLock("ttl" \in Faults) /\ UNCHANGED <<up, runnerVars, apiVars>>

Next ==
  \/ \E j \in Jobs : Create(j) \/ Submit(j) \/ Tick(j)
  \/ \E x \in Runners : Start(x) \/ Run(x)
  \/ \E p \in Processes :
       \/ StartSweep(p) \/ SkipSweep(p) \/ SweepNotBegun(p) \/ Sweep(p)
       \/ Crash(p) \/ Restart(p)
  \/ Expire

Spec == Init /\ [][Next]_vars

(* A live process runs on and keeps taking entries, its recovery timer     *)
(* fires, BullMQ promotes delayed entries and detects stalled ones, and    *)
(* clocks advance.  A dead process is restarted ("unless-stopped" in       *)
(* docker-compose.yml).  Faults and creations are free.                    *)
FairSpec ==
  /\ Spec
  /\ \A j \in Jobs :
       /\ WF_vars(Submit(j))
       /\ WF_vars(Promote(j) /\ Aside)
       /\ WF_vars(Age(j) /\ Aside)
       /\ WF_vars(holder[j] = NoRunner /\ Stall(j) /\ Aside)
  /\ \A x \in Runners : WF_vars(Run(x)) /\ WF_vars(Start(x))
  /\ \A p \in Processes :
       /\ WF_vars(StartSweep(p) \/ SkipSweep(p))
       /\ WF_vars(Sweep(p))
       /\ WF_vars(Restart(p))
  /\ WF_vars(ExpireLock(FALSE) /\ UNCHANGED <<up, runnerVars, apiVars>>)

-----------------------------------------------------------------------------
(* Properties                                                              *)

(* Two handlers never work on one job at the same time: they would share   *)
(* its staging rows, its error rows and its totals.  What keeps them apart *)
(* is only the lock of the queue entry.                                    *)
SingleRunner ==
  \A x, y \in Runners : job[x] = job[y] /\ Busy(x) /\ Busy(y) => x = y

(* A row that waits to run can still get there: its entry is runnable, or  *)
(* there is none and recovery may add one.  An entry that has failed or    *)
(* completed would hide the row from recovery, since enqueueBulkJob takes  *)
(* any entry for a queued one.  It holds as long as statements before      *)
(* markJobRunning, or a refused export's markJobFailed, do not fail on     *)
(* every attempt and the entry does not stall more than MaxStalls times.   *)
QueuedIsRunnable ==
  \A j \in Jobs : status[j] = "queued" => entry[j] \in Runnable \cup {"none"}

(* An entry that BullMQ has dropped as completed leaves a completed row,   *)
(* although stale sweeps and failing statements write to the same row.     *)
AckedIsCompleted ==
  \A j \in Jobs : entry[j] = "completed" => status[j] = "completed"

(* A completed job is never run, failed or queued again, where its run     *)
(* learns that the row is completed and BullMQ learns that the run ended,  *)
(* and the entry is kept.  Otherwise the row is failed by the catch block, *)
(* or the job runs again; that is what ImportPipeline and ExportJob have   *)
(* to survive.                                                             *)
CompletedIsFinal ==
  [][\A j \in Jobs : status[j] = "completed" => status'[j] = "completed"]_vars

(* While the TTL outlasts a sweep, no two processes sweep at a time.       *)
OneSweeper ==
  \A p, q \in Processes : sweep[p] \in Sweeping /\ sweep[q] \in Sweeping => p = q

(* Every job that is created settles for good: whatever is lost on the     *)
(* way, the queue's retries and the recovery sweeps between them get its   *)
(* row out of queued and running.                                          *)
JobSettles ==
  \A j \in Jobs : status[j] # "none" ~> [](status[j] \in Settled)

(* What the handlers may rely on (module JobRuns): a run counts as lost    *)
(* from the moment its lock is given up, before BullMQ sees the stall.     *)
RunsOf(j) == {x \in Runners : Busy(x) /\ job[x] = j}
Losses(j) == stalls[j] + (IF entry[j] = "active" /\ holder[j] = NoRunner THEN 1 ELSE 0)

Runs == INSTANCE JobRuns WITH
  MaxFailures <- MaxAttempts,
  MaxLosses <- MaxStalls,
  runs <- [j \in Jobs |-> RunsOf(j)],
  failures <- attempts,
  losses <- [j \in Jobs |-> Losses(j)],
  done <- {j \in Jobs : entry[j] = "completed"}

(* Rows, locks, entries and sweeps together give every job one run at a    *)
(* time, count each failure and each loss once, and begin no run after a   *)
(* success, while live runners renew their locks and entries are kept.     *)
ImplementsJobRuns == Runs!Spec

-----------------------------------------------------------------------------
(* The inductive invariant behind typing and SingleRunner.                 *)

BusyHasJob == \A r \in Runners : Busy(r) => job[r] \in Jobs

(* Only an active entry is locked, and a live entry has attempts and       *)
(* stalls left.                                                            *)
LockedIsActive == \A j \in Jobs : holder[j] # NoRunner => entry[j] = "active"

WithinLimits ==
  \A j \in Jobs : entry[j] \in Runnable \cup {"none"} =>
    attempts[j] < MaxAttempts /\ stalls[j] <= MaxStalls

(* A runner works on a job only while it holds the job's entry.            *)
RunnerHoldsEntry == \A r \in Runners : Busy(r) => holder[job[r]] = r

(* Behind ImplementsJobRuns: and the lock of an entry is its runner's.     *)
HolderRuns ==
  \A j \in Jobs : holder[j] # NoRunner => Busy(holder[j]) /\ job[holder[j]] = j

(* Behind AckedIsCompleted: a success is reported after the row says so,   *)
(* and no entry exists before its row.                                     *)
AckAfterCompleted == \A r \in Runners : pc[r] = "ack" => status[job[r]] = "completed"

RowBeforeEntry ==
  \A j \in Jobs : status[j] = "none" =>
    /\ entry[j] = "none"
    /\ j \notin submitting
    /\ \A s \in Processes : j \notin snap[s]

(* Behind CompletedIsFinal: only the runner that completed a job, or       *)
(* nobody, still has to do with it.                                        *)
CompletedIsOver ==
  \A j \in Jobs : status[j] = "completed" =>
    \/ entry[j] = "completed"
    \/ \E r \in Runners : pc[r] = "ack" /\ job[r] = j

ActiveIsHeld == \A j \in Jobs : entry[j] = "active" => holder[j] # NoRunner

(* Behind QueuedIsRunnable: the row of a handler is queued only before     *)
(* markJobRunning, and every stall of its entry so far took a crash.       *)
QueuedIsEarly ==
  \A r \in Runners : Busy(r) /\ status[job[r]] = "queued" =>
    \/ pc[r] \in {"find", "mark"}
    \/ pc[r] = "fail" /\ job[r] \in Unsupported

StallsAreCrashes ==
  \A j \in Jobs :
    /\ status[j] = "none" => stalls[j] = 0
    /\ status[j] = "queued" => stalls[j] <= crashes
    /\ status[j] = "queued" /\ entry[j] = "active" /\ holder[j] = NoRunner
         => stalls[j] < crashes

(* Behind OneSweeper: whoever sweeps holds the lock.                       *)
SweeperHoldsLock == \A s \in Processes : sweep[s] \in Sweeping => lock = s
=============================================================================
