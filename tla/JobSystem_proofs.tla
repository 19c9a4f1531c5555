-------------------------- MODULE JobSystem_proofs --------------------------
(***************************************************************************)
(* Proofs about JobSystem for every set of jobs, processes and runners,    *)
(* and all limits.                                                         *)
(***************************************************************************)
EXTENDS JobSystem, TLAPS

TypeInv == TypeOK /\ BusyHasJob /\ LockedIsActive /\ WithinLimits

LEMMA InitTypeInv == Init => TypeInv
  BY QueueAssumption, SystemAssumption
     DEF Init, JobsInit, QueueInit, WorkerInit, RecoveryInit, TypeInv, TypeOK,
     JobsTypeOK, QueueTypeOK, WorkerTypeOK, RecoveryTypeOK, BusyHasJob, LockedIsActive,
     WithinLimits, Busy, Statuses, EntryStates, RunnerPcs, Sweeping, Runnable

(* What a runner does to its job's row and entry.                          *)
LEMMA RunTyped ==
  ASSUME TypeInv, NEW x \in Runners, Start(x) \/ Run(x)
  PROVE  TypeInv'
<1> USE QueueAssumption, WorkerAssumption
    DEF TypeInv, TypeOK, JobsTypeOK, QueueTypeOK, WorkerTypeOK, BusyHasJob, LockedIsActive,
        WithinLimits, Busy, Statuses, EntryStates, RunnerPcs, Runnable,
        jobVars, queueVars, runnerVars, GoTo, Park, SetStatus
<1>0. (RecoveryTypeOK /\ submitting \subseteq Jobs /\ crashes \in 0..MaxCrashes)'
  BY DEF Start, Run, Aside, sweepVars, apiVars, RecoveryTypeOK
<1>1. CASE Start(x)
  <2>1. PICK j \in Jobs : Take(x, j) /\ UNCHANGED up
    BY <1>1 DEF Start
  <2> QED
    BY <1>0, <2>1 DEF Take, TakeEntry
<1>2. CASE FindJob(x) /\ UNCHANGED up
  BY <1>0, <1>2 DEF FindJob
<1>3. CASE MarkRunning(x) /\ UNCHANGED up
  BY <1>0, <1>3 DEF MarkRunning, markJobRunning
<1>4. CASE (Connect(x) \/ EarlyFailure(x) \/ Body(x)) /\ UNCHANGED up
  BY <1>0, <1>4 DEF Connect, EarlyFailure, Body
<1>5. CASE MarkCompleted(x) /\ UNCHANGED up
  BY <1>0, <1>5 DEF MarkCompleted, markJobCompleted
<1>6. CASE MarkFailed(x) /\ UNCHANGED up
  BY <1>0, <1>6 DEF MarkFailed, markJobFailed
<1>7. CASE Report(x) /\ UNCHANGED up
  BY <1>0, <1>7 DEF Report, CompleteEntry, FailEntry, Settle
<1>8. CASE ReportLost(x) /\ UNCHANGED up
  BY <1>0, <1>8 DEF ReportLost
<1> QED
  BY <1>1, <1>2, <1>3, <1>4, <1>5, <1>6, <1>7, <1>8 DEF Run, RunnerStep

(* API, timers and recovery.                                               *)
LEMMA OtherTyped ==
  ASSUME TypeInv,
         \/ \E j \in Jobs : Create(j) \/ Submit(j) \/ Tick(j)
         \/ \E s \in Processes : \/ StartSweep(s) \/ SkipSweep(s) \/ SweepNotBegun(s)
                                 \/ Sweep(s) \/ Crash(s) \/ Restart(s)
         \/ Expire
  PROVE  TypeInv'
<1> USE QueueAssumption, WorkerAssumption, RecoveryAssumption
    DEF TypeInv, TypeOK, JobsTypeOK, QueueTypeOK, WorkerTypeOK, RecoveryTypeOK,
        BusyHasJob, LockedIsActive, WithinLimits, Busy, Statuses, EntryStates, RunnerPcs,
        Runnable, Sweeping, jobVars, queueVars, runnerVars, sweepVars, apiVars, Aside,
        SetStatus, SweepGoTo
<1>1. ASSUME NEW j \in Jobs, Create(j) PROVE TypeInv'
  BY <1>1 DEF Create, createJob
<1>2. ASSUME NEW j \in Jobs, Submit(j) PROVE TypeInv'
  BY <1>2 DEF Submit, enqueueBulkJob
<1>3. ASSUME NEW j \in Jobs, Tick(j) PROVE TypeInv'
  <2>1. CASE Promote(j)
    BY <1>3, <2>1 DEF Tick, Promote, PromoteEntry
  <2>2. CASE Stall(j)
    BY <1>3, <2>2 DEF Tick, Stall, StallEntry
  <2>3. CASE Age(j)
    BY <1>3, <2>3 DEF Tick, Age
  <2>4. CASE Evict(j)
    BY <1>3, <2>4 DEF Tick, Evict, EvictEntry
  <2> QED
    BY <1>3, <2>1, <2>2, <2>3, <2>4 DEF Tick
<1>4. ASSUME NEW s \in Processes, StartSweep(s) PROVE TypeInv'
  BY <1>4 DEF StartSweep, acquireRecoveryLock
<1>5. ASSUME NEW s \in Processes, SkipSweep(s) \/ SweepNotBegun(s) \/ Restart(s)
      PROVE  TypeInv'
  BY <1>5 DEF SkipSweep, SweepNotBegun, AcquireFails, Restart
<1>6. ASSUME NEW s \in Processes, Sweep(s) PROVE TypeInv'
  <2>0. /\ up' \in [Processes -> {"down", "starting", "up"}]
        /\ UNCHANGED <<runnerVars, apiVars>>
    BY <1>6 DEF Sweep
  <2>1. ASSUME NEW kind \in {"import", "export"}, ReadQueued(s, kind) PROVE TypeInv'
    BY <2>0, <2>1 DEF ReadQueued, queuedJobIds
  <2>2. CASE FailStale(s)
    BY <2>0, <2>2 DEF FailStale, markStaleRunningJobsFailed
  <2>3. CASE Loaded(s) \/ LoadFails(s)
    BY <2>0, <2>3 DEF Loaded, LoadFails
  <2>4. ASSUME NEW j \in Jobs, Requeue(s, j) \/ RequeueFails(s, j) PROVE TypeInv'
    BY <2>0, <2>4 DEF Requeue, RequeueFails, enqueueBulkJob
  <2>5. CASE Requeued(s) \/ CheckLock(s) \/ DeleteLock(s) \/ ReleaseLockFails(s)
    BY <2>0, <2>5 DEF Requeued, CheckLock, DeleteLock, ReleaseLockFails
  <2> QED
    BY <1>6, <2>1, <2>2, <2>3, <2>4, <2>5 DEF Sweep, SweepStep, SweepFault
<1>7. ASSUME NEW s \in Processes, Crash(s) PROVE TypeInv'
  BY <1>7, SystemAssumption DEF Crash
<1>8. CASE Expire
  BY <1>8 DEF Expire, ExpireLock
<1> QED
  BY <1>1, <1>2, <1>3, <1>4, <1>5, <1>6, <1>7, <1>8

(* Every variable keeps its type, and the counters their limits, under     *)
(* every fault.                                                            *)
THEOREM Typing == Spec => []TypeOK
<1>1. TypeInv /\ [Next]_vars => TypeInv'
  <2>1. CASE UNCHANGED vars
    BY <2>1 DEF vars, jobVars, queueVars, runnerVars, sweepVars, TypeInv, TypeOK,
       JobsTypeOK, QueueTypeOK, WorkerTypeOK, RecoveryTypeOK, BusyHasJob, LockedIsActive,
       WithinLimits, Busy
  <2> QED
    BY <2>1, RunTyped, OtherTyped DEF Next
<1>2. TypeInv => TypeOK
  BY DEF TypeInv
<1> QED
  BY InitTypeInv, <1>1, <1>2, PTL DEF Spec

-----------------------------------------------------------------------------
(* Where a sweep begins or is passed over, and a process comes up.         *)
Opening(s) == StartSweep(s) \/ SkipSweep(s) \/ SweepNotBegun(s) \/ Restart(s)

(* A runner is busy only while it holds its job's entry.  A zombie would   *)
(* be the exception: the entry is taken away from a runner that lives.     *)
LocksRenewed == "zombie" \notin Faults

HoldInv == TypeInv /\ RunnerHoldsEntry

LEMMA HoldStep ==
  ASSUME LocksRenewed, HoldInv, [Next]_vars, TypeInv'
  PROVE  RunnerHoldsEntry'
<1> USE QueueAssumption, WorkerAssumption
    DEF HoldInv, TypeInv, TypeOK, JobsTypeOK, QueueTypeOK, WorkerTypeOK, BusyHasJob,
        LockedIsActive, RunnerHoldsEntry, Busy, queueVars, runnerVars, GoTo, Park, Aside
<1>1. ASSUME NEW x \in Runners, Start(x) PROVE RunnerHoldsEntry'
  <2>1. PICK j \in Jobs : Take(x, j)
    BY <1>1 DEF Start
  <2>2. \A r \in Runners : Busy(r) => job[r] # j
    BY <2>1 DEF Take, TakeEntry
  <2> QED
    BY <2>1, <2>2 DEF Take, TakeEntry
<1>2. ASSUME NEW x \in Runners, Run(x) PROVE RunnerHoldsEntry'
  <2>1. CASE \/ FindJob(x) \/ MarkRunning(x) \/ Connect(x) \/ EarlyFailure(x)
             \/ Body(x) \/ MarkCompleted(x) \/ MarkFailed(x)
    BY <2>1 DEF FindJob, MarkRunning, Connect, EarlyFailure, Body, MarkCompleted, MarkFailed
  <2>2. \A r \in Runners \ {x} : Busy(r) /\ Busy(x) => job[r] # job[x]
    OBVIOUS
  <2>3. CASE Report(x)
    BY <2>2, <2>3 DEF Report, CompleteEntry, FailEntry, Settle
  <2>4. CASE ReportLost(x)
    BY <2>2, <2>4 DEF ReportLost
  <2> QED
    BY <1>2, <2>1, <2>3, <2>4 DEF Run, RunnerStep
<1>3. ASSUME NEW j \in Jobs, Create(j) \/ Submit(j) PROVE RunnerHoldsEntry'
  BY <1>3 DEF Create, Submit, enqueueBulkJob
<1>4. ASSUME NEW j \in Jobs, Tick(j) PROVE RunnerHoldsEntry'
  BY <1>4 DEF Tick, Promote, PromoteEntry, Stall, StallEntry, Age, Evict, EvictEntry,
     LocksRenewed
<1>5. ASSUME NEW s \in Processes, Opening(s) PROVE RunnerHoldsEntry'
  BY <1>5 DEF Opening, StartSweep, acquireRecoveryLock, SkipSweep,
     SweepNotBegun, AcquireFails, Restart
<1>6. ASSUME NEW s \in Processes, Sweep(s) PROVE RunnerHoldsEntry'
  <2>1. holder' = holder
    BY <1>6 DEF Sweep, SweepStep, SweepFault, ReadQueued, FailStale, Loaded, LoadFails,
       Requeue, RequeueFails, enqueueBulkJob, Requeued, CheckLock, DeleteLock,
       ReleaseLockFails
  <2> QED
    BY <1>6, <2>1 DEF Sweep
<1>7. ASSUME NEW s \in Processes, Crash(s) PROVE RunnerHoldsEntry'
  BY <1>7 DEF Crash
<1>8. CASE Expire
  BY <1>8 DEF Expire, ExpireLock
<1>9. CASE UNCHANGED vars
  BY <1>9 DEF vars
<1> QED
  BY <1>1, <1>2, <1>3, <1>4, <1>5, <1>6, <1>7, <1>8, <1>9 DEF Next, Opening

LEMMA HoldInductive == ASSUME LocksRenewed PROVE Spec => []HoldInv
<1>1. Init => HoldInv
  BY InitTypeInv DEF HoldInv, RunnerHoldsEntry, Init, WorkerInit, Busy
<1>2. HoldInv /\ [Next]_vars => HoldInv'
  <2>1. CASE UNCHANGED vars
    BY <2>1 DEF vars, jobVars, queueVars, runnerVars, sweepVars, HoldInv, TypeInv, TypeOK,
       JobsTypeOK, QueueTypeOK, WorkerTypeOK, RecoveryTypeOK, BusyHasJob, LockedIsActive,
       WithinLimits, Busy, RunnerHoldsEntry
  <2>2. HoldInv /\ Next => TypeInv'
    BY RunTyped, OtherTyped DEF Next, HoldInv
  <2> QED
    BY <2>1, <2>2, HoldStep DEF HoldInv
<1> QED
  BY <1>1, <1>2, PTL DEF Spec

(* No two handlers work on one job at a time, in any number of processes,  *)
(* as long as live runners renew their locks.                              *)
THEOREM OneRunnerPerJob == ASSUME LocksRenewed PROVE Spec => []SingleRunner
<1>1. HoldInv => SingleRunner
  BY DEF HoldInv, RunnerHoldsEntry, SingleRunner
<1> QED
  BY <1>1, HoldInductive, PTL

-----------------------------------------------------------------------------
(* One sweep at a time, when the lock's TTL outlasts a sweep.              *)
THEOREM OneSweepAtATime == ASSUME "ttl" \notin Faults PROVE Spec => []OneSweeper
<1>1. Init => SweeperHoldsLock
  BY DEF Init, RecoveryInit, SweeperHoldsLock, Sweeping
<1>2. TypeOK /\ SweeperHoldsLock /\ [Next]_vars => SweeperHoldsLock'
  <2> SUFFICES ASSUME TypeOK, SweeperHoldsLock, [Next]_vars PROVE SweeperHoldsLock'
    OBVIOUS
  <2> USE RecoveryAssumption
      DEF TypeOK, RecoveryTypeOK, SweeperHoldsLock, Sweeping, SweepGoTo, sweepVars, Aside
  <2>1. ASSUME NEW s \in Processes, Opening(s) \/ Crash(s)
        PROVE  SweeperHoldsLock'
    BY <2>1 DEF Opening, StartSweep, acquireRecoveryLock, SkipSweep,
       SweepNotBegun, AcquireFails, Restart, Crash
  <2>2. ASSUME NEW s \in Processes, Sweep(s) PROVE SweeperHoldsLock'
    <3>1. CASE (\E kind \in {"import", "export"} : ReadQueued(s, kind)) \/ FailStale(s)
      BY <3>1 DEF ReadQueued, FailStale
    <3>2. CASE \E j \in Jobs : Requeue(s, j) \/ RequeueFails(s, j)
      BY <3>2 DEF Requeue, RequeueFails
    <3>3. CASE \/ Loaded(s) \/ LoadFails(s) \/ Requeued(s)
               \/ CheckLock(s) \/ DeleteLock(s) \/ ReleaseLockFails(s)
      BY <3>3 DEF Loaded, LoadFails, Requeued, CheckLock, DeleteLock, ReleaseLockFails
    <3> QED
      BY <2>2, <3>1, <3>2, <3>3 DEF Sweep, SweepStep, SweepFault
  <2>3. CASE Expire
    BY <2>3 DEF Expire, ExpireLock
  <2>4. CASE \/ \E j \in Jobs : Create(j) \/ Submit(j) \/ Tick(j)
             \/ \E x \in Runners : Start(x) \/ Run(x)
             \/ UNCHANGED vars
    BY <2>4 DEF Create, Submit, Tick, Start, Run, vars
  <2> QED
    BY <2>1, <2>2, <2>3, <2>4 DEF Next, Opening
<1>3. SweeperHoldsLock => OneSweeper
  BY DEF SweeperHoldsLock, OneSweeper
<1> QED
  BY <1>1, <1>2, <1>3, Typing, PTL DEF Spec

-----------------------------------------------------------------------------
(* What a completed entry says about the row.                              *)
AckInv == AckAfterCompleted /\ RowBeforeEntry /\ AckedIsCompleted

LEMMA AckRun ==
  ASSUME HoldInv, AckInv, NEW x \in Runners, Start(x) \/ Run(x)
  PROVE  AckInv'
<1> USE QueueAssumption, WorkerAssumption
    DEF HoldInv, TypeInv, TypeOK, JobsTypeOK, QueueTypeOK, WorkerTypeOK, BusyHasJob,
        LockedIsActive, RunnerHoldsEntry, Busy, AckInv, AckAfterCompleted, RowBeforeEntry,
        AckedIsCompleted, jobVars, queueVars, runnerVars, sweepVars, apiVars, GoTo, Park,
        Aside, SetStatus
<1>1. CASE Start(x)
  BY <1>1 DEF Start, Take, TakeEntry
<1>2. \A r \in Runners \ {x} : Busy(r) /\ Busy(x) => job[r] # job[x]
  OBVIOUS
<1>3. CASE Run(x) /\ (FindJob(x) \/ Connect(x) \/ EarlyFailure(x) \/ Body(x))
  BY <1>3 DEF FindJob, Connect, EarlyFailure, Body, Run
<1>4. CASE Run(x) /\ MarkRunning(x)
  BY <1>2, <1>4 DEF MarkRunning, markJobRunning, Run
<1>5. CASE Run(x) /\ MarkCompleted(x)
  BY <1>2, <1>5 DEF MarkCompleted, markJobCompleted, Run
<1>6. CASE Run(x) /\ MarkFailed(x)
  BY <1>2, <1>6 DEF MarkFailed, markJobFailed, Run
<1>7. CASE Run(x) /\ Report(x)
  BY <1>2, <1>7 DEF Report, CompleteEntry, FailEntry, Settle, Run
<1>8. CASE Run(x) /\ ReportLost(x)
  BY <1>2, <1>8 DEF ReportLost, Run
<1> QED
  BY <1>1, <1>3, <1>4, <1>5, <1>6, <1>7, <1>8 DEF Run, RunnerStep

LEMMA AckOther ==
  ASSUME HoldInv, AckInv, [Next]_vars, \A x \in Runners : ~Start(x) /\ ~Run(x)
  PROVE  AckInv'
<1> USE QueueAssumption, WorkerAssumption
    DEF HoldInv, TypeInv, TypeOK, JobsTypeOK, QueueTypeOK, WorkerTypeOK, RecoveryTypeOK,
        BusyHasJob, AckInv, AckAfterCompleted, RowBeforeEntry, AckedIsCompleted, Busy,
        jobVars, queueVars, runnerVars, sweepVars, apiVars, Aside, SetStatus
<1>1. ASSUME NEW j \in Jobs, Create(j) \/ Submit(j) PROVE AckInv'
  BY <1>1 DEF Create, createJob, Submit, enqueueBulkJob
<1>2. ASSUME NEW j \in Jobs, Tick(j) PROVE AckInv'
  BY <1>2 DEF Tick, Promote, PromoteEntry, Stall, StallEntry, Age, Evict, EvictEntry
<1>3. ASSUME NEW s \in Processes, Opening(s) PROVE AckInv'
  BY <1>3 DEF Opening, StartSweep, acquireRecoveryLock, SkipSweep,
     SweepNotBegun, AcquireFails, Restart
<1>4. ASSUME NEW s \in Processes, Sweep(s) PROVE AckInv'
  <2>1. CASE \E kind \in {"import", "export"} : ReadQueued(s, kind)
    BY <1>4, <2>1 DEF Sweep, ReadQueued, queuedJobIds
  <2>2. CASE FailStale(s)
    BY <1>4, <2>2 DEF Sweep, FailStale, markStaleRunningJobsFailed
  <2>3. CASE \E j \in Jobs : Requeue(s, j) \/ RequeueFails(s, j)
    BY <1>4, <2>3 DEF Sweep, Requeue, RequeueFails, enqueueBulkJob
  <2>4. CASE \/ Loaded(s) \/ LoadFails(s) \/ Requeued(s)
             \/ CheckLock(s) \/ DeleteLock(s) \/ ReleaseLockFails(s)
    BY <1>4, <2>4 DEF Sweep, Loaded, LoadFails, Requeued, CheckLock, DeleteLock,
       ReleaseLockFails
  <2> QED
    BY <1>4, <2>1, <2>2, <2>3, <2>4 DEF Sweep, SweepStep, SweepFault
<1>5. ASSUME NEW s \in Processes, Crash(s) PROVE AckInv'
  BY <1>5 DEF Crash
<1>6. CASE Expire
  BY <1>6 DEF Expire, ExpireLock
<1>7. CASE UNCHANGED vars
  BY <1>7 DEF vars
<1> QED
  BY <1>1, <1>2, <1>3, <1>4, <1>5, <1>6, <1>7 DEF Next, Opening

(* AckInv is kept by every step, given that a job has one handler at most. *)
LEMMA AckInductive == ASSUME LocksRenewed PROVE Spec => []AckInv
<1>1. Init => AckInv
  BY DEF Init, JobsInit, QueueInit, WorkerInit, RecoveryInit, AckInv, AckAfterCompleted,
     RowBeforeEntry, AckedIsCompleted
<1>2. HoldInv /\ AckInv /\ [Next]_vars => AckInv'
  BY AckRun, AckOther
<1> QED
  BY <1>1, <1>2, HoldInductive, PTL DEF Spec

(* An entry that BullMQ completed belongs to a completed row, whatever the *)
(* stale sweeps, crashes, evictions and failing statements in between.     *)
THEOREM AckedJobsAreCompleted == ASSUME LocksRenewed PROVE Spec => []AckedIsCompleted
<1>1. AckInv => AckedIsCompleted
  BY DEF AckInv
<1> QED
  BY <1>1, AckInductive, PTL

-----------------------------------------------------------------------------
(* A queued row can always get to run where no handler fails before it has *)
(* marked its row, and crashes alone cannot use up the stalls.             *)
FewCrashes ==
  /\ Faults \cap {"zombie", "early"} = {}
  /\ "late" \in Faults => Unsupported = {}
  /\ MaxCrashes <= MaxStalls

QueuedInv == QueuedIsRunnable /\ QueuedIsEarly /\ StallsAreCrashes

LEMMA QueuedRun ==
  ASSUME FewCrashes, HoldInv, AckInv, QueuedInv, NEW x \in Runners, Start(x) \/ Run(x)
  PROVE  QueuedInv'
<1> USE QueueAssumption, WorkerAssumption
    DEF HoldInv, TypeInv, TypeOK, JobsTypeOK, QueueTypeOK, WorkerTypeOK, BusyHasJob,
        LockedIsActive, RunnerHoldsEntry, Busy, QueuedInv, QueuedIsRunnable, QueuedIsEarly,
        StallsAreCrashes, Runnable, jobVars, queueVars, runnerVars, apiVars, GoTo, Park,
        Aside, SetStatus
<1>1. CASE Start(x)
  BY <1>1 DEF Start, Take, TakeEntry
<1>2. \A r \in Runners \ {x} : Busy(r) /\ Busy(x) => job[r] # job[x]
  OBVIOUS
<1>3. CASE Run(x) /\ (FindJob(x) \/ Connect(x) \/ Body(x))
  BY <1>3 DEF FindJob, Connect, Body, Run
<1>4. CASE Run(x) /\ MarkRunning(x)
  BY <1>2, <1>4 DEF MarkRunning, markJobRunning, Run
<1>5. CASE Run(x) /\ MarkCompleted(x)
  BY <1>2, <1>5 DEF MarkCompleted, markJobCompleted, Run
<1>6. CASE Run(x) /\ MarkFailed(x)
  BY <1>2, <1>6 DEF MarkFailed, markJobFailed, Run, FewCrashes
<1>7. CASE Run(x) /\ Report(x)
  BY <1>2, <1>7 DEF Report, CompleteEntry, FailEntry, Settle, Run
<1>8. CASE Run(x) /\ ReportLost(x)
  BY <1>2, <1>8 DEF ReportLost, Run
<1> QED
  BY <1>1, <1>3, <1>4, <1>5, <1>6, <1>7, <1>8
     DEF Run, RunnerStep, EarlyFailure, FewCrashes

(* The stall that would fail the entry of a queued row needs one crash     *)
(* more than there can be.                                                 *)
LEMMA QueuedStall ==
  ASSUME FewCrashes, HoldInv, AckInv, QueuedInv, NEW j \in Jobs, Stall(j) /\ Aside
  PROVE  QueuedInv'
<1> USE SystemAssumption, QueueAssumption
    DEF HoldInv, TypeInv, TypeOK, JobsTypeOK, QueueTypeOK, Stall, StallEntry, FewCrashes,
        jobVars, runnerVars, apiVars, Aside
<1>1. holder[j] = NoRunner /\ entry[j] = "active"
  OBVIOUS
<1>2. status[j] = "queued" => stalls[j] < crashes /\ stalls[j] < MaxStalls
  BY <1>1 DEF QueuedInv, StallsAreCrashes
<1>3. status[j] # "none"
  BY <1>1 DEF AckInv, RowBeforeEntry
<1>4. QueuedIsRunnable'
  BY <1>2 DEF QueuedInv, QueuedIsRunnable, Runnable
<1>5. QueuedIsEarly'
  BY DEF QueuedInv, QueuedIsEarly, Busy
<1>6. StallsAreCrashes'
  BY <1>2, <1>3 DEF QueuedInv, StallsAreCrashes
<1> QED
  BY <1>4, <1>5, <1>6 DEF QueuedInv

LEMMA QueuedOther ==
  ASSUME FewCrashes, HoldInv, AckInv, QueuedInv, [Next]_vars,
         \A x \in Runners : ~Start(x) /\ ~Run(x)
  PROVE  QueuedInv'
<1> USE QueueAssumption, WorkerAssumption
    DEF HoldInv, TypeInv, TypeOK, JobsTypeOK, QueueTypeOK, WorkerTypeOK, BusyHasJob,
        RunnerHoldsEntry, Busy, QueuedInv, QueuedIsRunnable, QueuedIsEarly,
        StallsAreCrashes, Runnable, jobVars, queueVars, runnerVars, apiVars, Aside, SetStatus
<1>1. ASSUME NEW j \in Jobs, Create(j) PROVE QueuedInv'
  <2>1. status[j] = "none" /\ entry[j] = "none" /\ stalls[j] = 0
    BY <1>1 DEF Create, createJob, AckInv, RowBeforeEntry
  <2>2. \A r \in Runners : Busy(r) => job[r] # j
    BY <2>1 DEF LockedIsActive
  <2> QED
    BY <1>1, <2>1, <2>2 DEF Create, createJob
<1>2. ASSUME NEW j \in Jobs, Submit(j) PROVE QueuedInv'
  BY <1>2 DEF Submit, enqueueBulkJob
<1>3. ASSUME NEW j \in Jobs, Tick(j) PROVE QueuedInv'
  <2>1. CASE Promote(j) \/ Age(j)
    BY <1>3, <2>1 DEF Tick, Promote, PromoteEntry, Age
  <2>2. CASE Evict(j)
    BY <1>3, <2>2 DEF Tick, Evict, EvictEntry
  <2> QED
    BY <1>3, <2>1, <2>2, QueuedStall DEF Tick
<1>4. ASSUME NEW s \in Processes, Opening(s) PROVE QueuedInv'
  BY <1>4 DEF Opening, StartSweep, acquireRecoveryLock, SkipSweep,
     SweepNotBegun, AcquireFails, Restart
<1>5. ASSUME NEW s \in Processes, Sweep(s) PROVE QueuedInv'
  <2>1. CASE FailStale(s)
    BY <1>5, <2>1 DEF Sweep, FailStale, markStaleRunningJobsFailed
  <2>2. CASE \E j \in Jobs : Requeue(s, j) \/ RequeueFails(s, j)
    BY <1>5, <2>2 DEF Sweep, Requeue, RequeueFails, enqueueBulkJob
  <2>3. CASE \/ \E kind \in {"import", "export"} : ReadQueued(s, kind)
             \/ Loaded(s) \/ LoadFails(s) \/ Requeued(s)
             \/ CheckLock(s) \/ DeleteLock(s) \/ ReleaseLockFails(s)
    BY <1>5, <2>3 DEF Sweep, ReadQueued, Loaded, LoadFails, Requeued, CheckLock,
       DeleteLock, ReleaseLockFails
  <2> QED
    BY <1>5, <2>1, <2>2, <2>3 DEF Sweep, SweepStep, SweepFault
<1>6. ASSUME NEW s \in Processes, Crash(s) PROVE QueuedInv'
  BY <1>6, SystemAssumption DEF Crash
<1>7. CASE Expire
  BY <1>7 DEF Expire, ExpireLock
<1>8. CASE UNCHANGED vars
  BY <1>8 DEF vars
<1> QED
  BY <1>1, <1>2, <1>3, <1>4, <1>5, <1>6, <1>7, <1>8 DEF Next, Opening

(* No entry fails or completes under a row that is still queued, so        *)
(* recovery, which takes any entry for a queued one, never skips a row it  *)
(* should have enqueued.                                                   *)
THEOREM QueuedCanRun == ASSUME FewCrashes PROVE Spec => []QueuedIsRunnable
<1>1. LocksRenewed
  BY DEF FewCrashes, LocksRenewed
<1>2. Init => QueuedInv
  BY DEF Init, JobsInit, QueueInit, WorkerInit, QueuedInv, QueuedIsRunnable, QueuedIsEarly,
     StallsAreCrashes, Busy
<1>3. HoldInv /\ AckInv /\ QueuedInv /\ [Next]_vars => QueuedInv'
  BY QueuedRun, QueuedOther
<1>4. QueuedInv => QueuedIsRunnable
  BY DEF QueuedInv
<1> QED
  BY <1>1, <1>2, <1>3, <1>4, HoldInductive, AckInductive, PTL DEF Spec

-----------------------------------------------------------------------------
(* A completed job stays completed where nothing is lost between the row's *)
(* update and the report to BullMQ, the answer to the update included, and *)
(* no entry is removed while a sweep remembers the row as queued.          *)
EndsAreHeard == Faults \cap {"zombie", "crash", "ack", "answer", "evict"} = {}

OverInv == CompletedIsOver /\ ActiveIsHeld

LEMMA OverStep ==
  ASSUME EndsAreHeard, HoldInv, AckInv, OverInv, [Next]_vars
  PROVE  OverInv' /\ (\A j \in Jobs : status[j] = "completed" => status'[j] = "completed")
<1> DEFINE Kept == \A j \in Jobs : status[j] = "completed" => status'[j] = "completed"
<1> USE QueueAssumption, WorkerAssumption
    DEF HoldInv, TypeInv, TypeOK, JobsTypeOK, QueueTypeOK, WorkerTypeOK, BusyHasJob,
        LockedIsActive, RunnerHoldsEntry, Busy, AckInv, AckAfterCompleted, RowBeforeEntry,
        OverInv, CompletedIsOver, ActiveIsHeld, EndsAreHeard,
        jobVars, queueVars, runnerVars, GoTo, Park, Aside, SetStatus
<1>1. ASSUME NEW x \in Runners, Start(x) PROVE OverInv' /\ Kept
  BY <1>1 DEF Start, Take, TakeEntry
<1>2. ASSUME NEW x \in Runners, Run(x) PROVE OverInv' /\ Kept
  <2>0. \A r \in Runners \ {x} : Busy(r) /\ Busy(x) => job[r] # job[x]
    OBVIOUS
  <2>1. pc[x] \notin {"idle", "ack"} => status[job[x]] # "completed"
    BY <2>0
  <2>2. CASE FindJob(x) \/ Connect(x) \/ EarlyFailure(x) \/ Body(x)
    BY <2>1, <2>2 DEF FindJob, Connect, EarlyFailure, Body
  <2>3. CASE MarkRunning(x)
    BY <2>1, <2>3 DEF MarkRunning, markJobRunning
  <2>4. CASE MarkCompleted(x)
    BY <2>1, <2>4 DEF MarkCompleted, markJobCompleted
  <2>5. CASE MarkFailed(x)
    BY <2>1, <2>5 DEF MarkFailed, markJobFailed
  <2>6. CASE Report(x)
    BY <2>0, <2>1, <2>6 DEF Report, CompleteEntry, FailEntry, Settle
  <2> QED
    BY <1>2, <2>2, <2>3, <2>4, <2>5, <2>6 DEF Run, RunnerStep, ReportLost
<1>3. ASSUME NEW j \in Jobs, Create(j) \/ Submit(j) PROVE OverInv' /\ Kept
  BY <1>3 DEF Create, createJob, Submit, enqueueBulkJob
<1>4. ASSUME NEW j \in Jobs, Tick(j) PROVE OverInv' /\ Kept
  BY <1>4 DEF Tick, Promote, PromoteEntry, Stall, StallEntry, Age, Evict
<1>5. ASSUME NEW s \in Processes, Opening(s) PROVE OverInv' /\ Kept
  BY <1>5 DEF Opening, StartSweep, acquireRecoveryLock, SkipSweep,
     SweepNotBegun, AcquireFails, Restart, sweepVars
<1>6. ASSUME NEW s \in Processes, Sweep(s) PROVE OverInv' /\ Kept
  <2>1. CASE FailStale(s)
    BY <1>6, <2>1 DEF Sweep, FailStale, markStaleRunningJobsFailed
  <2>2. CASE \E j \in Jobs : Requeue(s, j) \/ RequeueFails(s, j)
    BY <1>6, <2>2 DEF Sweep, Requeue, RequeueFails, enqueueBulkJob
  <2>3. CASE \/ \E kind \in {"import", "export"} : ReadQueued(s, kind)
             \/ Loaded(s) \/ LoadFails(s) \/ Requeued(s)
             \/ CheckLock(s) \/ DeleteLock(s) \/ ReleaseLockFails(s)
    BY <1>6, <2>3 DEF Sweep, ReadQueued, Loaded, LoadFails, Requeued, CheckLock,
       DeleteLock, ReleaseLockFails
  <2> QED
    BY <1>6, <2>1, <2>2, <2>3 DEF Sweep, SweepStep, SweepFault
<1>7. ASSUME NEW s \in Processes PROVE ~Crash(s)
  BY DEF Crash
<1>8. CASE Expire
  BY <1>8 DEF Expire, ExpireLock
<1>9. CASE UNCHANGED vars
  BY <1>9 DEF vars
<1> QED
  BY <1>1, <1>2, <1>3, <1>4, <1>5, <1>6, <1>7, <1>8, <1>9 DEF Next, Opening

(* A completed job is final, whatever fails elsewhere: statements before   *)
(* it, sweeps of any number of processes at a time, enqueues.              *)
THEOREM CompletedStays == ASSUME EndsAreHeard PROVE Spec => CompletedIsFinal
<1>1. LocksRenewed
  BY DEF EndsAreHeard, LocksRenewed
<1>2. Init => OverInv
  BY DEF Init, JobsInit, QueueInit, OverInv, CompletedIsOver, ActiveIsHeld
<1>3. HoldInv /\ AckInv /\ OverInv /\ [Next]_vars => OverInv'
  BY OverStep
<1>4. HoldInv /\ AckInv /\ OverInv /\ [Next]_vars
      => [\A j \in Jobs : status[j] = "completed" => status'[j] = "completed"]_vars
  BY OverStep
<1> QED
  BY <1>1, <1>2, <1>3, <1>4, HoldInductive, AckInductive, PTL DEF Spec, CompletedIsFinal

-----------------------------------------------------------------------------
(* JobRuns is implemented where live runners renew their locks and entries *)
(* are kept.                                                               *)
EntriesKept == Faults \cap {"zombie", "evict"} = {}

RunsInv == HoldInv /\ HolderRuns

LEMMA HolderStep ==
  ASSUME LocksRenewed, HoldInv, HolderRuns, [Next]_vars
  PROVE  HolderRuns'
<1> USE QueueAssumption, WorkerAssumption
    DEF HoldInv, TypeInv, TypeOK, JobsTypeOK, QueueTypeOK, WorkerTypeOK, BusyHasJob,
        LockedIsActive, RunnerHoldsEntry, HolderRuns, Busy, queueVars, runnerVars, GoTo,
        Park, Aside
<1>1. ASSUME NEW x \in Runners, Start(x) PROVE HolderRuns'
  BY <1>1 DEF Start, Take, TakeEntry
<1>2. ASSUME NEW x \in Runners, Run(x) PROVE HolderRuns'
  <2>1. CASE \/ FindJob(x) \/ MarkRunning(x) \/ Connect(x) \/ EarlyFailure(x)
             \/ Body(x) \/ MarkCompleted(x) \/ MarkFailed(x)
    BY <2>1 DEF FindJob, MarkRunning, Connect, EarlyFailure, Body, MarkCompleted, MarkFailed
  <2>2. CASE Report(x)
    BY <2>2 DEF Report, CompleteEntry, FailEntry, Settle
  <2>3. CASE ReportLost(x)
    BY <2>3 DEF ReportLost
  <2> QED
    BY <1>2, <2>1, <2>2, <2>3 DEF Run, RunnerStep
<1>3. ASSUME NEW j \in Jobs, Create(j) \/ Submit(j) PROVE HolderRuns'
  BY <1>3 DEF Create, Submit, enqueueBulkJob
<1>4. ASSUME NEW j \in Jobs, Tick(j) PROVE HolderRuns'
  BY <1>4 DEF Tick, Promote, PromoteEntry, Stall, StallEntry, Age, Evict, EvictEntry
<1>5. ASSUME NEW s \in Processes, Opening(s) PROVE HolderRuns'
  BY <1>5 DEF Opening, StartSweep, acquireRecoveryLock, SkipSweep,
     SweepNotBegun, AcquireFails, Restart
<1>6. ASSUME NEW s \in Processes, Sweep(s) PROVE HolderRuns'
  <2>1. holder' = holder
    BY <1>6 DEF Sweep, SweepStep, SweepFault, ReadQueued, FailStale, Loaded, LoadFails,
       Requeue, RequeueFails, enqueueBulkJob, Requeued, CheckLock, DeleteLock,
       ReleaseLockFails
  <2> QED
    BY <1>6, <2>1 DEF Sweep
<1>7. ASSUME NEW s \in Processes, Crash(s) PROVE HolderRuns'
  BY <1>7 DEF Crash
<1>8. CASE Expire
  BY <1>8 DEF Expire, ExpireLock
<1>9. CASE UNCHANGED vars
  BY <1>9 DEF vars
<1> QED
  BY <1>1, <1>2, <1>3, <1>4, <1>5, <1>6, <1>7, <1>8, <1>9 DEF Next, Opening

LEMMA RunsInductive == ASSUME LocksRenewed PROVE Spec => []RunsInv
<1>1. Init => HolderRuns
  BY DEF Init, QueueInit, HolderRuns
<1>2. HoldInv /\ HolderRuns /\ [Next]_vars => HolderRuns'
  BY HolderStep
<1> QED
  BY <1>1, <1>2, HoldInductive, PTL DEF Spec, RunsInv

(* The abstract step that a change of runs, failures, losses and completed *)
(* entries amounts to.                                                     *)
Completed(j) == entry[j] = "completed"

AbstractVars ==
  <<[j \in Jobs |-> RunsOf(j)], attempts, [j \in Jobs |-> Losses(j)],
    {j \in Jobs : Completed(j)}>>

LEMMA Stutters ==
  ASSUME attempts' = attempts,
         \A k \in Jobs : /\ RunsOf(k)' = RunsOf(k)
                         /\ Losses(k)' = Losses(k)
                         /\ Completed(k)' <=> Completed(k)
  PROVE  UNCHANGED AbstractVars
BY DEF AbstractVars

LEMMA Begins ==
  ASSUME NEW j \in Jobs, NEW x \in Runners,
         RunsOf(j) = {}, \A k \in Jobs : x \notin RunsOf(k), ~Completed(j),
         attempts[j] < MaxAttempts, Losses(j) <= MaxStalls,
         attempts' = attempts,
         \A k \in Jobs : /\ RunsOf(k)' = IF k = j THEN {x} ELSE RunsOf(k)
                         /\ Losses(k)' = Losses(k)
                         /\ Completed(k)' <=> Completed(k)
  PROVE  Runs!Next
<1>1. Runs!Begin(j, x)
  BY DEF Runs!Begin, Completed
<1> QED
  BY <1>1 DEF Runs!Next

LEMMA Ends ==
  ASSUME NEW j \in Jobs, RunsOf(j) # {},
         \A k \in Jobs : /\ RunsOf(k)' = IF k = j THEN {} ELSE RunsOf(k)
                         /\ Losses(k)' = Losses(k),
         \/ /\ attempts' = attempts
            /\ \A k \in Jobs : Completed(k)' <=> k = j \/ Completed(k)
         \/ /\ attempts' = [attempts EXCEPT ![j] = @ + 1]
            /\ \A k \in Jobs : Completed(k)' <=> Completed(k)
  PROVE  Runs!Next
<1>1. Runs!End(j)
  BY DEF Runs!End
<1>2. Runs!Succeed(j) \/ Runs!Fail(j)
  BY <1>1 DEF Runs!Succeed, Runs!Fail, Completed
<1> QED
  BY <1>2 DEF Runs!Next

LEMMA Loses ==
  ASSUME NEW gone \in SUBSET Jobs,
         \A j \in gone : RunsOf(j) # {},
         attempts' = attempts,
         \A k \in Jobs : /\ RunsOf(k)' = IF k \in gone THEN {} ELSE RunsOf(k)
                         /\ Losses(k)' = IF k \in gone THEN Losses(k) + 1 ELSE Losses(k)
                         /\ Completed(k)' <=> Completed(k)
  PROVE  Runs!Next
<1>1. Runs!Lose(gone)
  BY DEF Runs!Lose, Completed
<1> QED
  BY <1>1 DEF Runs!Next

(* Whoever works on a job is the holder of its entry, and the other way    *)
(* round.                                                                  *)
LEMMA RunIsHolder ==
  ASSUME RunsInv, NEW j \in Jobs
  PROVE  RunsOf(j) = IF holder[j] = NoRunner THEN {} ELSE {holder[j]}
BY QueueAssumption
   DEF RunsInv, HoldInv, TypeInv, TypeOK, QueueTypeOK, RunnerHoldsEntry, HolderRuns, RunsOf

LEMMA RunnerSteps ==
  ASSUME EntriesKept, RunsInv, NEW x \in Runners, Start(x) \/ Run(x)
  PROVE  Runs!Next \/ UNCHANGED AbstractVars
<1> USE QueueAssumption, WorkerAssumption
    DEF RunsInv, HoldInv, TypeInv, TypeOK, QueueTypeOK, WorkerTypeOK, BusyHasJob,
        LockedIsActive, RunnerHoldsEntry, HolderRuns, WithinLimits, Busy, queueVars,
        runnerVars, GoTo, Park, Aside, RunsOf, Losses, Completed, Runnable
<1>1. CASE Start(x)
  <2>1. PICK j \in Jobs : Take(x, j)
    BY <1>1 DEF Start
  <2>2. pc[x] = "idle" /\ entry[j] = "waiting" /\ holder[j] = NoRunner
    BY <2>1 DEF Take, TakeEntry
  <2>3. RunsOf(j) = {} /\ \A k \in Jobs : x \notin RunsOf(k)
    BY <2>2
  <2>4. attempts[j] < MaxAttempts /\ Losses(j) <= MaxStalls
    BY <2>2
  <2>5. \A k \in Jobs : /\ RunsOf(k)' = IF k = j THEN {x} ELSE RunsOf(k)
                        /\ Losses(k)' = Losses(k)
                        /\ Completed(k)' <=> Completed(k)
    BY <2>1, <2>2, <2>3 DEF Take, TakeEntry
  <2>6. attempts' = attempts
    BY <2>1 DEF Take, TakeEntry
  <2> QED
    BY <2>2, <2>3, <2>4, <2>5, <2>6, Begins
<1>2. CASE Run(x) /\ \/ FindJob(x) \/ MarkRunning(x) \/ Connect(x) \/ EarlyFailure(x)
                     \/ Body(x) \/ MarkCompleted(x) \/ MarkFailed(x)
  <2>1. /\ UNCHANGED <<entry, attempts, stalls, holder, job>>
        /\ \A r \in Runners : Busy(r)' <=> Busy(r)
    BY <1>2 DEF FindJob, MarkRunning, Connect, EarlyFailure, Body, MarkCompleted, MarkFailed
  <2> QED
    BY <2>1, Stutters
<1>3. CASE Run(x) /\ Report(x)
  <2> DEFINE j == job[x]
  <2>1. j \in Jobs /\ holder[j] = x /\ x \in RunsOf(j)
    BY <1>3 DEF Report
  <2>2. \A k \in Jobs : /\ RunsOf(k)' = IF k = j THEN {} ELSE RunsOf(k)
                        /\ Losses(k)' = Losses(k)
    BY <1>3, <2>1 DEF Report, CompleteEntry, FailEntry, Settle
  <2>3. \/ /\ attempts' = attempts
           /\ \A k \in Jobs : Completed(k)' <=> k = j \/ Completed(k)
        \/ /\ attempts' = [attempts EXCEPT ![j] = @ + 1]
           /\ \A k \in Jobs : Completed(k)' <=> Completed(k)
    BY <1>3, <2>1 DEF Report, CompleteEntry, FailEntry, Settle
  <2> QED
    BY <2>1, <2>2, <2>3, Ends
<1>4. CASE Run(x) /\ ReportLost(x)
  <2> DEFINE j == job[x]
  <2>1. j \in Jobs /\ holder[j] = x /\ x \in RunsOf(j) /\ x # NoRunner
    BY <1>4 DEF ReportLost
  <2>2. \A k \in Jobs : /\ RunsOf(k)' = IF k \in {j} THEN {} ELSE RunsOf(k)
                        /\ Losses(k)' = IF k \in {j} THEN Losses(k) + 1 ELSE Losses(k)
                        /\ Completed(k)' <=> Completed(k)
    BY <1>4, <2>1 DEF ReportLost
  <2>3. attempts' = attempts
    BY <1>4 DEF ReportLost
  <2>4. {j} \in SUBSET Jobs /\ RunsOf(j) # {}
    BY <2>1
  <2> HIDE DEF j, RunsOf, Losses, Completed
  <2> QED
    BY <2>2, <2>3, <2>4, Loses
<1> QED
  BY <1>1, <1>2, <1>3, <1>4 DEF Run, RunnerStep

LEMMA CrashLoses ==
  ASSUME EntriesKept, RunsInv, NEW s \in Processes, Crash(s)
  PROVE  Runs!Next \/ UNCHANGED AbstractVars
<1> USE QueueAssumption, WorkerAssumption
    DEF RunsInv, HoldInv, TypeInv, TypeOK, QueueTypeOK, WorkerTypeOK, BusyHasJob,
        LockedIsActive, RunnerHoldsEntry, HolderRuns, Busy, RunsOf, Losses, Completed
<1> DEFINE dead == {x \in Runners : ProcOf[x] = s}
           gone == {j \in Jobs : holder[j] \in dead}
<1>1. \A j \in gone : RunsOf(j) # {}
  BY DEF Crash
<1>2. attempts' = attempts
  BY DEF Crash
<1>3. ASSUME NEW k \in Jobs
      PROVE  /\ RunsOf(k)' = IF k \in gone THEN {} ELSE RunsOf(k)
             /\ Losses(k)' = IF k \in gone THEN Losses(k) + 1 ELSE Losses(k)
             /\ Completed(k)' <=> Completed(k)
  <2>1. RunsOf(k)' = RunsOf(k) \ dead
    BY DEF Crash
  <2>2. RunsOf(k) = IF holder[k] = NoRunner THEN {} ELSE {holder[k]}
    BY RunIsHolder
  <2>3. Losses(k)' = IF k \in gone THEN Losses(k) + 1 ELSE Losses(k)
    BY DEF Crash
  <2>4. entry' = entry
    BY DEF Crash
  <2> QED
    BY <2>1, <2>2, <2>3, <2>4
<1>4. gone \in SUBSET Jobs
  OBVIOUS
<1> HIDE DEF gone, RunsOf, Losses, Completed
<1> QED
  BY <1>1, <1>2, <1>3, <1>4, Loses

(* Everything else leaves the runs alone; a stall is the loss that was     *)
(* counted when the lock was given up.                                     *)
LEMMA OtherSteps ==
  ASSUME EntriesKept, RunsInv, [Next]_vars, \A x \in Runners : ~Start(x) /\ ~Run(x),
         \A s \in Processes : ~Crash(s)
  PROVE  UNCHANGED AbstractVars
<1> USE QueueAssumption
    DEF RunsInv, HoldInv, TypeInv, TypeOK, QueueTypeOK, WorkerTypeOK, LockedIsActive, Busy,
        queueVars, runnerVars, Aside, RunsOf, Losses, Completed
<1>1. ASSUME NEW j \in Jobs, Create(j) \/ Submit(j) PROVE UNCHANGED AbstractVars
  <2>1. UNCHANGED <<pc, job, attempts, stalls, holder>>
    BY <1>1 DEF Create, Submit, enqueueBulkJob
  <2>2. entry' = entry \/ (entry[j] = "none" /\ entry' = [entry EXCEPT ![j] = "waiting"])
    BY <1>1 DEF Create, Submit, enqueueBulkJob
  <2> QED
    BY <2>1, <2>2, Stutters
<1>2. ASSUME NEW j \in Jobs, Tick(j) PROVE UNCHANGED AbstractVars
  <2>1. UNCHANGED <<pc, job, attempts>>
    BY <1>2 DEF Tick, Promote, PromoteEntry, Stall, StallEntry, Age, Evict, EntriesKept
  <2>2. CASE Promote(j) \/ Age(j)
    BY <2>1, <2>2, Stutters DEF Promote, PromoteEntry, Age
  <2>3. CASE Stall(j)
    <3>1. entry[j] = "active" /\ holder[j] = NoRunner
      BY <2>3 DEF Stall, StallEntry, EntriesKept
    <3> QED
      BY <2>1, <2>3, <3>1, Stutters DEF Stall, StallEntry
  <2> QED
    BY <1>2, <2>2, <2>3 DEF Tick, Evict, EntriesKept
<1>3. ASSUME NEW s \in Processes, Opening(s) PROVE UNCHANGED AbstractVars
  BY <1>3, Stutters
     DEF Opening, StartSweep, acquireRecoveryLock, SkipSweep,
     SweepNotBegun, AcquireFails, Restart
<1>4. ASSUME NEW s \in Processes, Sweep(s) PROVE UNCHANGED AbstractVars
  <2>1. UNCHANGED <<pc, job, attempts, stalls, holder>>
    BY <1>4 DEF Sweep, SweepStep, SweepFault, ReadQueued, FailStale, Loaded, LoadFails,
       Requeue, RequeueFails, enqueueBulkJob, Requeued, CheckLock, DeleteLock,
       ReleaseLockFails
  <2>2. \A k \in Jobs : entry'[k] = entry[k] \/ (entry[k] = "none" /\ entry'[k] = "waiting")
    BY <1>4 DEF Sweep, SweepStep, SweepFault, ReadQueued, FailStale, Loaded, LoadFails,
       Requeue, RequeueFails, enqueueBulkJob, Requeued, CheckLock, DeleteLock,
       ReleaseLockFails
  <2> QED
    BY <2>1, <2>2, Stutters
<1>5. CASE Expire
  BY <1>5, Stutters DEF Expire, ExpireLock
<1>6. CASE UNCHANGED vars
  BY <1>6, Stutters DEF vars
<1> QED
  BY <1>1, <1>2, <1>3, <1>4, <1>5, <1>6 DEF Next, Opening

(* Every step is one of JobRuns or none: whatever fails, dies or is swept, *)
(* a job has one run at a time, and its failures and losses are counted.   *)
THEOREM QueueKeepsItsPromise == ASSUME EntriesKept PROVE Spec => ImplementsJobRuns
<1>1. LocksRenewed
  BY DEF EntriesKept, LocksRenewed
<1>2. Init => Runs!Init
  BY DEF Init, QueueInit, WorkerInit, Runs!Init, RunsOf, Losses, Busy
<1>3. RunsInv /\ [Next]_vars => [Runs!Next]_AbstractVars
  BY RunnerSteps, CrashLoses, OtherSteps DEF Next
<1> QED
  BY <1>1, <1>2, <1>3, RunsInductive, PTL
     DEF Spec, ImplementsJobRuns, Runs!Spec, AbstractVars, Completed
=============================================================================
