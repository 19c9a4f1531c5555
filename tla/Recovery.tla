------------------------------ MODULE Recovery ------------------------------
(***************************************************************************)
(* application/recovery/jobRecoveryService.ts, which every worker process  *)
(* runs at startup, before it takes entries, and then on a timer: under a  *)
(* Redis lock, fail the stale running rows and enqueue the queued ones.    *)
(***************************************************************************)
EXTENDS BulkQueue

CONSTANT NoProcess

ASSUME RecoveryAssumption == NoProcess \notin Processes

VARIABLES
  sweep,   \* where each process is in recoverAndRequeueJobs
  todo,    \* the statements of its Promise.all that have yet to run
  snap,    \* the queued job ids it has read and not yet requeued
  lock     \* job:recovery:lock, the process whose token it holds

sweepVars == <<sweep, todo, snap, lock>>

Sweeping == {"load", "requeue", "check", "delete"}

RecoveryTypeOK ==
  /\ sweep \in [Processes -> {"idle"} \cup Sweeping]
  /\ todo \in [Processes -> SUBSET {"import", "export", "stale"}]
  /\ snap \in [Processes -> SUBSET Jobs]
  /\ lock \in Processes \cup {NoProcess}

RecoveryInit ==
  /\ sweep = [p \in Processes |-> "idle"]
  /\ todo = [p \in Processes |-> {}]
  /\ snap = [p \in Processes |-> {}]
  /\ lock = NoProcess

SweepGoTo(p, l) == sweep' = [sweep EXCEPT ![p] = l]

-----------------------------------------------------------------------------
(* Mutant: SET without NX.                                                 *)
acquireRecoveryLock_NoNX(p) ==
  /\ sweep[p] = "idle"
  /\ lock' = p
  /\ SweepGoTo(p, "load")
  /\ todo' = [todo EXCEPT ![p] = {"import", "export", "stale"}]
  /\ UNCHANGED <<snap, jobVars, queueVars>>

(* SET key token PX 60000 NX                                               *)
acquireRecoveryLock(p) ==
  /\ sweep[p] = "idle"
  /\ lock = NoProcess
  /\ lock' = p
  /\ SweepGoTo(p, "load")
  /\ todo' = [todo EXCEPT ![p] = {"import", "export", "stale"}]
  /\ UNCHANGED <<snap, jobVars, queueVars>>

(* SET fails: the sweep is given up.  If the command was carried out all   *)
(* the same, the lock is left to its TTL.                                  *)
AcquireFails(p) ==
  /\ sweep[p] = "idle"
  /\ \/ lock = NoProcess /\ lock' = p
     \/ UNCHANGED lock
  /\ UNCHANGED <<sweep, todo, snap, jobVars, queueVars>>

(* Three concurrent statements: two snapshots of the queued rows, and the  *)
(* sweep of stale rows.  The latter runs on when a snapshot has failed.    *)
ReadQueued(p, kind) ==
  /\ sweep[p] = "load"
  /\ kind \in todo[p]
  /\ snap' = [snap EXCEPT ![p] = @ \cup queuedJobIds(kind)]
  /\ todo' = [todo EXCEPT ![p] = @ \ {kind}]
  /\ UNCHANGED <<sweep, lock, jobVars, queueVars>>

FailStale(p) ==
  /\ "stale" \in todo[p]
  /\ markStaleRunningJobsFailed
  /\ todo' = [todo EXCEPT ![p] = @ \ {"stale"}]
  /\ UNCHANGED <<sweep, snap, lock, queueVars>>

Loaded(p) ==
  /\ sweep[p] = "load"
  /\ todo[p] = {}
  /\ SweepGoTo(p, "requeue")
  /\ UNCHANGED <<todo, snap, lock, jobVars, queueVars>>

LoadFails(p) ==
  /\ sweep[p] = "load"
  /\ todo[p] # {}
  /\ SweepGoTo(p, "check")
  /\ todo' = [todo EXCEPT ![p] = @ \cap {"stale"}]
  /\ snap' = [snap EXCEPT ![p] = {}]
  /\ UNCHANGED <<lock, jobVars, queueVars>>

(* requeueQueuedJobs; a failed enqueue is logged and the loop goes on.     *)
Requeue(p, j) ==
  /\ sweep[p] = "requeue"
  /\ j \in snap[p]
  /\ snap' = [snap EXCEPT ![p] = @ \ {j}]
  /\ enqueueBulkJob(j)
  /\ UNCHANGED <<sweep, todo, lock, jobVars>>

RequeueFails(p, j) ==
  /\ sweep[p] = "requeue"
  /\ j \in snap[p]
  /\ snap' = [snap EXCEPT ![p] = @ \ {j}]
  /\ UNCHANGED <<sweep, todo, lock, jobVars, queueVars>>

Requeued(p) ==
  /\ sweep[p] = "requeue"
  /\ snap[p] = {}
  /\ SweepGoTo(p, "check")
  /\ UNCHANGED <<todo, snap, lock, jobVars, queueVars>>

(* releaseRecoveryLock: GET, compare, DEL.                                 *)
CheckLock(p) ==
  /\ sweep[p] = "check"
  /\ SweepGoTo(p, IF lock = p THEN "delete" ELSE "idle")
  /\ UNCHANGED <<todo, snap, lock, jobVars, queueVars>>

DeleteLock(p) ==
  /\ sweep[p] = "delete"
  /\ lock' = NoProcess
  /\ SweepGoTo(p, "idle")
  /\ UNCHANGED <<todo, snap, jobVars, queueVars>>

(* A Redis error here is swallowed and the lock is left to its TTL.        *)
ReleaseLockFails(p) ==
  /\ sweep[p] \in {"check", "delete"}
  /\ SweepGoTo(p, "idle")
  /\ UNCHANGED <<todo, snap, lock, jobVars, queueVars>>

SweepStep(p) ==
  \/ \E kind \in {"import", "export"} : ReadQueued(p, kind)
  \/ FailStale(p) \/ Loaded(p)
  \/ \E j \in Jobs : Requeue(p, j)
  \/ Requeued(p) \/ CheckLock(p) \/ DeleteLock(p)

SweepFault(p) ==
  \/ LoadFails(p) \/ ReleaseLockFails(p)
  \/ \E j \in Jobs : RequeueFails(p, j)

(* The TTL ends.  RECOVERY_LOCK_TTL_MS outlasts a sweep unless a run says  *)
(* otherwise.                                                              *)
ExpireLock(early) ==
  /\ lock # NoProcess
  /\ early \/ sweep[lock] = "idle"
  /\ lock' = NoProcess
  /\ UNCHANGED <<sweep, todo, snap, jobVars, queueVars>>
=============================================================================
