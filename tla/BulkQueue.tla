----------------------------- MODULE BulkQueue -----------------------------
(***************************************************************************)
(* The BullMQ queues as infrastructure/queue/bulkQueue.ts configures and   *)
(* uses them: one entry per job id, attempts with backoff, a lock that the *)
(* worker holding an active entry keeps renewing, and entries that stall   *)
(* when it does not.  The library is external; what it does is modelled    *)
(* here from the options passed to it.  The import and the export queue    *)
(* behave alike, so one table of entries stands for both.                  *)
(***************************************************************************)
EXTENDS BulkJobs, Naturals

CONSTANTS
  Processes,    \* worker processes, which serve the queues
  Runners,      \* invocations of a job handler that can be in flight
  MaxAttempts,  \* defaultJobOptions.attempts
  MaxStalls,    \* BullMQ's maxStalledCount, left at its default
  NoRunner

ASSUME QueueAssumption ==
  /\ MaxAttempts \in Nat \ {0}
  /\ MaxStalls \in Nat
  /\ NoRunner \notin Runners

VARIABLES
  entry,     \* state of the entry with each job's id, "none" if there is none
  attempts,  \* failed attempts of the entry
  stalls,    \* times the entry has stalled
  holder     \* the runner that holds the lock of an active entry

queueVars == <<entry, attempts, stalls, holder>>

EntryStates == {"none", "waiting", "active", "delayed", "completed", "failed"}
Runnable == {"waiting", "active", "delayed"}

QueueTypeOK ==
  /\ entry \in [Jobs -> EntryStates]
  /\ attempts \in [Jobs -> 0..MaxAttempts]
  /\ stalls \in [Jobs -> 0..MaxStalls + 1]
  /\ holder \in [Jobs -> Runners \cup {NoRunner}]

QueueInit ==
  /\ entry = [j \in Jobs |-> "none"]
  /\ attempts = [j \in Jobs |-> 0]
  /\ stalls = [j \in Jobs |-> 0]
  /\ holder = [j \in Jobs |-> NoRunner]

-----------------------------------------------------------------------------
(* Mutant: the job id is not passed on, so a second entry replaces the     *)
(* first.                                                                  *)
enqueueBulkJob_Duplicates(j) ==
  /\ entry' = [entry EXCEPT ![j] = "waiting"]
  /\ attempts' = [attempts EXCEPT ![j] = 0]
  /\ stalls' = [stalls EXCEPT ![j] = 0]
  /\ holder' = [holder EXCEPT ![j] = NoRunner]

(* getJob, then add under the job's id.  add leaves an existing entry as   *)
(* it is, so the two calls act like the second alone.  Any entry counts,   *)
(* also one that has failed or completed.                                  *)
enqueueBulkJob(j) ==
  \/ /\ entry[j] = "none"
     /\ entry' = [entry EXCEPT ![j] = "waiting"]
     /\ UNCHANGED <<attempts, stalls, holder>>
  \/ /\ entry[j] # "none"
     /\ UNCHANGED queueVars

TakeEntry(x, j) ==
  /\ entry[j] = "waiting"
  /\ entry' = [entry EXCEPT ![j] = "active"]
  /\ holder' = [holder EXCEPT ![j] = x]
  /\ UNCHANGED <<attempts, stalls>>

Settle(j, e) ==
  /\ entry' = [entry EXCEPT ![j] = e]
  /\ holder' = [holder EXCEPT ![j] = NoRunner]
  /\ UNCHANGED stalls

(* The handler returned: its entry completes if it still holds the lock.   *)
CompleteEntry(x, j) ==
  \/ /\ holder[j] = x
     /\ Settle(j, "completed")
     /\ UNCHANGED attempts
  \/ /\ holder[j] # x
     /\ UNCHANGED queueVars

(* Mutant: every failure is retried.                                       *)
FailEntry_Forever(x, j) ==
  \/ /\ holder[j] = x
     /\ Settle(j, "delayed")
     /\ UNCHANGED attempts
  \/ /\ holder[j] # x
     /\ UNCHANGED queueVars

(* The handler threw: back off and retry until the attempts are used up.   *)
FailEntry(x, j) ==
  \/ /\ holder[j] = x
     /\ attempts' = [attempts EXCEPT ![j] = @ + 1]
     /\ Settle(j, IF attempts[j] + 1 < MaxAttempts THEN "delayed" ELSE "failed")
  \/ /\ holder[j] # x
     /\ UNCHANGED queueVars

PromoteEntry(j) ==
  /\ entry[j] = "delayed"
  /\ entry' = [entry EXCEPT ![j] = "waiting"]
  /\ UNCHANGED <<attempts, stalls, holder>>

(* Mutant: stalls are counted and never add up to a failure.               *)
StallEntry_NoLimit(j) ==
  /\ entry[j] = "active"
  /\ stalls' = [stalls EXCEPT ![j] = @ + 1]
  /\ entry' = [entry EXCEPT ![j] = "waiting"]
  /\ holder' = [holder EXCEPT ![j] = NoRunner]
  /\ UNCHANGED attempts

(* Nobody renews the lock: the entry waits again, or fails for good.       *)
StallEntry(j) ==
  /\ entry[j] = "active"
  /\ stalls' = [stalls EXCEPT ![j] = @ + 1]
  /\ entry' = [entry EXCEPT ![j] = IF stalls[j] < MaxStalls THEN "waiting" ELSE "failed"]
  /\ holder' = [holder EXCEPT ![j] = NoRunner]
  /\ UNCHANGED attempts

(* removeOnComplete and removeOnFail keep only the newest entries.         *)
EvictEntry(j) ==
  /\ entry[j] \in {"completed", "failed"}
  /\ entry' = [entry EXCEPT ![j] = "none"]
  /\ attempts' = [attempts EXCEPT ![j] = 0]
  /\ stalls' = [stalls EXCEPT ![j] = 0]
  /\ UNCHANGED holder
=============================================================================
