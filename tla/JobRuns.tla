------------------------------ MODULE JobRuns ------------------------------
(***************************************************************************)
(* What the queue promises a job handler, with nothing of rows, locks and  *)
(* sweeps: a job has one run at a time, a run ends in success, in failure  *)
(* or is lost, failures and losses are counted one by one, and no run      *)
(* begins after a success or when either count is used up.                 *)
(***************************************************************************)
EXTENDS Naturals

CONSTANTS Jobs, Runners, MaxFailures, MaxLosses

VARIABLES
  runs,       \* the runners that work on each job
  failures,   \* how often a run of the job has failed
  losses,     \* how often a run of the job has ended without a word
  done        \* the jobs that have succeeded

Init ==
  /\ runs = [j \in Jobs |-> {}]
  /\ failures = [j \in Jobs |-> 0]
  /\ losses = [j \in Jobs |-> 0]
  /\ done = {}

Begin(j, x) ==
  /\ runs[j] = {} /\ \A k \in Jobs : x \notin runs[k]
  /\ j \notin done
  /\ failures[j] < MaxFailures /\ losses[j] <= MaxLosses
  /\ runs' = [runs EXCEPT ![j] = {x}]
  /\ UNCHANGED <<failures, losses, done>>

End(j) ==
  /\ runs[j] # {}
  /\ runs' = [runs EXCEPT ![j] = {}]

Succeed(j) ==
  /\ End(j)
  /\ done' = done \cup {j}
  /\ UNCHANGED <<failures, losses>>

Fail(j) ==
  /\ End(j)
  /\ failures' = [failures EXCEPT ![j] = @ + 1]
  /\ UNCHANGED <<losses, done>>

(* A process takes all its runs with it.                                   *)
Lose(gone) ==
  /\ \A j \in gone : runs[j] # {}
  /\ runs' = [j \in Jobs |-> IF j \in gone THEN {} ELSE runs[j]]
  /\ losses' = [j \in Jobs |-> IF j \in gone THEN losses[j] + 1 ELSE losses[j]]
  /\ UNCHANGED <<failures, done>>

Next ==
  \/ \E j \in Jobs : Succeed(j) \/ Fail(j) \/ \E x \in Runners : Begin(j, x)
  \/ \E gone \in SUBSET Jobs : Lose(gone)

Spec == Init /\ [][Next]_<<runs, failures, losses, done>>
=============================================================================
