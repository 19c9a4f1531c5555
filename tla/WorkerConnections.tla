-------------------------- MODULE WorkerConnections --------------------------
(***************************************************************************)
(* Who uses the connections of a worker process.  An import keeps one from *)
(* pool.connect until its finally block and needs another for every        *)
(* statement; exports and recovery need one per statement.  Some           *)
(* statements are sent two or three at a time (Promise.all).               *)
(***************************************************************************)
EXTENDS ConnectionPool, CopyStream, FiniteSets

CONSTANTS
  Width,      \* how many statements an export, or recovery, sends at a time
  MaxSteps    \* statements and batches of an import

Others == DOMAIN Width

ASSUME WorkerAssumption ==
  /\ Callers = Imports \cup Others
  /\ Imports \cap Others = {}
  /\ Width \in [Others -> Nat \ {0}]
  /\ MaxSteps \in Nat

(* The condition under which a worker cannot block itself: fewer imports   *)
(* than connections (BULK_WORKER_CONCURRENCY < DB_POOL_MAX).               *)
ASSUME EnoughConnections ==
  /\ IsFiniteSet(Connections)
  /\ IsFiniteSet(Imports)
  /\ Cardinality(Imports) < Cardinality(Connections)

VARIABLES
  pc,     \* where each caller is suspended
  steps   \* what an import has done so far

vars == <<poolVars, copyVars, pc, steps>>
runVars == <<pc, steps>>

ImportPcs == {"idle", "mark", "connect", "work", "copy", "throw", "catch", "finally"}

TypeOK ==
  /\ PoolTypeOK /\ CopyTypeOK
  /\ pc \in [Callers -> ImportPcs]
  /\ steps \in [Imports -> 0..MaxSteps]

Init ==
  /\ PoolInit /\ CopyInit
  /\ pc = [o \in Callers |-> "idle"]
  /\ steps = [i \in Imports |-> 0]

GoTo(o, l) == pc' = [pc EXCEPT ![o] = l]

Send(o, n) == Ask(Use(o, "statement"), n)

(* All the statements that a caller awaits have ended.                     *)
Settled(o) ==
  /\ Holds(Use(o, "statement")) = {}
  /\ \A m \in DOMAIN line : line[m] # Use(o, "statement")

-----------------------------------------------------------------------------
(* markJobRunning, and then pool.connect.                                  *)
Begin(i) ==
  /\ pc[i] = "idle"
  /\ GoTo(i, "mark")
  /\ Send(i, 1)
  /\ steps' = [steps EXCEPT ![i] = 0]
  /\ UNCHANGED copyVars

Connect(i) ==
  /\ pc[i] = "mark" /\ Settled(i)
  /\ GoTo(i, "connect")
  /\ Ask(Use(i, "copy"), 1)
  /\ UNCHANGED <<copyVars, steps>>

Ready(i) ==
  \/ pc[i] = "connect" /\ Holds(Use(i, "copy")) # {}
  \/ pc[i] = "work" /\ Settled(i)

(* The body of the try block: single statements, pairs of lookups or       *)
(* deletions, and batches on the import's own connection.                  *)
Work(i) ==
  /\ Ready(i) /\ steps[i] < MaxSteps
  /\ steps' = [steps EXCEPT ![i] = @ + 1]
  /\ \/ GoTo(i, "work") /\ (\E n \in {1, 2} : Send(i, n)) /\ UNCHANGED copyVars
     \/ GoTo(i, "copy") /\ openCopyStream(i) /\ UNCHANGED poolVars

Copying(i) == CopyWrites(i) /\ UNCHANGED <<poolVars, runVars>>

(* finish resolves, or rejects and the batch throws.                       *)
CopyEnds(i) ==
  /\ CopySettles(i)
  /\ GoTo(i, "work") \/ GoTo(i, "throw")
  /\ UNCHANGED <<poolVars, steps>>

(* The catch block tidies up and marks the job failed.                     *)
Catch(i) ==
  /\ pc[i] = "throw"
  /\ GoTo(i, "catch")
  /\ Send(i, 1)
  /\ UNCHANGED <<copyVars, steps>>

Leave(i) ==
  /\ \/ pc[i] = "work" /\ Settled(i)
     \/ pc[i] = "catch" /\ Settled(i)
  /\ GoTo(i, "finally")
  /\ UNCHANGED <<poolVars, copyVars, steps>>

(* Mutant: the connection is released only when the import has succeeded.  *)
Finally_OnSuccess(i) ==
  /\ pc[i] = "finally"
  /\ GoTo(i, "idle")
  /\ IF steps[i] = MaxSteps
     THEN \E c \in Holds(Use(i, "copy")) : Release(c)
     ELSE UNCHANGED poolVars
  /\ UNCHANGED <<copyVars, steps>>

Finally(i) ==
  /\ pc[i] = "finally"
  /\ GoTo(i, "idle")
  /\ \E c \in Holds(Use(i, "copy")) : Release(c)
  /\ UNCHANGED <<copyVars, steps>>

(* An export reads a page, recovery reads and sweeps rows.                 *)
Query(o) ==
  /\ pc[o] = "idle"
  /\ GoTo(o, "work")
  /\ Send(o, Width[o])
  /\ UNCHANGED <<copyVars, steps>>

Answered(o) ==
  /\ pc[o] = "work" /\ Settled(o)
  /\ GoTo(o, "idle")
  /\ UNCHANGED <<poolVars, copyVars, steps>>

-----------------------------------------------------------------------------
StatementEnds(o) ==
  /\ \E c \in Holds(Use(o, "statement")) : Release(c)
  /\ UNCHANGED <<copyVars, runVars>>

StrayEnds(o) ==
  /\ \E c \in Holds(Use(o, "stray")) : Release(c)
  /\ UNCHANGED <<copyVars, runVars>>

(* Mutant: no finally block, so that an error in the catch block skips     *)
(* the release.                                                            *)
Rejected_NoFinally(o) ==
  GoTo(o, IF pc[o] = "work" /\ o \in Imports THEN "throw" ELSE "idle")

(* Where a caller goes on when an await of it rejects.  Before the try     *)
(* block, nothing has to be released.                                      *)
Rejected(o) ==
  GoTo(o, CASE pc[o] = "work" /\ o \in Imports -> "throw"
            [] pc[o] = "catch" -> "finally"
            [] OTHER -> "idle")

(* A statement fails: Promise.all rejects at once and leaves the others of *)
(* its statements behind.                                                  *)
Abandon(use, o) == IF use = Use(o, "statement") THEN Use(o, "stray") ELSE use

StatementFails(o) ==
  /\ \E c \in Holds(Use(o, "statement")) :
       user' = [d \in Connections |-> IF d = c THEN Free ELSE Abandon(user[d], o)]
  /\ line' = [m \in DOMAIN line |-> Abandon(line[m], o)]
  /\ Rejected(o)
  /\ UNCHANGED <<copyVars, steps>>

(* A connection has to be opened, and PostgreSQL refuses it.               *)
Refuse(o) ==
  /\ FreeConnections # {} /\ line # <<>>
  /\ Head(line) \in {Use(o, "copy"), Use(o, "statement")}
  /\ user' = [c \in Connections |-> Abandon(user[c], o)]
  /\ line' = [m \in DOMAIN Tail(line) |-> Abandon(Tail(line)[m], o)]
  /\ Rejected(o)
  /\ UNCHANGED <<copyVars, steps>>

(* The pool listens only to the connections nobody has, and a file that is *)
(* piped into createGunzip has no listener at all: while an import has its *)
(* connection, the connection and the file may report an error that nobody *)
(* catches.                                                                *)
ConnectionError(i) == Holds(Use(i, "copy")) # {}

(* An uncaught error ends the process and everything it runs; the next one *)
(* starts with a new pool.                                                 *)
Die ==
  /\ \E i \in Imports : UncaughtError(i) \/ ConnectionError(i)
  /\ user' = [c \in Connections |-> Free] /\ line' = <<>>
  /\ flow' = [i \in Imports |-> "closed"] /\ left' = [i \in Imports |-> 0]
  /\ pc' = [o \in Callers |-> "idle"]
  /\ UNCHANGED steps

Serve == \E c \in Connections : Grant(c) /\ UNCHANGED <<copyVars, runVars>>

ImportStep(i) ==
  Connect(i) \/ Work(i) \/ Copying(i) \/ CopyEnds(i) \/ Catch(i) \/ Leave(i) \/ Finally(i)

Next ==
  \/ \E i \in Imports : Begin(i) \/ ImportStep(i)
  \/ \E o \in Others : Query(o) \/ Answered(o)
  \/ \E o \in Callers : StatementEnds(o) \/ StrayEnds(o) \/ StatementFails(o) \/ Refuse(o)
  \/ Serve \/ Die

Spec == Init /\ [][Next]_vars

(* Handlers go on, the pool serves its line, and statements end.           *)
FairSpec ==
  /\ Spec
  /\ WF_vars(Serve)
  /\ \A i \in Imports : WF_vars(ImportStep(i))
  /\ \A o \in Others : WF_vars(Answered(o))
  /\ \A o \in Callers : WF_vars(StatementEnds(o)) /\ WF_vars(StrayEnds(o))

-----------------------------------------------------------------------------
(* Properties                                                              *)

(* The callers in line do not all wait for each other: a connection is     *)
(* free or is used by a statement, which ends.                             *)
LineMoves ==
  line # <<>> => \E c \in Connections : user[c] = Free \/ user[c][2] # "copy"

(* An import keeps one connection and gives it back on every way out, so   *)
(* that the pool is whole when nothing runs.                               *)
OneConnectionKept ==
  \A i \in Imports :
    /\ Cardinality(Holds(Use(i, "copy"))) <= 1
    /\ Holds(Use(i, "copy")) # {} => pc[i] \notin {"idle", "mark"}

(* Every import ends, however many statements the others send, and whether *)
(* its own succeed, fail or take the process down.                         *)
EveryImportEnds == \A i \in Imports : pc[i] # "idle" ~> pc[i] = "idle"
=============================================================================
