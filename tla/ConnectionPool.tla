---------------------------- MODULE ConnectionPool ----------------------------
(***************************************************************************)
(* The pool of a process (infrastructure/database/pool.ts), which Prisma   *)
(* uses for every statement and an import for its COPY connection.  There  *)
(* is no connection timeout, so a caller waits in line until a connection  *)
(* is released.                                                            *)
(***************************************************************************)
EXTENDS Naturals, Sequences

CONSTANTS
  Connections,   \* DB_POOL_MAX of them
  Callers,       \* who asks for connections
  Nobody

ASSUME PoolAssumption == Nobody \notin Callers

VARIABLES
  user,   \* the caller and the use of each connection
  line    \* callers that wait, with their use, in order

poolVars == <<user, line>>

Use(caller, what) == <<caller, what>>
(* A stray statement is one that Promise.all no longer waits for.          *)
Uses == Callers \X {"copy", "statement", "stray"}
Free == Use(Nobody, "free")

PoolTypeOK ==
  /\ user \in [Connections -> Uses \cup {Free}]
  /\ line \in Seq(Uses)

PoolInit ==
  /\ user = [c \in Connections |-> Free]
  /\ line = <<>>

FreeConnections == {c \in Connections : user[c] = Free}

(* pool.connect, or a statement of Prisma; n of them at once.              *)
Ask(use, n) ==
  /\ line' = line \o [m \in 1..n |-> use]
  /\ UNCHANGED user

(* Mutant: a free connection goes to the last in line.                     *)
Grant_Newest(c) ==
  /\ c \in FreeConnections /\ line # <<>>
  /\ user' = [user EXCEPT ![c] = line[Len(line)]]
  /\ line' = SubSeq(line, 1, Len(line) - 1)

(* A free connection goes to the first in line.                            *)
Grant(c) ==
  /\ c \in FreeConnections /\ line # <<>>
  /\ user' = [user EXCEPT ![c] = Head(line)]
  /\ line' = Tail(line)

Holds(use) == {c \in Connections : user[c] = use}

Release(c) ==
  /\ user' = [user EXCEPT ![c] = Free]
  /\ UNCHANGED line
=============================================================================
