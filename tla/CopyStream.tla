------------------------------ MODULE CopyStream ------------------------------
(***************************************************************************)
(* infrastructure/database/copyStream.ts and writeRowsToStaging: one batch *)
(* written to PostgreSQL as a stream.  Errors of the stream are events, so *)
(* they arrive only while the writer waits: in finish, which listens for   *)
(* them, or in drain, which does not.                                      *)
(***************************************************************************)
EXTENDS Naturals

CONSTANTS
  Imports,
  MaxRows     \* rows of a batch

ASSUME CopyAssumption == MaxRows \in Nat \ {0}

VARIABLES
  flow,   \* where the writer of each import is
  left    \* rows it still has to write

copyVars == <<flow, left>>

CopyTypeOK ==
  /\ flow \in [Imports -> {"closed", "write", "drain", "finish"}]
  /\ left \in [Imports -> 0..MaxRows]

CopyInit ==
  /\ flow = [i \in Imports |-> "closed"]
  /\ left = [i \in Imports |-> 0]

openCopyStream(i) ==
  /\ flow[i] = "closed"
  /\ flow' = [flow EXCEPT ![i] = "write"]
  /\ \E n \in 1..MaxRows : left' = [left EXCEPT ![i] = n]

(* Mutant: the loop runs past the last row.                                *)
writeRow_PastTheEnd(i) ==
  /\ flow[i] = "write"
  /\ left' = [left EXCEPT ![i] = @ - 1]
  /\ \E ok \in BOOLEAN : flow' = [flow EXCEPT ![i] = IF ok THEN "write" ELSE "drain"]

(* write returns false when the buffer of the stream is full.              *)
writeRow(i) ==
  /\ flow[i] = "write" /\ left[i] > 0
  /\ left' = [left EXCEPT ![i] = @ - 1]
  /\ \E ok \in BOOLEAN : flow' = [flow EXCEPT ![i] = IF ok THEN "write" ELSE "drain"]

drain(i) ==
  /\ flow[i] = "drain"
  /\ flow' = [flow EXCEPT ![i] = "write"]
  /\ UNCHANGED left

finish(i) ==
  /\ flow[i] = "write" /\ left[i] = 0
  /\ flow' = [flow EXCEPT ![i] = "finish"]
  /\ UNCHANGED left

CopyWrites(i) == writeRow(i) \/ drain(i) \/ finish(i)

(* The promise of finish settles: "finish", or "error" and the stream is   *)
(* destroyed.                                                              *)
CopySettles(i) ==
  /\ flow[i] = "finish"
  /\ flow' = [flow EXCEPT ![i] = "closed"]
  /\ UNCHANGED left

(* An error event of the stream that nobody listens for.                   *)
UncaughtError(i) == flow[i] = "drain"
=============================================================================
