--------------------------- MODULE StreamingExport ---------------------------
(***************************************************************************)
(* GET /v1/exports and a client that follows X-Next-Cursor: one response   *)
(* after another, each with a limit of its own.  The client keeps what a   *)
(* complete response brought and drops the rows of a broken one.  A        *)
(* handler whose client has gone shares nothing with the next one, so it   *)
(* is followed only until the client asks again.                           *)
(***************************************************************************)
EXTENDS KeysetPages

CONSTANTS
  BatchSize,      \* EXPORT_FETCH_BATCH_SIZE
  RawLimits,      \* values of the query parameter "limit"
  NoNumber,       \* the parameter is not a number
  DefaultLimit,   \* 5000
  LimitCap,       \* 50000
  MaxBroken       \* bound on the responses of a session that break

ASSUME StreamAssumption ==
  /\ BatchSize \in Nat \ {0}
  /\ NoNumber \notin Int
  /\ RawLimits \subseteq Int \cup {NoNumber}
  /\ LimitCap \in Nat \ {0}
  /\ DefaultLimit \in 1..LimitCap
  /\ MaxBroken \in Nat

VARIABLES
  remaining,   \* rows this response may still fetch
  last,        \* the page was shorter than asked for
  aborted,     \* reply.raw has closed
  kept,        \* how many of the rows in "out" complete responses brought
  cursor,      \* the cursor the client sends next
  over,        \* a response came without a cursor
  broken       \* the responses that broke

streamVars == <<remaining, last, aborted, kept, cursor, over, broken>>

StreamPcs == {"idle", "loop", "write", "drain", "finish"}

StreamTypeOK ==
  /\ remaining \in 0..LimitCap
  /\ last \in BOOLEAN /\ aborted \in BOOLEAN /\ over \in BOOLEAN
  /\ kept \in 0..Len(out)
  /\ cursor \in Cursors
  /\ broken \in 0..MaxBroken

StreamInit ==
  /\ remaining = 0 /\ kept = 0 /\ cursor = 0 /\ broken = 0
  /\ last = FALSE /\ aborted = FALSE /\ over = FALSE

(* Mutant: the limit is not capped.                                        *)
parseExportLimit_Uncapped(raw) ==
  IF raw = NoNumber THEN DefaultLimit ELSE IF raw < 1 THEN 1 ELSE raw

parseExportLimit(raw) ==
  IF raw = NoNumber THEN DefaultLimit
  ELSE IF raw < 1 THEN 1
  ELSE IF raw > LimitCap THEN LimitCap ELSE raw

-----------------------------------------------------------------------------
Request(raw) ==
  /\ pc = "idle" \/ aborted
  /\ ~over
  /\ after' = cursor
  /\ rows' = {}
  /\ remaining' = parseExportLimit(raw)
  /\ last' = FALSE
  /\ aborted' = FALSE
  /\ pc' = "loop"
  /\ UNCHANGED <<tableVars, out, kept, cursor, over, broken>>

(* The loop ends when the limit is used up or a page comes back empty.     *)
FetchStreamPage ==
  /\ pc = "loop" /\ remaining > 0
  /\ LET batchLimit == IF remaining < BatchSize THEN remaining ELSE BatchSize IN
     /\ FetchPage(batchLimit)
     /\ remaining' = remaining - Cardinality(rows')
     /\ last' = (Cardinality(rows') < batchLimit)
  /\ pc' = IF rows' = {} THEN "finish" ELSE "write"
  /\ UNCHANGED <<aborted, kept, cursor, over, broken>>

LimitReached ==
  /\ pc = "loop" /\ remaining = 0
  /\ pc' = "finish"
  /\ UNCHANGED <<tableVars, pageVars, streamVars>>

(* A short page is the last one.                                           *)
AfterRow(left) ==
  IF left # {} THEN "write" ELSE IF last THEN "finish" ELSE "loop"

(* writeChunk: nothing is written for a client that has gone; a full       *)
(* buffer makes the handler wait for drain.                                *)
WriteStreamRow(k) ==
  /\ pc = "write"
  /\ TakeRow(k)
  /\ out' = IF aborted THEN out ELSE Append(out, k)
  /\ \/ pc' = AfterRow(rows')
     \/ ~aborted /\ pc' = "drain"
  /\ UNCHANGED <<remaining, last, aborted, kept, cursor, over, broken>>

(* "drain" never comes once the client has gone.                           *)
StreamDrained ==
  /\ pc = "drain" /\ ~aborted
  /\ pc' = AfterRow(rows)
  /\ UNCHANGED <<tableVars, pageVars, streamVars>>

LoseResponse ==
  /\ broken < MaxBroken
  /\ broken' = broken + 1
  /\ out' = SubSeq(out, 1, kept)

StreamClosed ==
  /\ pc # "idle" /\ ~aborted
  /\ LoseResponse
  /\ aborted' = TRUE
  /\ UNCHANGED <<pc, tableVars, after, rows, remaining, last, kept, cursor, over>>

(* The statement of a page fails; the catch block destroys the reply.      *)
StreamFails ==
  /\ pc = "loop" /\ remaining > 0
  /\ IF aborted THEN UNCHANGED <<out, broken>> ELSE LoseResponse
  /\ pc' = "idle"
  /\ UNCHANGED <<tableVars, after, rows, remaining, last, aborted, kept, cursor, over>>

(* Mutant: a response that used up its limit brings no cursor.             *)
EndResponse_NoCursorAtLimit ==
  /\ pc = "finish"
  /\ pc' = "idle"
  /\ IF aborted THEN UNCHANGED <<kept, cursor, over>>
     ELSE /\ kept' = Len(out)
          /\ IF after # cursor /\ remaining > 0
             THEN cursor' = after /\ UNCHANGED over
             ELSE over' = TRUE /\ UNCHANGED cursor
  /\ UNCHANGED <<tableVars, pageVars, remaining, last, aborted, broken>>

(* The trailers: a cursor if anything was written, that is, if the cursor  *)
(* of the loop has moved.                                                  *)
EndResponse ==
  /\ pc = "finish"
  /\ pc' = "idle"
  /\ IF aborted THEN UNCHANGED <<kept, cursor, over>>
     ELSE /\ kept' = Len(out)
          /\ IF after # cursor
             THEN cursor' = after /\ UNCHANGED over
             ELSE over' = TRUE /\ UNCHANGED cursor
  /\ UNCHANGED <<tableVars, pageVars, remaining, last, aborted, broken>>

HandleExport ==
  \/ FetchStreamPage \/ LimitReached \/ EndResponse
  \/ \E k \in rows : WriteStreamRow(k)

StreamNext ==
  \/ HandleExport \/ StreamDrained \/ StreamClosed \/ StreamFails
  \/ \E raw \in RawLimits : Request(raw)
=============================================================================
