----------------------------- MODULE ErrorStream -----------------------------
(***************************************************************************)
(* GET /v1/imports/:jobId/errors: all error rows of a job in one response, *)
(* while the job may still add rows and a new attempt deletes them all.    *)
(* A key is the pair (created_at, id); ids are random, so a new row of the *)
(* same millisecond may come before the cursor.                            *)
(***************************************************************************)
EXTENDS KeysetPages

CONSTANT ErrorPage   \* 2000

ASSUME ErrorAssumption == ErrorPage \in Nat \ {0}

VARIABLES
  closed,   \* the client has gone
  sent      \* reply.raw has been ended

errorVars == <<closed, sent>>

ErrorPcs == {"idle", "loop", "write", "drain"}

ErrorTypeOK == closed \in BOOLEAN /\ sent \in BOOLEAN

ErrorInit == closed = FALSE /\ sent = FALSE

BeginErrors ==
  /\ pc = "idle" /\ ~closed /\ ~sent
  /\ ForgetHistory /\ FromTheStart
  /\ pc' = "loop"
  /\ UNCHANGED <<table, errorVars>>

(* Mutant: an empty page does not end the loop.                            *)
FetchErrors_Forever ==
  /\ pc = "loop"
  /\ FetchPage(ErrorPage)
  /\ pc' = IF rows' = {} THEN "loop" ELSE "write"
  /\ UNCHANGED errorVars

(* An empty page ends the response.                                        *)
FetchErrors ==
  /\ pc = "loop"
  /\ FetchPage(ErrorPage)
  /\ IF rows' = {}
     THEN pc' = "idle" /\ sent' = ~closed
     ELSE pc' = "write" /\ UNCHANGED sent
  /\ UNCHANGED closed

FetchErrorsFails ==
  /\ pc = "loop"
  /\ pc' = "idle" /\ closed' = TRUE
  /\ UNCHANGED <<tableVars, pageVars, sent>>

(* The handler does not look whether the client has gone: a write to a     *)
(* closed reply fails, or asks it to wait for a drain that never comes.    *)
WriteError(k) ==
  /\ pc = "write"
  /\ TakeRow(k)
  /\ IF closed
     THEN pc' \in {"idle", "drain"} /\ UNCHANGED out
     ELSE /\ out' = Append(out, k)
          /\ pc' \in {IF rows' = {} THEN "loop" ELSE "write", "drain"}
  /\ UNCHANGED errorVars

ErrorsDrained ==
  /\ pc = "drain" /\ ~closed
  /\ pc' = IF rows = {} THEN "loop" ELSE "write"
  /\ UNCHANGED <<tableVars, pageVars, errorVars>>

ErrorsClosed ==
  /\ pc # "idle" /\ ~closed
  /\ closed' = TRUE
  /\ UNCHANGED <<tableVars, pc, pageVars, sent>>

HandleErrors == FetchErrors \/ \E k \in rows : WriteError(k)

ErrorNext ==
  BeginErrors \/ HandleErrors \/ FetchErrorsFails \/ ErrorsDrained \/ ErrorsClosed
=============================================================================
