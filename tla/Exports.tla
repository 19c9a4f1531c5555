------------------------------- MODULE Exports -------------------------------
(***************************************************************************)
(* The three readers that go through a table while imports write to it:    *)
(* the streaming export, the export job and the error stream.  They share  *)
(* nothing but the way they page, so a behaviour has one of them.          *)
(***************************************************************************)
EXTENDS StreamingExport, ErrorStream, ExportJob

CONSTANT Kinds   \* of "stream", "errors" and "job"

ASSUME KindsAssumption == Kinds \subseteq {"stream", "errors", "job"}

VARIABLE kind

vars == <<kind, tableVars, pc, pageVars, streamVars, errorVars, jobVars>>

TypeOK ==
  /\ kind \in Kinds
  /\ PagesTypeOK /\ StreamTypeOK /\ ErrorTypeOK /\ JobTypeOK
  /\ pc \in CASE kind = "stream" -> StreamPcs
              [] kind = "errors" -> ErrorPcs
              [] kind = "job" -> JobPcs

Init ==
  /\ kind \in Kinds
  /\ PagesInit /\ StreamInit /\ ErrorInit /\ JobInit

(* Production rows are never deleted, but an update may take one out of    *)
(* the filter of an export job; a new attempt of an import deletes all of  *)
(* its error rows at once.                                                 *)
Others ==
  /\ \/ \E k \in Keys : Enter(k)
     \/ kind = "job" /\ \E k \in table : Leave({k})
     \/ kind = "errors" /\ Leave(table)
  /\ UNCHANGED <<kind, streamVars, errorVars, jobVars>>

Stream == kind = "stream" /\ StreamNext /\ UNCHANGED <<kind, errorVars, jobVars>>
Errors == kind = "errors" /\ ErrorNext /\ UNCHANGED <<kind, streamVars, jobVars>>
Job == kind = "job" /\ JobNext /\ UNCHANGED <<kind, streamVars, errorVars>>

Next == Others \/ Stream \/ Errors \/ Job

Spec == Init /\ [][Next]_vars

(* A handler goes on: statements and writes to a file end.  Clients need   *)
(* not read, ask or stay, and nobody has to write.                         *)
Handler ==
  \/ kind = "stream" /\ HandleExport /\ UNCHANGED <<kind, errorVars, jobVars>>
  \/ kind = "errors" /\ HandleErrors /\ UNCHANGED <<kind, streamVars, jobVars>>
  \/ kind = "job" /\ HandleExportJob /\ UNCHANGED <<kind, streamVars, errorVars>>

FairSpec == Spec /\ WF_vars(Handler)

-----------------------------------------------------------------------------
(* Properties                                                              *)

Delivered == {out[n] : n \in DOMAIN out}

Whole ==
  CASE kind = "stream" -> over
    [] kind = "errors" -> sent
    [] kind = "job" -> status = "completed"

Delivery == INSTANCE OrderedDelivery WITH over <- Whole

(* Whatever is written to the table between two pages, whatever limits a   *)
(* client gives its requests and however its responses break: what it has  *)
(* at the end, what is in the file of a completed job and what an error    *)
(* stream has brought are the rows in order, none twice, and none missing  *)
(* that was there all the time.                                            *)
ImplementsDelivery == Delivery!Spec

(* The JSON array, or the lines, that hold these keys.                     *)
IsFramed(f, keys) ==
  CASE format = "ndjson" -> f = [n \in DOMAIN keys |-> Row(keys[n])]
    [] format = "json" ->
         /\ Len(f) = IF keys = <<>> THEN 2 ELSE 2 * Len(keys) + 1
         /\ f[1] = Opening /\ f[Len(f)] = Closing
         /\ \A n \in DOMAIN keys :
              f[2 * n] = Row(keys[n]) /\ (n > 1 => f[2 * n - 1] = Comma)

(* A completed job has a complete, well-formed file: its rows in one       *)
(* array, or one to a line, however often the job was run before, cut off  *)
(* in the middle, swept as stale while it was writing, or run again after  *)
(* it had completed.                                                       *)
CompletedFileIsWhole == status = "completed" => IsFramed(file, out)

(* A download that no other run overtakes, from the check of the row to    *)
(* the end of the file, brings a complete file and nothing else.  A job    *)
(* runs again after it completed if its worker dies before BullMQ is told, *)
(* or if the answer to markJobCompleted is lost; the file is then          *)
(* truncated under the download, which ends short without an error.        *)
DownloadIsWhole ==
  reading /\ ~rerun =>
    /\ IsFramed(file, out)
    /\ Len(copy) <= Len(file) /\ \A n \in DOMAIN copy : copy[n] = file[n]

(* A reader comes to its end though rows are added while it reads (the     *)
(* keys are finitely many: nothing stops it if rows come for ever), unless *)
(* it waits for its client to read on: a client that stays and does not    *)
(* read, or one that left while the handler was waiting for drain.         *)
EveryReaderEnds == [](pc # "idle" => <>(pc = "idle" \/ [](pc = "drain")))
=============================================================================
