------------------------------ MODULE ExportJob ------------------------------
(***************************************************************************)
(* runExportJob and the download of its file.  One handler runs the job at *)
(* a time (SingleRunner of module JobSystem), again after a failure and    *)
(* after a crash, even one between markJobCompleted and the report to      *)
(* BullMQ.  Every run writes the same file from its beginning.             *)
(***************************************************************************)
EXTENDS KeysetPages

CONSTANTS
  FileBatch,   \* EXPORT_FETCH_BATCH_SIZE
  Formats,     \* of "json" and "ndjson"
  MaxRuns      \* bound on the runs of the job

ASSUME JobAssumption ==
  FileBatch \in Nat \ {0} /\ Formats \subseteq {"json", "ndjson"} /\ MaxRuns \in Nat

VARIABLES
  format,
  status,     \* of the row in bulk_jobs
  file,       \* what the output file holds, as a sequence of tokens
  started,    \* a chunk has passed: both transforms keep such a flag
  runs,
  acked,      \* BullMQ knows the job is done
  reading,    \* a download goes on, from the check of the row
  opened,     \* it has its file open
  copy,       \* what it has brought
  rerun       \* the job was started again since the check

fileVars == <<file, started>>
runVars == <<runs, acked>>
downloadVars == <<reading, opened, copy, rerun>>
jobVars == <<format, status, fileVars, runVars, downloadVars>>

JobPcs == {"idle", "mark", "open", "loop", "write", "flush", "complete", "fail", "ack"}
Statuses == {"queued", "running", "completed", "failed"}

(* A file is a sequence of keys and of the marks of a JSON array.          *)
Marks == {"[", ",", "]"}
Row(k) == [mark |-> "row", key |-> k]
Mark(m) == [mark |-> m, key |-> 0]
Tokens == {Row(k) : k \in Keys} \cup {Mark(m) : m \in Marks}
Opening == Mark("[")
Comma == Mark(",")
Closing == Mark("]")

JobTypeOK ==
  /\ format \in Formats
  /\ status \in Statuses
  /\ file \in Seq(Tokens) /\ copy \in Seq(Tokens)
  /\ started \in BOOLEAN
  /\ runs \in 0..MaxRuns
  /\ acked \in BOOLEAN /\ reading \in BOOLEAN
  /\ opened \in BOOLEAN /\ rerun \in BOOLEAN

JobInit ==
  /\ format \in Formats
  /\ status = "queued"
  /\ file = <<>> /\ copy = <<>>
  /\ started = FALSE
  /\ runs = 0
  /\ acked = FALSE /\ reading = FALSE /\ opened = FALSE /\ rerun = FALSE

-----------------------------------------------------------------------------
(* BullMQ delivers the entry and findJobById reads the row.                *)
RunExport ==
  /\ pc = "idle" /\ ~acked /\ runs < MaxRuns
  /\ runs' = runs + 1
  /\ pc' = "mark"
  /\ UNCHANGED <<tableVars, pageVars, format, status, fileVars, acked, downloadVars>>

(* Mutant: the job is not marked running when it runs again.               *)
MarkRunning_Once ==
  /\ pc = "mark"
  /\ status' = IF status = "queued" THEN "running" ELSE status
  /\ ForgetHistory
  /\ rerun' = TRUE
  /\ pc' = "open"
  /\ UNCHANGED <<table, after, rows, format, fileVars, runVars, reading, opened, copy>>

MarkRunning ==
  /\ pc = "mark"
  /\ status' = "running"
  /\ ForgetHistory
  /\ rerun' = TRUE
  /\ pc' = "open"
  /\ UNCHANGED <<table, after, rows, format, fileVars, runVars, reading, opened, copy>>

(* Mutant: the file of an earlier run is continued.                        *)
OpenFile_Appends ==
  /\ pc = "open"
  /\ FromTheStart
  /\ started' = FALSE
  /\ pc' = "loop"
  /\ UNCHANGED <<tableVars, out, format, status, file, runVars, downloadVars>>

(* createWriteStream truncates the file; the transforms are new.           *)
OpenFile ==
  /\ pc = "open"
  /\ FromTheStart
  /\ file' = <<>> /\ started' = FALSE
  /\ pc' = "loop"
  /\ UNCHANGED <<tableVars, out, format, status, runVars, downloadVars>>

(* Only an empty page ends the generator.                                  *)
FetchFilePage ==
  /\ pc = "loop"
  /\ FetchPage(FileBatch)
  /\ pc' = IF rows' = {} THEN "flush" ELSE "write"
  /\ UNCHANGED jobVars

(* createJsonFormatTransform puts a comma before all but the first object, *)
(* createJsonArrayWrapper the bracket before the first chunk.              *)
Chunk(k) ==
  IF format = "ndjson" THEN <<Row(k)>>
  ELSE <<IF started THEN Comma ELSE Opening, Row(k)>>

Ending ==
  IF format = "ndjson" THEN <<>>
  ELSE IF started THEN <<Closing>> ELSE <<Opening, Closing>>

WriteFileRow(k) ==
  /\ pc = "write"
  /\ TakeRow(k)
  /\ out' = Append(out, k)
  /\ file' = file \o Chunk(k)
  /\ started' = TRUE
  /\ pc' = IF rows' = {} THEN "loop" ELSE "write"
  /\ UNCHANGED <<format, status, runVars, downloadVars>>

FlushFile ==
  /\ pc = "flush"
  /\ file' = file \o Ending
  /\ pc' = "complete"
  /\ UNCHANGED <<tableVars, pageVars, format, status, started, runVars, downloadVars>>

(* The statement may take effect although its answer is lost.              *)
MarkCompleted ==
  /\ pc = "complete"
  /\ status' = "completed"
  /\ pc' \in {"ack", "fail"}
  /\ UNCHANGED <<tableVars, pageVars, format, fileVars, runVars, downloadVars>>

AckExport ==
  /\ pc = "ack"
  /\ acked' = TRUE
  /\ pc' = "idle"
  /\ UNCHANGED <<tableVars, pageVars, format, status, fileVars, runs, downloadVars>>

(* findJobById or markJobRunning fails before the try block.               *)
StartFails ==
  /\ pc = "mark"
  /\ pc' = "idle"
  /\ UNCHANGED <<tableVars, pageVars, jobVars>>

(* A page, a write or markJobCompleted fails.  Rows that wait in the       *)
(* buffers of the pipeline are lost with the rest of the file.             *)
RunFails ==
  /\ pc \in {"open", "loop", "write", "flush", "complete"}
  /\ pc' = "fail"
  /\ UNCHANGED <<tableVars, pageVars, jobVars>>

(* The catch block; its statement may fail as well.                        *)
MarkExportFailed ==
  /\ pc = "fail"
  /\ status' \in {"failed", status}
  /\ pc' = "idle"
  /\ UNCHANGED <<tableVars, pageVars, format, fileVars, runVars, downloadVars>>

CrashExport ==
  /\ pc # "idle"
  /\ pc' = "idle"
  /\ UNCHANGED <<tableVars, pageVars, jobVars>>

(* markStaleRunningJobsFailed, which may overtake a slow run.              *)
SweepExport ==
  /\ status = "running"
  /\ status' = "failed"
  /\ UNCHANGED <<tableVars, pc, pageVars, format, fileVars, runVars, downloadVars>>

-----------------------------------------------------------------------------
(* getExportDownload: the row decides.                                     *)
getExportDownload ==
  /\ ~reading
  /\ status = "completed"
  /\ reading' = TRUE /\ opened' = FALSE /\ copy' = <<>> /\ rerun' = FALSE
  /\ UNCHANGED <<tableVars, pc, pageVars, format, status, fileVars, runVars>>

(* createReadStream, some time later: the job may be running again.        *)
OpenDownload ==
  /\ reading /\ ~opened
  /\ opened' = TRUE
  /\ UNCHANGED <<tableVars, pc, pageVars, format, status, fileVars, runVars,
                 reading, copy, rerun>>

ReadChunk ==
  /\ reading /\ opened /\ Len(copy) < Len(file)
  /\ copy' = Append(copy, file[Len(copy) + 1])
  /\ UNCHANGED <<tableVars, pc, pageVars, format, status, fileVars, runVars,
                 reading, opened, rerun>>

(* The end of the file is the end of the response.                         *)
EndDownload ==
  /\ reading /\ opened /\ Len(copy) >= Len(file)
  /\ reading' = FALSE /\ opened' = FALSE /\ copy' = <<>>
  /\ UNCHANGED <<tableVars, pc, pageVars, format, status, fileVars, runVars, rerun>>

HandleExportJob ==
  \/ MarkRunning \/ OpenFile \/ FetchFilePage \/ FlushFile \/ MarkCompleted
  \/ AckExport \/ MarkExportFailed
  \/ \E k \in rows : WriteFileRow(k)

JobNext ==
  \/ RunExport \/ HandleExportJob \/ StartFails \/ RunFails \/ CrashExport \/ SweepExport
  \/ getExportDownload \/ OpenDownload \/ ReadChunk \/ EndDownload
=============================================================================
