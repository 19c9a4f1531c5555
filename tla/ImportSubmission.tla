-------------------------- MODULE ImportSubmission --------------------------
(***************************************************************************)
(* POST /v1/imports: how a request becomes an import job at most once per  *)
(* Idempotency-Key (application/import/service.ts with the reservation and *)
(* job tables of infrastructure/repositories/jobRepository.ts and the file *)
(* store of infrastructure/storage/importStorage.ts).                      *)
(*                                                                         *)
(* A request is a process.  Every await of the handler that reads or       *)
(* writes shared state is one step, so requests interleave at the awaits.  *)
(* randomUUID() gives each request its own candidate job id, which names   *)
(* its input file too: both are represented by the request itself.         *)
(***************************************************************************)
EXTENDS Naturals

CONSTANTS
  Requests,     \* the requests that may arrive
  Slots,        \* the (Idempotency-Key, created_by) pairs: the primary key
  NoSlot,       \* a request without the header
  Servers,      \* API processes
  SlotOf,       \* the slot of each request, or NoSlot
  Fingerprint,  \* the request hash: payload or URL with entity and format
  Via,          \* "upload" (multipart) or "url" (JSON body)
  ServerOf,     \* the API process that serves each request
  MaxPolls,     \* IDEMPOTENCY_WAIT_TIMEOUT_MS / IDEMPOTENCY_WAIT_POLL_MS
  Faults,       \* the faults a run admits, see FaultKinds
  None

(* "crash": an API process dies.  "reserveAck", "createAck": the INSERT of *)
(* the reservation, or of the job row, commits but its client sees an      *)
(* error.  "release": the statement that deletes the reservation fails.    *)
(* "rm": the clean-up of an input file fails.                              *)
FaultKinds == {"crash", "reserveAck", "createAck", "release", "rm"}

ASSUME SubmissionAssumption ==
  /\ NoSlot \notin Slots
  /\ None \notin Requests
  /\ SlotOf \in [Requests -> Slots \cup {NoSlot}]
  /\ Via \in [Requests -> {"upload", "url"}]
  /\ ServerOf \in [Requests -> Servers]
  /\ MaxPolls \in Nat
  /\ Faults \subseteq FaultKinds

VARIABLES
  pc,           \* where each request's handler is suspended
  seen,         \* the job id a request read from a reservation it lost to
  polls,        \* how often a request has waited for that job
  outcome,      \* what a request will answer, or has answered once "done"
  reservation,  \* table import_idempotency: slot -> job id or None
  jobs,         \* table bulk_jobs: the ids of the rows created here
  queue,        \* the job ids handed to the import queue
  file          \* the input file of each candidate job id

vars == <<pc, seen, polls, outcome, reservation, jobs, queue, file>>
tables == <<reservation, jobs, queue>>
locals == <<seen, polls>>

Waiting == {"reserve", "readReservation", "findJob"}
Owning == {"fetch", "download", "createJob", "enqueue", "release"}
Pcs == Waiting \cup Owning \cup {"idle", "store", "cleanup", "done", "crashed"}

Outcomes == {"none", "accepted", "replayed", "conflict", "error"}

TypeOK ==
  /\ pc \in [Requests -> Pcs]
  /\ seen \in [Requests -> Requests \cup {None}]
  /\ polls \in [Requests -> 0..MaxPolls]
  /\ outcome \in [Requests -> Outcomes]
  /\ reservation \in [Slots -> Requests \cup {None}]
  /\ jobs \subseteq Requests
  /\ queue \subseteq Requests
  /\ file \in [Requests -> {"none", "partial", "complete"}]

Init ==
  /\ pc = [r \in Requests |-> "idle"]
  /\ seen = [r \in Requests |-> None]
  /\ polls = [r \in Requests |-> 0]
  /\ outcome = [r \in Requests |-> "none"]
  /\ reservation = [s \in Slots |-> None]
  /\ jobs = {}
  /\ queue = {}
  /\ file = [r \in Requests |-> "none"]

GoTo(r, l) == pc' = [pc EXCEPT ![r] = l]
Finish(r, l, o) == GoTo(r, l) /\ outcome' = [outcome EXCEPT ![r] = o]

(* rm(path, { force: true }), in a catch or a finally                      *)
RemoveFile(r) ==
  \/ file' = [file EXCEPT ![r] = "none"]
  \/ "rm" \in Faults /\ UNCHANGED file

-----------------------------------------------------------------------------
(* The handler starts.  An upload is stored under the candidate id before  *)
(* anything is reserved; a URL import reserves first.                      *)
Arrive(r) ==
  /\ pc[r] = "idle"
  /\ \/ /\ Via[r] = "upload"
        /\ GoTo(r, "store")
        /\ file' = [file EXCEPT ![r] = "partial"]
     \/ /\ Via[r] = "url"
        /\ GoTo(r, "reserve")
        /\ UNCHANGED file
  /\ UNCHANGED <<outcome, locals, tables>>

StoreUpload(r) ==
  /\ pc[r] = "store"
  /\ GoTo(r, "reserve")
  /\ file' = [file EXCEPT ![r] = "complete"]
  /\ UNCHANGED <<outcome, locals, tables>>

(* Mutant: writeFile throws and leaves what it wrote.                      *)
StoreUploadFails_KeepsFile(r) ==
  /\ pc[r] = "store"
  /\ Finish(r, "done", "error")
  /\ UNCHANGED <<locals, tables, file>>

(* Too large, or the stream broke: writeFile removes the file and throws.  *)
StoreUploadFails(r) ==
  /\ pc[r] = "store"
  /\ Finish(r, "done", "error")
  /\ RemoveFile(r)
  /\ UNCHANGED <<locals, tables>>

-----------------------------------------------------------------------------
(* reserveImportSubmission *)

AfterReserve(r) == IF Via[r] = "url" THEN "fetch" ELSE "createJob"

(* INSERT into import_idempotency; its primary key decides the race.       *)
Reserve(r) ==
  /\ pc[r] = "reserve"
  /\ \/ /\ SlotOf[r] = NoSlot
        /\ GoTo(r, AfterReserve(r))
        /\ UNCHANGED reservation
     \/ /\ SlotOf[r] # NoSlot
        /\ reservation[SlotOf[r]] = None
        /\ reservation' = [reservation EXCEPT ![SlotOf[r]] = r]
        /\ GoTo(r, AfterReserve(r))
     \/ /\ SlotOf[r] # NoSlot
        /\ reservation[SlotOf[r]] # None
        /\ GoTo(r, "readReservation")
        /\ UNCHANGED reservation
  /\ UNCHANGED <<outcome, locals, jobs, queue, file>>

(* The INSERT commits and its answer is lost: the handler throws without   *)
(* knowing that it holds a reservation.                                    *)
ReserveAckLost(r) ==
  /\ "reserveAck" \in Faults
  /\ pc[r] = "reserve"
  /\ SlotOf[r] # NoSlot
  /\ reservation[SlotOf[r]] = None
  /\ reservation' = [reservation EXCEPT ![SlotOf[r]] = r]
  /\ Finish(r, "cleanup", "error")
  /\ UNCHANGED <<locals, jobs, queue, file>>

(* Mutant: the request hash is not compared.                               *)
ReadReservation_AnyHash(r) ==
  /\ pc[r] = "readReservation"
  /\ \/ /\ reservation[SlotOf[r]] = None
        /\ Finish(r, "cleanup", "error")
        /\ UNCHANGED seen
     \/ /\ reservation[SlotOf[r]] # None
        /\ GoTo(r, "findJob")
        /\ seen' = [seen EXCEPT ![r] = reservation[SlotOf[r]]]
        /\ UNCHANGED outcome
  /\ UNCHANGED <<polls, tables, file>>

(* findUnique, then assertIdempotentRequestMatches.  The row may be gone   *)
(* by now: then the handler throws "reservation lost during race".         *)
ReadReservation(r) ==
  /\ pc[r] = "readReservation"
  /\ LET row == reservation[SlotOf[r]] IN
     \/ /\ row = None
        /\ Finish(r, "cleanup", "error")
        /\ UNCHANGED seen
     \/ /\ row # None
        /\ Fingerprint[row] # Fingerprint[r]
        /\ Finish(r, "cleanup", "conflict")
        /\ UNCHANGED seen
     \/ /\ row # None
        /\ Fingerprint[row] = Fingerprint[r]
        /\ GoTo(r, "findJob")
        /\ seen' = [seen EXCEPT ![r] = row]
        /\ UNCHANGED outcome
  /\ UNCHANGED <<polls, tables, file>>

(* Mutant: the deadline is tested one poll late.                           *)
FindJob_LateDeadline(r) ==
  /\ pc[r] = "findJob"
  /\ seen[r] \notin jobs
  /\ polls[r] <= MaxPolls
  /\ polls' = [polls EXCEPT ![r] = @ + 1]
  /\ GoTo(r, "reserve")
  /\ UNCHANGED <<outcome, seen, tables, file>>

(* Mutant: the wait has no deadline.                                       *)
FindJob_NoDeadline(r) ==
  /\ pc[r] = "findJob"
  /\ \/ seen[r] \in jobs /\ Finish(r, "cleanup", "replayed")
     \/ seen[r] \notin jobs /\ GoTo(r, "reserve") /\ UNCHANGED outcome
  /\ UNCHANGED <<locals, tables, file>>

(* The job exists: replay it.  Otherwise sleep and reserve again, until    *)
(* the deadline; slow statements may use it up in fewer than MaxPolls.     *)
FindJob(r) ==
  /\ pc[r] = "findJob"
  /\ \/ /\ seen[r] \in jobs
        /\ Finish(r, "cleanup", "replayed")
        /\ UNCHANGED polls
     \/ /\ seen[r] \notin jobs
        /\ polls[r] < MaxPolls
        /\ polls' = [polls EXCEPT ![r] = @ + 1]
        /\ GoTo(r, "reserve")
        /\ UNCHANGED outcome
     \/ /\ seen[r] \notin jobs
        /\ Finish(r, "cleanup", "conflict")
        /\ UNCHANGED polls
  /\ UNCHANGED <<seen, tables, file>>

(* Mutant: the catch releases without testing hasReservation.              *)
WaitFails_Releases(r) ==
  /\ pc[r] \in Waiting
  /\ Finish(r, "release", "error")
  /\ UNCHANGED <<locals, tables, file>>

(* A statement of the waiting loop fails.  The handler's reservation is    *)
(* still undefined, so its catch releases nothing.                         *)
WaitFails(r) ==
  /\ pc[r] \in Waiting
  /\ Finish(r, "cleanup", "error")
  /\ UNCHANGED <<locals, tables, file>>

-----------------------------------------------------------------------------
(* downloadImportFile: the response arrives and the body is written.       *)
OpenDownload(r) ==
  /\ pc[r] = "fetch"
  /\ GoTo(r, "download")
  /\ file' = [file EXCEPT ![r] = "partial"]
  /\ UNCHANGED <<outcome, locals, tables>>

Download(r) ==
  /\ pc[r] = "download"
  /\ GoTo(r, "createJob")
  /\ file' = [file EXCEPT ![r] = "complete"]
  /\ UNCHANGED <<outcome, locals, tables>>

(* Bad URL, timeout, bad status, too large, or a broken body.              *)
DownloadFails(r) ==
  /\ pc[r] \in {"fetch", "download"}
  /\ Finish(r, "release", "error")
  /\ RemoveFile(r)
  /\ UNCHANGED <<locals, tables>>

-----------------------------------------------------------------------------
(* enqueueNewImportJob *)
CreateJob(r) ==
  /\ pc[r] = "createJob"
  /\ jobs' = jobs \cup {r}
  /\ GoTo(r, "enqueue")
  /\ UNCHANGED <<outcome, locals, reservation, queue, file>>

(* Mutant: a failure after the reservation does not release it.            *)
CreateJobFails_KeepsKey(r) ==
  /\ pc[r] = "createJob"
  /\ Finish(r, "cleanup", "error")
  /\ UNCHANGED <<locals, tables, file>>

CreateJobFails(r) ==
  /\ pc[r] = "createJob"
  /\ Finish(r, "release", "error")
  /\ UNCHANGED <<locals, tables, file>>

(* The row is there and the handler treats it as not created: it releases  *)
(* the key, and its finally block removes the input of the job.            *)
CreateJobAckLost(r) ==
  /\ "createAck" \in Faults
  /\ pc[r] = "createJob"
  /\ jobs' = jobs \cup {r}
  /\ Finish(r, "release", "error")
  /\ UNCHANGED <<locals, reservation, queue, file>>

(* Mutant: shouldCleanup is not reset, so the finally removes the input.   *)
Enqueue_StillCleans(r) ==
  /\ pc[r] = "enqueue"
  /\ \/ queue' = queue \cup {r}
     \/ UNCHANGED queue
  /\ Finish(r, "cleanup", "accepted")
  /\ UNCHANGED <<locals, reservation, jobs, file>>

(* A failed enqueue is logged and swallowed: the client gets its 202 and   *)
(* job recovery enqueues the row later.                                    *)
Enqueue(r) ==
  /\ pc[r] = "enqueue"
  /\ \/ queue' = queue \cup {r}
     \/ UNCHANGED queue
  /\ Finish(r, "done", "accepted")
  /\ UNCHANGED <<locals, reservation, jobs, file>>

-----------------------------------------------------------------------------
(* releaseReservationIfNeeded deletes by (key, created_by), not by job id. *)
Release(r) ==
  /\ pc[r] = "release"
  /\ \/ /\ SlotOf[r] # NoSlot
        /\ reservation' = [reservation EXCEPT ![SlotOf[r]] = None]
     \/ /\ SlotOf[r] = NoSlot
        /\ UNCHANGED reservation
  /\ GoTo(r, "cleanup")
  /\ UNCHANGED <<outcome, locals, jobs, queue, file>>

ReleaseFails(r) ==
  /\ "release" \in Faults
  /\ pc[r] = "release"
  /\ SlotOf[r] # NoSlot
  /\ GoTo(r, "cleanup")
  /\ UNCHANGED <<outcome, locals, tables, file>>

(* The finally block: a stored file that no job took over is removed.      *)
Cleanup(r) ==
  /\ pc[r] = "cleanup"
  /\ \/ file[r] = "complete" /\ RemoveFile(r)
     \/ file[r] # "complete" /\ UNCHANGED file
  /\ GoTo(r, "done")
  /\ UNCHANGED <<outcome, locals, tables>>

(* The API process dies with every request it is serving.                  *)
Crash(p) ==
  /\ "crash" \in Faults
  /\ LET lost == {r \in Requests : /\ ServerOf[r] = p
                                   /\ pc[r] \notin {"idle", "done", "crashed"}}
     IN /\ lost # {}
        /\ pc' = [r \in Requests |-> IF r \in lost THEN "crashed" ELSE pc[r]]
  /\ UNCHANGED <<outcome, locals, tables, file>>

-----------------------------------------------------------------------------
Step(r) ==
  \/ StoreUpload(r) \/ StoreUploadFails(r)
  \/ Reserve(r) \/ ReserveAckLost(r) \/ ReadReservation(r) \/ FindJob(r)
  \/ WaitFails(r)
  \/ OpenDownload(r) \/ Download(r) \/ DownloadFails(r)
  \/ CreateJob(r) \/ CreateJobFails(r) \/ CreateJobAckLost(r) \/ Enqueue(r)
  \/ Release(r) \/ ReleaseFails(r) \/ Cleanup(r)

Next ==
  \/ \E r \in Requests : Arrive(r) \/ Step(r)
  \/ \E p \in Servers : Crash(p)

Spec == Init /\ [][Next]_vars

(* Where a handler waits for somebody else's bytes, with no timer: the     *)
(* client in the middle of its upload, and the remote server in the middle *)
(* of its body, since the timer that would abort the fetch is cleared when *)
(* the response begins.                                                    *)
AwaitsBody == {"store", "download"}

(* A handler that has started runs on: statements, file operations and     *)
(* timers end, with success or failure.  Arrivals, crashes and those who   *)
(* send a body are free.                                                   *)
FairSpec ==
  Spec /\ \A r \in Requests : WF_vars(pc[r] \notin AwaitsBody /\ Step(r))

-----------------------------------------------------------------------------
(* Properties                                                              *)

(* An Idempotency-Key pays for one job: of all the requests that carried   *)
(* it, at most one created a row of bulk_jobs, however they interleave     *)
(* with failures, releases and retries (reserveImportSubmission).          *)
AtMostOneJobPerKey ==
  \A q, r \in jobs : SlotOf[q] = SlotOf[r] /\ SlotOf[q] # NoSlot => q = r

(* A client that is told its request was replayed is handed a job that     *)
(* exists, was submitted under its own key, and has the same content.      *)
ReplayMatches ==
  \A r \in Requests : outcome[r] = "replayed" =>
    /\ seen[r] \in jobs
    /\ SlotOf[seen[r]] = SlotOf[r]
    /\ Fingerprint[seen[r]] = Fingerprint[r]

(* A job row always finds its input whole: the row is only written after   *)
(* the file is, and no clean-up removes a file that a job has taken over,  *)
(* unless the row commits while its INSERT is reported as failed.          *)
JobHasInput == \A r \in jobs : file[r] = "complete"

(* A key that is taken but has no job is still being worked on, or its     *)
(* worker was killed: no code path walks away from a key it reserved.      *)
KeyOwned ==
  \A s \in Slots : LET r == reservation[s] IN
    r # None /\ r \notin jobs => pc[r] \in Owning \cup {"crashed"}

(* An answered request that created no job leaves no file behind.          *)
NoLeakedFile ==
  \A r \in Requests : pc[r] = "done" /\ r \notin jobs => file[r] = "none"

(* Every request that arrives is answered, even when it lost its key to a  *)
(* request that never creates the job, or whose body never ends; the only  *)
(* ones that may hang are those that wait for the end of a body themselves.*)
EveryRequestAnswered ==
  \A r \in Requests :
    pc[r] # "idle" ~> pc[r] = "done" \/ \E l \in AwaitsBody : [](pc[r] = l)

(* "Idempotency-Key is currently in use. Retry the same request shortly."  *)
(* promises that a key in use gets its job or becomes free again.          *)
KeyInUseResolves ==
  \A s \in Slots, r \in Requests :
    reservation[s] = r ~> r \in jobs \/ reservation[s] # r

(* The handlers implement the write-once key of SubmitOnce: jobs are the   *)
(* jobs it creates, and a request has its answer when its handler is done. *)
Once == INSTANCE SubmitOnce WITH
  created <- jobs,
  answer <- [r \in Requests |-> IF pc[r] = "done" THEN outcome[r] ELSE "none"]

ImplementsSubmitOnce == Once!Spec

-----------------------------------------------------------------------------
(* The inductive invariant behind the safety properties, where no job row  *)
(* commits behind an error.                                                *)

BeforeJob == {"idle", "store", "reserve", "readReservation", "findJob",
              "fetch", "download", "createJob", "release"}

Reserved ==
  \A s \in Slots : reservation[s] # None => SlotOf[reservation[s]] = s

OwnersHoldKey ==
  \A r \in Requests : pc[r] \in Owning /\ SlotOf[r] # NoSlot =>
    reservation[SlotOf[r]] = r

JobsHoldKey ==
  \A r \in jobs : SlotOf[r] # NoSlot => reservation[SlotOf[r]] = r

JobsPastCreate ==
  \A r \in jobs :
    \/ pc[r] \in {"enqueue", "crashed"}
    \/ pc[r] = "done" /\ outcome[r] = "accepted"

OutcomeFits ==
  \A r \in Requests :
    /\ pc[r] \in Pcs \ {"release", "cleanup", "done", "crashed"} => outcome[r] = "none"
    /\ pc[r] = "enqueue" => r \in jobs
    /\ pc[r] = "release" => outcome[r] = "error"
    /\ pc[r] = "cleanup" => outcome[r] \in {"replayed", "conflict", "error"}
    /\ pc[r] = "done" => outcome[r] # "none"
    /\ outcome[r] = "accepted" => r \in jobs

(* Only a request with a key reads a reservation: typing rests on this.    *)
KeyedRead == \A r \in Requests : pc[r] = "readReservation" => SlotOf[r] # NoSlot

SeenMatches ==
  \A r \in Requests :
    /\ pc[r] = "findJob" => seen[r] # None
    /\ seen[r] # None => /\ SlotOf[r] # NoSlot
                         /\ SlotOf[seen[r]] = SlotOf[r]
                         /\ Fingerprint[seen[r]] = Fingerprint[r]

InputReady ==
  \A r \in Requests :
    /\ pc[r] = "createJob" => file[r] = "complete"
    /\ Via[r] = "upload" /\ pc[r] \in Waiting => file[r] = "complete"
    /\ r \in jobs => file[r] = "complete"

IInv ==
  /\ TypeOK
  /\ KeyedRead
  /\ Reserved
  /\ OwnersHoldKey
  /\ JobsHoldKey
  /\ JobsPastCreate
  /\ OutcomeFits
  /\ SeenMatches
  /\ ReplayMatches
  /\ InputReady
=============================================================================
