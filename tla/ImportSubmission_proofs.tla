----------------------- MODULE ImportSubmission_proofs -----------------------
(***************************************************************************)
(* Proofs about ImportSubmission for every set of requests, keys, hashes   *)
(* and servers, every deadline, and every fault a theorem does not exclude.*)
(***************************************************************************)
EXTENDS ImportSubmission, TLAPS

(* The handlers keep every variable in its type.                           *)
THEOREM Typing == Spec => []TypeOK
<1> DEFINE Inv == TypeOK /\ KeyedRead
<1>1. Init => Inv
  BY SubmissionAssumption DEF Init, TypeOK, KeyedRead, Pcs, Outcomes
<1>2. Inv /\ [Next]_vars => Inv'
  <2> SUFFICES ASSUME Inv, [Next]_vars PROVE Inv'
    OBVIOUS
  <2> USE SubmissionAssumption DEF TypeOK, KeyedRead, Pcs, Outcomes, Waiting, Owning,
          GoTo, Finish, RemoveFile, tables, locals
  <2>1. ASSUME NEW r \in Requests, Arrive(r) PROVE Inv'
    BY <2>1 DEF Arrive
  <2>2. ASSUME NEW r \in Requests, Step(r) PROVE Inv'
    <3>1. CASE StoreUpload(r) \/ StoreUploadFails(r)
      BY <3>1 DEF StoreUpload, StoreUploadFails
    <3>2. CASE Reserve(r) \/ ReserveAckLost(r)
      BY <3>2 DEF Reserve, ReserveAckLost, AfterReserve
    <3>3. CASE ReadReservation(r)
      BY <3>3 DEF ReadReservation
    <3>4. CASE FindJob(r) \/ WaitFails(r)
      BY <3>4 DEF FindJob, WaitFails
    <3>5. CASE OpenDownload(r) \/ Download(r) \/ DownloadFails(r)
      BY <3>5 DEF OpenDownload, Download, DownloadFails
    <3>6. CASE CreateJob(r) \/ CreateJobFails(r) \/ CreateJobAckLost(r)
      BY <3>6 DEF CreateJob, CreateJobFails, CreateJobAckLost
    <3>7. CASE Enqueue(r)
      BY <3>7 DEF Enqueue
    <3>8. CASE Release(r) \/ ReleaseFails(r)
      BY <3>8 DEF Release, ReleaseFails
    <3>9. CASE Cleanup(r)
      BY <3>9 DEF Cleanup
    <3> QED
      BY <2>2, <3>1, <3>2, <3>3, <3>4, <3>5, <3>6, <3>7, <3>8, <3>9 DEF Step
  <2>3. ASSUME NEW p \in Servers, Crash(p) PROVE Inv'
    BY <2>3 DEF Crash
  <2>4. CASE UNCHANGED vars
    BY <2>4 DEF vars
  <2> QED
    BY <2>1, <2>2, <2>3, <2>4 DEF Next
<1> QED
  BY <1>1, <1>2, PTL DEF Spec

-----------------------------------------------------------------------------
(* The inductive invariant.  A failed INSERT of the job row that did       *)
(* commit would put a job behind a request that goes on to release its key *)
(* and to remove its input, and the next request with the key would create *)
(* a second one: "createAck" is excluded.  A reservation that commits      *)
(* behind an error only keeps its key.                                     *)
ReliableCreate == "createAck" \notin Faults

LEMMA InitIInv == Init => IInv
  BY SubmissionAssumption DEF Init, IInv, TypeOK, KeyedRead, Reserved, OwnersHoldKey,
     JobsHoldKey, JobsPastCreate, OutcomeFits, SeenMatches, ReplayMatches, InputReady,
     Pcs, Outcomes, Owning, Waiting

(* Storing, waiting, downloading: no table changes.                        *)
LEMMA LocalSteps ==
  ASSUME IInv, NEW r \in Requests,
         \/ Arrive(r) \/ StoreUpload(r) \/ StoreUploadFails(r)
         \/ FindJob(r) \/ WaitFails(r) \/ ReadReservation(r)
         \/ OpenDownload(r) \/ Download(r) \/ DownloadFails(r)
         \/ Enqueue(r) \/ ReleaseFails(r) \/ CreateJobFails(r)
         \/ Cleanup(r)
  PROVE  IInv'
<1> USE SubmissionAssumption DEF IInv, TypeOK, KeyedRead, Reserved, OwnersHoldKey,
        JobsHoldKey, JobsPastCreate, OutcomeFits, SeenMatches, ReplayMatches, InputReady,
        Pcs, Outcomes, Owning, Waiting, GoTo, Finish, RemoveFile, tables, locals
<1>1. CASE Arrive(r) \/ StoreUpload(r) \/ StoreUploadFails(r)
  BY <1>1 DEF Arrive, StoreUpload, StoreUploadFails
<1>2. CASE FindJob(r)
  BY <1>2 DEF FindJob
<1>3. CASE WaitFails(r)
  BY <1>3 DEF WaitFails
<1>4. CASE ReadReservation(r)
  BY <1>4 DEF ReadReservation
<1>5. CASE OpenDownload(r) \/ Download(r) \/ DownloadFails(r)
  BY <1>5 DEF OpenDownload, Download, DownloadFails
<1>6. CASE Enqueue(r)
  BY <1>6 DEF Enqueue
<1>7. CASE ReleaseFails(r) \/ CreateJobFails(r)
  BY <1>7 DEF ReleaseFails, CreateJobFails
<1>8. CASE Cleanup(r)
  BY <1>8 DEF Cleanup
<1> QED
  BY <1>1, <1>2, <1>3, <1>4, <1>5, <1>6, <1>7, <1>8

(* The INSERT into import_idempotency: whoever takes a free key is the     *)
(* only one that any conjunct says anything new about.                     *)
LEMMA ReserveStep ==
  ASSUME IInv, NEW r \in Requests, Reserve(r) \/ ReserveAckLost(r)
  PROVE  IInv'
<1> USE SubmissionAssumption DEF IInv, TypeOK, Reserve, ReserveAckLost, AfterReserve,
        GoTo, Finish, tables, locals
<1>1. TypeOK' /\ KeyedRead'
  <2>1. CASE Reserve(r)
    BY <2>1 DEF KeyedRead, Pcs, Waiting, Owning
  <2>2. CASE ReserveAckLost(r)
    BY <2>2 DEF KeyedRead, Pcs, Outcomes, Waiting, Owning
  <2> QED
    BY <2>1, <2>2
<1>2. Reserved' /\ OwnersHoldKey'
  BY DEF Reserved, OwnersHoldKey, Owning
<1>3. JobsHoldKey' /\ JobsPastCreate'
  BY DEF JobsHoldKey, JobsPastCreate
<1>4. OutcomeFits'
  BY DEF OutcomeFits, Pcs, Waiting, Owning
<1>5. SeenMatches' /\ ReplayMatches'
  BY DEF SeenMatches, ReplayMatches
<1>6. InputReady'
  BY DEF InputReady, Waiting
<1> QED
  BY <1>1, <1>2, <1>3, <1>4, <1>5, <1>6

(* The row of bulk_jobs is written by the holder of the key, with its file *)
(* in place.                                                               *)
LEMMA CreateJobStep ==
  ASSUME IInv, NEW r \in Requests, CreateJob(r)
  PROVE  IInv'
<1> USE SubmissionAssumption DEF IInv, TypeOK, CreateJob, GoTo, locals
<1>1. TypeOK' /\ KeyedRead' /\ Reserved'
  BY DEF KeyedRead, Reserved, Pcs, Waiting, Owning
<1>2. OwnersHoldKey' /\ JobsHoldKey'
  BY DEF OwnersHoldKey, JobsHoldKey, Owning
<1>3. JobsPastCreate' /\ OutcomeFits'
  BY DEF JobsPastCreate, OutcomeFits, Pcs, Waiting, Owning
<1>4. SeenMatches' /\ ReplayMatches' /\ InputReady'
  BY DEF SeenMatches, ReplayMatches, InputReady, Waiting
<1> QED
  BY <1>1, <1>2, <1>3, <1>4

(* deleteMany names the key, not the job: it is only safe because a        *)
(* request that releases still holds the key and never created its job.    *)
LEMMA ReleaseStep ==
  ASSUME IInv, NEW r \in Requests, Release(r)
  PROVE  IInv'
<1> USE SubmissionAssumption DEF IInv, TypeOK, Release, GoTo, locals
<1>1. r \notin jobs
  BY DEF JobsPastCreate
<1>2. ASSUME NEW q \in Requests, q # r, SlotOf[q] = SlotOf[r], SlotOf[r] # NoSlot
      PROVE  q \notin jobs /\ pc[q] \notin Owning
  BY <1>2 DEF JobsHoldKey, OwnersHoldKey, Owning
<1>3. TypeOK' /\ KeyedRead' /\ Reserved'
  BY DEF KeyedRead, Reserved, Pcs, Waiting, Owning
<1>4. OwnersHoldKey' /\ JobsHoldKey'
  BY <1>1, <1>2 DEF OwnersHoldKey, JobsHoldKey, Owning
<1>5. JobsPastCreate' /\ OutcomeFits'
  BY <1>1 DEF JobsPastCreate, OutcomeFits, Pcs, Waiting, Owning
<1>6. SeenMatches' /\ ReplayMatches' /\ InputReady'
  BY DEF SeenMatches, ReplayMatches, InputReady, Waiting
<1> QED
  BY <1>3, <1>4, <1>5, <1>6

LEMMA CrashStep ==
  ASSUME IInv, NEW p \in Servers, Crash(p)
  PROVE  IInv'
<1> DEFINE Lost == {r \in Requests : /\ ServerOf[r] = p
                                     /\ pc[r] \notin {"idle", "done", "crashed"}}
<1>1. /\ pc' = [r \in Requests |-> IF r \in Lost THEN "crashed" ELSE pc[r]]
      /\ UNCHANGED <<outcome, locals, tables, file>>
  BY DEF Crash
<1> HIDE DEF Lost
<1>2. \A r \in Requests : pc'[r] = "crashed" \/ pc'[r] = pc[r]
  BY <1>1
<1>3. pc' \in [Requests -> Pcs]
  BY <1>1 DEF IInv, TypeOK, Pcs
<1>4. \A r \in jobs : r \in Lost => pc[r] = "enqueue"
  BY DEF Lost, IInv, JobsPastCreate, TypeOK
<1> QED
  BY <1>1, <1>2, <1>3, <1>4 DEF IInv, TypeOK, KeyedRead, Reserved, OwnersHoldKey, JobsHoldKey,
     JobsPastCreate, OutcomeFits, SeenMatches, ReplayMatches, InputReady,
     Pcs, Owning, Waiting, tables, locals

LEMMA NextIInv == ReliableCreate /\ IInv /\ [Next]_vars => IInv'
<1> SUFFICES ASSUME ReliableCreate, IInv, [Next]_vars PROVE IInv'
  OBVIOUS
<1>1. ASSUME NEW r \in Requests, Arrive(r) \/ Step(r) PROVE IInv'
  BY <1>1, LocalSteps, ReserveStep, CreateJobStep, ReleaseStep
     DEF Step, ReliableCreate, CreateJobAckLost
<1>2. ASSUME NEW p \in Servers, Crash(p) PROVE IInv'
  BY <1>2, CrashStep
<1>3. CASE UNCHANGED vars
  BY <1>3 DEF vars, IInv, TypeOK, KeyedRead, Reserved, OwnersHoldKey, JobsHoldKey,
     JobsPastCreate, OutcomeFits, SeenMatches, ReplayMatches, InputReady
<1> QED
  BY <1>1, <1>2, <1>3 DEF Next

LEMMA Inductive == ASSUME ReliableCreate PROVE Spec => []IInv
  BY InitIInv, NextIInv, PTL DEF Spec

-----------------------------------------------------------------------------
(* An Idempotency-Key pays for one import job at most, whatever the number *)
(* of requests that carry it and wherever API processes crash.             *)
THEOREM OneJobPerKey == ASSUME ReliableCreate PROVE Spec => []AtMostOneJobPerKey
<1>1. IInv => AtMostOneJobPerKey
  BY DEF IInv, TypeOK, JobsHoldKey, AtMostOneJobPerKey
<1> QED
  BY <1>1, Inductive, PTL

(* A replayed answer names an existing job of the same key and content.    *)
THEOREM ReplayIsExact == ASSUME ReliableCreate PROVE Spec => []ReplayMatches
<1>1. IInv => ReplayMatches
  BY DEF IInv
<1> QED
  BY <1>1, Inductive, PTL

(* Every job row has its input file, whatever else fails, where no row     *)
(* commits behind an error: the finally block takes a failed INSERT at its *)
(* word and removes the file.                                              *)
THEOREM InputKept == ASSUME ReliableCreate PROVE Spec => []JobHasInput
<1>1. IInv => JobHasInput
  BY DEF IInv, TypeOK, InputReady, JobHasInput
<1> QED
  BY <1>1, Inductive, PTL

-----------------------------------------------------------------------------
(* A key without a job belongs to a handler that is still working on it or *)
(* was killed: no failure path walks away from a key it knows it reserved, *)
(* unless the statement that would release it fails too.                   *)
THEOREM NoKeyAbandoned ==
  ASSUME ReliableCreate, "reserveAck" \notin Faults, "release" \notin Faults
  PROVE  Spec => []KeyOwned
<1>1. Init => KeyOwned
  BY DEF Init, KeyOwned
<1>2. IInv /\ KeyOwned /\ [Next]_vars => KeyOwned'
  <2> SUFFICES ASSUME IInv, KeyOwned, [Next]_vars PROVE KeyOwned'
    OBVIOUS
  <2> USE SubmissionAssumption
      DEF IInv, TypeOK, KeyOwned, Owning, GoTo, Finish, tables, locals
  <2>1. ASSUME NEW r \in Requests,
               \/ Arrive(r) \/ StoreUpload(r) \/ StoreUploadFails(r)
               \/ ReadReservation(r) \/ FindJob(r) \/ WaitFails(r) \/ Cleanup(r)
        PROVE  KeyOwned'
    <3>1. reservation' = reservation /\ jobs' = jobs
      BY <2>1 DEF Arrive, StoreUpload, StoreUploadFails, ReadReservation, FindJob,
         WaitFails, Cleanup
    <3>2. pc[r] \notin Owning \cup {"crashed"} /\ \A q \in Requests \ {r} : pc'[q] = pc[q]
      BY <2>1 DEF Arrive, StoreUpload, StoreUploadFails, ReadReservation, FindJob,
         WaitFails, Cleanup, Waiting
    <3> QED
      BY <3>1, <3>2
  <2>2. ASSUME NEW r \in Requests, Reserve(r) PROVE KeyOwned'
    BY <2>2 DEF Reserve, AfterReserve, Reserved
  <2>3. ASSUME NEW r \in Requests,
               OpenDownload(r) \/ Download(r) \/ DownloadFails(r) \/ CreateJobFails(r)
        PROVE  KeyOwned'
    BY <2>3 DEF OpenDownload, Download, DownloadFails, CreateJobFails
  <2>4. ASSUME NEW r \in Requests, CreateJob(r) \/ Enqueue(r) PROVE KeyOwned'
    BY <2>4 DEF CreateJob, Enqueue, OutcomeFits
  <2>5. ASSUME NEW r \in Requests, Release(r) PROVE KeyOwned'
    BY <2>5 DEF Release, Reserved
  <2>6. ASSUME NEW p \in Servers, Crash(p) PROVE KeyOwned'
    BY <2>6 DEF Crash
  <2>7. CASE UNCHANGED vars
    BY <2>7 DEF vars
  <2> QED
    BY <2>1, <2>2, <2>3, <2>4, <2>5, <2>6, <2>7
       DEF Next, Step, ReliableCreate, ReserveAckLost, CreateJobAckLost, ReleaseFails
<1> QED
  BY <1>1, <1>2, Inductive, PTL DEF Spec

(* What the clean-up rests on: only a handler in the middle of a write, or *)
(* a dead one, has a partial file, so testing for a stored file is enough. *)
PartialInWrite ==
  \A r \in Requests : file[r] = "partial" => pc[r] \in {"store", "download", "crashed"}

JobAtEnqueue == \A r \in Requests : pc[r] = "enqueue" => r \in jobs

(* An answered request that created no job has left no file, whichever     *)
(* statements failed and whether or not they committed, as long as         *)
(* removing a file does not fail itself.                                   *)
THEOREM FilesCleaned == ASSUME "rm" \notin Faults PROVE Spec => []NoLeakedFile
<1> DEFINE Inv == TypeOK /\ PartialInWrite /\ JobAtEnqueue /\ NoLeakedFile
<1>1. Init => Inv
  <2> SUFFICES ASSUME Init PROVE Inv
    OBVIOUS
  <2>1. TypeOK
    BY SubmissionAssumption DEF Init, TypeOK, Pcs, Outcomes
  <2> QED
    BY <2>1 DEF Init, PartialInWrite, JobAtEnqueue, NoLeakedFile
<1>2. TypeOK' /\ Inv /\ [Next]_vars => Inv'
  <2> SUFFICES ASSUME TypeOK', Inv, [Next]_vars
               PROVE  PartialInWrite' /\ JobAtEnqueue' /\ NoLeakedFile'
    OBVIOUS
  <2> USE SubmissionAssumption
      DEF TypeOK, PartialInWrite, JobAtEnqueue, NoLeakedFile, GoTo, Finish, RemoveFile,
          tables, locals
  <2>1. ASSUME NEW r \in Requests, Arrive(r) \/ StoreUpload(r) \/ StoreUploadFails(r)
        PROVE  PartialInWrite' /\ JobAtEnqueue' /\ NoLeakedFile'
    BY <2>1 DEF Arrive, StoreUpload, StoreUploadFails
  <2>2. ASSUME NEW r \in Requests,
               \/ Reserve(r) \/ ReserveAckLost(r) \/ ReadReservation(r) \/ FindJob(r)
               \/ WaitFails(r) \/ CreateJobFails(r) \/ Release(r) \/ ReleaseFails(r)
        PROVE  PartialInWrite' /\ JobAtEnqueue' /\ NoLeakedFile'
    <3>1. file' = file /\ jobs' = jobs
      BY <2>2 DEF Reserve, ReserveAckLost, ReadReservation, FindJob, WaitFails,
         CreateJobFails, Release, ReleaseFails
    <3>2. /\ pc[r] \notin {"store", "download", "crashed"}
          /\ pc'[r] \notin {"enqueue", "done"}
          /\ \A q \in Requests \ {r} : pc'[q] = pc[q]
      BY <2>2 DEF Reserve, AfterReserve, ReserveAckLost, ReadReservation, FindJob, WaitFails,
         CreateJobFails, Release, ReleaseFails, Waiting
    <3> QED
      BY <3>1, <3>2
  <2>3. ASSUME NEW r \in Requests, OpenDownload(r) \/ Download(r) \/ DownloadFails(r)
        PROVE  PartialInWrite' /\ JobAtEnqueue' /\ NoLeakedFile'
    BY <2>3 DEF OpenDownload, Download, DownloadFails
  <2>4. ASSUME NEW r \in Requests, CreateJob(r) \/ CreateJobAckLost(r) \/ Enqueue(r)
        PROVE  PartialInWrite' /\ JobAtEnqueue' /\ NoLeakedFile'
    BY <2>4 DEF CreateJob, CreateJobAckLost, Enqueue
  <2>5. ASSUME NEW r \in Requests, Cleanup(r)
        PROVE  PartialInWrite' /\ JobAtEnqueue' /\ NoLeakedFile'
    BY <2>5 DEF Cleanup
  <2>6. ASSUME NEW p \in Servers, Crash(p)
        PROVE  PartialInWrite' /\ JobAtEnqueue' /\ NoLeakedFile'
    BY <2>6 DEF Crash
  <2>7. CASE UNCHANGED vars
    BY <2>7 DEF vars
  <2> QED
    BY <2>1, <2>2, <2>3, <2>4, <2>5, <2>6, <2>7 DEF Next, Step
<1> QED
  BY <1>1, <1>2, Typing, PTL DEF Spec

-----------------------------------------------------------------------------
(* The refinement: creating a row is Create, finishing a handler is Answer *)
(* and everything else is a stutter.                                       *)
Told == [r \in Requests |-> IF pc[r] = "done" THEN outcome[r] ELSE "none"]

LEMMA AnswerStep ==
  ASSUME IInv, NEW r \in Requests, pc[r] # "done",
         pc' = [pc EXCEPT ![r] = "done"],
         outcome' = outcome \/ outcome' = [outcome EXCEPT ![r] = outcome'[r]],
         Once!Truthful(r, outcome'[r]), jobs' = jobs
  PROVE  Once!Answer(r)
<1>1. Told[r] = "none"
  BY DEF Told
<1>2. Told' = [Told EXCEPT ![r] = outcome'[r]]
  BY DEF Told, IInv, TypeOK
<1>3. outcome'[r] \in {"accepted", "replayed", "conflict", "error"}
  BY DEF Once!Truthful
<1> QED
  BY <1>1, <1>2, <1>3 DEF Once!Answer, Told

LEMMA StutterStep ==
  ASSUME IInv, jobs' = jobs,
         \A r \in Requests :
           \/ pc'[r] = pc[r] /\ outcome'[r] = outcome[r]
           \/ pc[r] # "done" /\ pc'[r] # "done"
  PROVE  UNCHANGED <<jobs, Told>>
  BY DEF Told

LEMMA RefineStep ==
  ASSUME ReliableCreate, IInv, NEW r \in Requests, Arrive(r) \/ Step(r)
  PROVE  Once!Next \/ UNCHANGED <<jobs, Told>>
<1> USE DEF GoTo, Finish, RemoveFile, tables, locals
<1> DEFINE Silent == /\ jobs' = jobs
                     /\ pc[r] # "done" /\ pc'[r] # "done"
                     /\ \A q \in Requests \ {r} : pc'[q] = pc[q] /\ outcome'[q] = outcome[q]
<1>1. CASE \/ Arrive(r) \/ StoreUpload(r)
           \/ Reserve(r) \/ ReserveAckLost(r)
           \/ ReadReservation(r) \/ FindJob(r) \/ WaitFails(r)
           \/ OpenDownload(r) \/ Download(r) \/ DownloadFails(r)
           \/ CreateJobFails(r) \/ Release(r) \/ ReleaseFails(r)
  <2>1. Silent
    BY <1>1, SubmissionAssumption
       DEF IInv, TypeOK, Waiting, Arrive, StoreUpload, Reserve, ReserveAckLost, AfterReserve,
       ReadReservation, FindJob, WaitFails, OpenDownload, Download, DownloadFails,
       CreateJobFails, Release, ReleaseFails
  <2> QED
    BY <2>1, StutterStep
<1>2. CASE CreateJob(r)
  <2>1. /\ Told[r] = "none" /\ UNCHANGED Told
        /\ r \notin jobs
        /\ \A q \in jobs : ~Once!SameSlot(q, r)
    BY <1>2 DEF CreateJob, Told, Once!SameSlot, IInv, TypeOK, JobsPastCreate, JobsHoldKey,
       OwnersHoldKey, Owning
  <2> QED
    BY <1>2, <2>1 DEF CreateJob, Once!Next, Once!Create, Told
<1>3. CASE StoreUploadFails(r) \/ Enqueue(r)
  <2>1. Once!Truthful(r, outcome'[r])
    BY <1>3 DEF StoreUploadFails, Enqueue, Once!Truthful, IInv, TypeOK, OutcomeFits, JobsPastCreate
  <2>2. /\ pc[r] # "done" /\ pc' = [pc EXCEPT ![r] = "done"] /\ jobs' = jobs
        /\ outcome' = [outcome EXCEPT ![r] = outcome'[r]]
    BY <1>3 DEF StoreUploadFails, Enqueue, IInv, TypeOK
  <2> QED
    BY <2>1, <2>2, AnswerStep DEF Once!Next
<1>4. CASE Cleanup(r)
  <2>1. /\ pc[r] = "cleanup" /\ pc' = [pc EXCEPT ![r] = "done"]
        /\ jobs' = jobs /\ outcome' = outcome
    BY <1>4 DEF Cleanup
  <2>2. Once!Truthful(r, outcome'[r])
    BY <2>1, SubmissionAssumption
       DEF Once!Truthful, Once!SameSlot, IInv, TypeOK, OutcomeFits,
       JobsPastCreate, ReplayMatches, SeenMatches
  <2> QED
    BY <2>1, <2>2, AnswerStep DEF Once!Next
<1> QED
  BY <1>1, <1>2, <1>3, <1>4 DEF Step, ReliableCreate, CreateJobAckLost

(* The submission handlers implement the write-once key.                   *)
THEOREM Refinement == ASSUME ReliableCreate PROVE Spec => ImplementsSubmitOnce
<1>1. Init => Once!Init
  BY DEF Init, Once!Init
<1>2. IInv /\ [Next]_vars => [Once!Next]_<<jobs, Told>>
  <2> SUFFICES ASSUME IInv, [Next]_vars PROVE Once!Next \/ UNCHANGED <<jobs, Told>>
    OBVIOUS
  <2>1. ASSUME NEW p \in Servers, Crash(p) PROVE UNCHANGED <<jobs, Told>>
    <3>1. /\ jobs' = jobs /\ outcome' = outcome
          /\ \A r \in Requests :
               pc'[r] = pc[r] \/ (pc[r] # "done" /\ pc'[r] # "done")
      BY <2>1 DEF Crash, tables, locals
    <3> QED
      BY <3>1, StutterStep
  <2>2. CASE UNCHANGED vars
    BY <2>2 DEF vars, Told
  <2> QED
    BY <2>1, <2>2, RefineStep DEF Next
<1> QED
  BY <1>1, <1>2, Inductive, PTL DEF Spec, ImplementsSubmitOnce, Once!Spec, Told
=============================================================================
