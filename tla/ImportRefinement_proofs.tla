---------------------- MODULE ImportRefinement_proofs ----------------------
(***************************************************************************)
(* Imports implement what the queue and their clients know of them: the    *)
(* runs of JobRuns, and the single writes of WholeImport.                  *)
(***************************************************************************)
EXTENDS ImportApart_proofs

-----------------------------------------------------------------------------
(* The queue's view.                                                       *)
IsRun(j) == pc[j] \in Running
IsDone(j) == pc[j] = "completed"

QueueView ==
  <<[j \in Jobs |-> IF IsRun(j) THEN {j} ELSE {}], attempts, crashes,
    {j \in Jobs : IsDone(j)}>>

(* Steps within a run are not seen.                                        *)
LEMMA WithinRun ==
  ASSUME TypeOK, NEW j \in Jobs, OwnStep(j), ~Crash(j), ~Start(j), ~Ack(j), ~Catch(j)
  PROVE  UNCHANGED QueueView
<1>1. UNCHANGED <<attempts, crashes>>
  BY DEF OwnStep, Step, StatementFails, ClearFails, StrayDelete, run, ClearPrevious, ReadBad,
     ReadGood, ReadEnd, Progress, Lookup, WriteItem, RejectItem, CopyBatch, RejectSlugs,
     Merge, MergeRefused, Save, Tidy, Complete, EndRun
<1>2. /\ pc' = pc \/ (IsRun(j) /\ IsRun(j)')
      /\ \A k \in Jobs \ {j} : pc'[k] = pc[k]
  BY DEF TypeOK, IsRun, Running, OwnStep, Step, StatementFails, ClearFails, StrayDelete, GoTo,
     Staged, ClearPrevious, ReadBad, ReadGood, ReadEnd, Progress, Lookup, WriteItem,
     RejectItem, CopyBatch, RejectSlugs, Merge, MergeRefused, Save, Tidy, Complete, EndRun
<1>3. \A k \in Jobs : (IsRun(k)' <=> IsRun(k)) /\ (IsDone(k)' <=> IsDone(k))
  BY <1>2 DEF IsRun, IsDone, Running
<1> HIDE DEF IsRun, IsDone
<1> QED
  BY <1>1, <1>3 DEF QueueView

LEMMA DeadlockWithinRuns ==
  ASSUME TypeOK, NEW stuck \in SUBSET Jobs, NEW b \in stuck,
         NEW lost \in SUBSET (stuck \ {b}), MergeDeadlocks(stuck, lost, b)
  PROVE  UNCHANGED QueueView
<1>1. \A k \in Jobs : (IsRun(k)' <=> IsRun(k)) /\ (IsDone(k)' <=> IsDone(k))
  <2>1. \A k \in Jobs : pc'[k] = pc[k] \/ (pc[k] = "merge" /\ pc'[k] \in {"catch", "save"})
    BY DEF MergeDeadlocks, Deadlocked
  <2> QED
    BY <2>1 DEF IsRun, IsDone, Running
<1>2. UNCHANGED <<attempts, crashes>>
  BY DEF MergeDeadlocks
<1> HIDE DEF IsRun, IsDone
<1> QED
  BY <1>1, <1>2 DEF QueueView

LEMMA RunBegins ==
  ASSUME IInv, NEW j \in Jobs, Start(j)
  PROVE  Runs!Next
<1>1. /\ pc[j] = "waiting" /\ pc' = [pc EXCEPT ![j] = "clear"]
      /\ UNCHANGED <<attempts, crashes>>
  BY DEF Start, GoTo
<1>2. attempts[j] < MaxAttempts /\ crashes[j] <= MaxCrashes
  BY <1>1, Known DEF AttemptsLeft, IInv, TypeOK
<1>3. Runs!Begin(j, j)
  BY <1>1, <1>2 DEF Runs!Begin, Running, IInv, TypeOK
<1> QED
  BY <1>3 DEF Runs!Next

LEMMA RunEnds ==
  ASSUME IInv, NEW j \in Jobs, Ack(j) \/ Catch(j)
  PROVE  Runs!Next
<1>1. CASE Ack(j)
  <2>1. /\ pc[j] = "ack" /\ pc' = [pc EXCEPT ![j] = "completed"]
        /\ UNCHANGED <<attempts, crashes>>
    BY <1>1 DEF Ack, GoTo
  <2>2. Runs!Succeed(j)
    BY <2>1 DEF Runs!Succeed, Runs!End, Running, IInv, TypeOK
  <2> QED
    BY <2>2 DEF Runs!Next
<1>2. CASE Catch(j)
  <2>1. /\ pc[j] = "catch" /\ UNCHANGED crashes
        /\ \E l \in {"waiting", "failed"} : pc' = [pc EXCEPT ![j] = l]
        /\ attempts' = [attempts EXCEPT ![j] = @ + 1]
    BY <1>2 DEF Catch, EndRun, GoTo
  <2>2. Runs!Fail(j)
    BY <2>1 DEF Runs!Fail, Runs!End, Running, IInv, TypeOK
  <2> QED
    BY <2>2 DEF Runs!Next
<1> QED
  BY <1>1, <1>2

LEMMA RunLost ==
  ASSUME IInv, NEW j \in Jobs, Crash(j)
  PROVE  Runs!Next
<1>1. /\ pc[j] \in Running /\ pc' = [pc EXCEPT ![j] = "waiting"]
      /\ crashes' = [crashes EXCEPT ![j] = @ + 1]
      /\ UNCHANGED attempts
  BY DEF Crash, EndRun, GoTo
<1>2. Runs!Lose({j})
  BY <1>1 DEF Runs!Lose, Running, IInv, TypeOK
<1> QED
  BY <1>2 DEF Runs!Next

(* The environment that ImportPipeline gives its handlers is the one that  *)
(* JobSystem guarantees (QueueKeepsItsPromise): what starts an attempt,    *)
(* what ends it, and how often, is a behaviour of JobRuns.  (NoStrays is   *)
(* an assumption of the invariant it rests on.)                            *)
THEOREM RunsAsQueued ==
  ASSUME NoStrays
  PROVE  Spec => ImplementsJobRuns
<1>1. Init => Runs!Init
  BY DEF Init, Runs!Init, Running
<1>2. IInv /\ [Next]_vars => [Runs!Next]_QueueView
  <2> SUFFICES ASSUME IInv, [Next]_vars PROVE Runs!Next \/ UNCHANGED QueueView
    OBVIOUS
  <2>1. ASSUME NEW j \in Jobs, OwnStep(j)
        PROVE  Runs!Next \/ UNCHANGED QueueView
    BY <2>1, WithinRun, RunBegins, RunEnds, RunLost DEF IInv
  <2>2. ASSUME NEW stuck \in SUBSET Jobs, NEW k \in stuck, NEW lost \in SUBSET (stuck \ {k}),
               MergeDeadlocks(stuck, lost, k)
        PROVE  UNCHANGED QueueView
    BY <2>2, DeadlockWithinRuns DEF IInv
  <2>3. CASE UNCHANGED vars
    BY <2>3 DEF vars, QueueView, IsRun, IsDone
  <2> QED
    BY <2>1, <2>2, <2>3 DEF Next, OwnStep
<1> QED
  BY <1>1, <1>2, Inductive, PTL
     DEF Spec, ImplementsJobRuns, Runs!Spec, QueueView, IsRun, IsDone

-----------------------------------------------------------------------------
(* The clients' view.                                                      *)
WrittenBy(j) == IF pc[j] \in AfterMerge THEN Lines(j) \ errors[j] ELSE {}
ReportOf(j) == IF pc[j] \in MarkedCompleted THEN Report(j) ELSE Whole!NoReport

ClientView ==
  <<db, bulk, [j \in Jobs |-> Outcome(j)], [j \in Jobs |-> WrittenBy(j)],
    [j \in Jobs |-> ReportOf(j)]>>

(* WholeImport speaks of the same files and tables.                        *)
LEMMA SameSelection ==
  ASSUME NEW j \in Jobs
  PROVE  /\ Whole!Entity(j) = Entity(j) /\ Whole!Lines(j) = Lines(j)
         /\ Whole!Length(j) = Length(j)
         /\ \A n : Whole!Record(j, n) = Record(j, n)
         /\ Whole!Apart(j) <=> Apart(j)
         /\ \A chosen : Whole!Selects(j, chosen) <=> Selects(j, chosen)
BY DEF Whole!Entity, Entity, Whole!Lines, Lines, Whole!Length, Length, Whole!Record, Record,
   Whole!Apart, Apart, Whole!Reads, Reads, Whole!Entities, Entities, Whole!Selects, Selects,
   Whole!FirstOfRow, FirstOfRow, Whole!Eligible, Eligible, Whole!SameRow, SameRow,
   Whole!Repeats, Repeats, Whole!Orphan, Orphan, Whole!Mismatch, Mismatch, Whole!Has, Has,
   Whole!Owners, Owners, Whole!Resolved, Resolved

LEMMA SameMerge ==
  /\ \A d, e, r : Whole!Resolved(d, e, r) = Resolved(d, e, r)
  /\ \A t, rows : /\ Whole!MergeAccepts(t, rows) <=> MergeAccepts(t, rows)
                  /\ Whole!Merged(t, rows) = Merged(t, rows)
  /\ \A S : Whole!Cardinality(S) = Cardinality(S)
BY DEF Whole!Cardinality, Cardinality, Whole!Resolved, Resolved, Whole!Owners, Owners,
   Whole!MergeAccepts, MergeAccepts, Whole!Merged, Merged

(* A step that changes neither the tables nor the view of any job.         *)
LEMMA Unseen ==
  ASSUME UNCHANGED <<db, bulk>>,
         \A k \in Jobs : /\ Outcome(k)' = Outcome(k)
                         /\ WrittenBy(k)' = WrittenBy(k)
                         /\ ReportOf(k)' = ReportOf(k)
  PROVE  UNCHANGED ClientView
BY DEF ClientView

(* What other jobs do to the view of a job: nothing.                       *)
LEMMA BesideUnseen ==
  ASSUME NEW j \in Jobs, Beside(j), pc[j] \in MarkedCompleted => saved'[j] = saved[j]
  PROVE  /\ Outcome(j)' = Outcome(j)
         /\ WrittenBy(j)' = WrittenBy(j)
         /\ ReportOf(j)' = ReportOf(j)
<1>1. /\ pc'[j] = pc[j] \/ (pc[j] = "merge" /\ pc'[j] = "catch")
      /\ SameFile(j) /\ errors'[j] = errors[j]
  BY DEF Beside
<1>2. Lines(j)' = Lines(j)
  BY <1>1, FileFacts
<1>3. Outcome(j)' = Outcome(j)
  BY <1>1 DEF Outcome, MarkedCompleted
<1>4. WrittenBy(j)' = WrittenBy(j)
  BY <1>1, <1>2 DEF WrittenBy, AfterMerge
<1>5. pc'[j] \in MarkedCompleted <=> pc[j] \in MarkedCompleted
  BY <1>1 DEF MarkedCompleted
<1>6. pc[j] \in MarkedCompleted => Report(j)' = Report(j)
  BY <1>1 DEF Report
<1>7. Whole!NoReport' = Whole!NoReport
  BY DEF Whole!NoReport
<1> QED
  BY <1>3, <1>4, <1>5, <1>6, <1>7 DEF ReportOf

(* The rows that reach the merge are one for each line that is no error.   *)
LEMMA StagedRows ==
  ASSUME IInv, FitInv, NEW j \in Jobs, pc[j] = "merge"
  PROVE  LET id == [n \in LinesOf(staging[j]) |-> (CHOOSE r \in staging[j] : r.line = n).id]
         IN  /\ Whole!RowsOf(j, id) = staging[j]
             /\ LinesOf(staging[j]) \in SUBSET Whole!Good(j)
             /\ id \in [LinesOf(staging[j]) -> Names]
             /\ \A r \in staging[j] : id[r.line] = r.id
             /\ LinesOf(staging[j]) = Lines(j) \ errors[j]
<1> DEFINE lines == LinesOf(staging[j])
           RowAt(n) == CHOOSE r \in staging[j] : r.line = n
           id == [n \in lines |-> RowAt(n).id]
<1>1. /\ Kept(j) = staging[j] /\ staging[j] \subseteq Rows
      /\ lines = Lines(j) \ errors[j] /\ lines \subseteq Lines(j)
  BY Decided, RowsTyped
<1>2. \A r \in staging[j] : Record(j, r.line).good /\ r.key = Record(j, r.line).key
  BY <1>1 DEF FitInv, RowsDistinct
<1>3. \A r, s \in staging[j] : r.line = s.line => r = s
  BY <1>1, Known DEF OneRowPerLine
<1>4. ASSUME NEW r \in staging[j] PROVE RowAt(r.line) = r
  BY <1>3
<1>5. \A n \in lines : \E r \in staging[j] : r.line = n
  BY DEF LinesOf
<1>6. \A r \in staging[j] : r.line \in lines /\ id[r.line] = r.id
  BY <1>4 DEF LinesOf
<1>7. \A n \in lines : id[n] \in Names
  BY <1>1, <1>5, <1>6 DEF Rows
<1>8. Whole!RowsOf(j, id) = staging[j]
  <2>1. Whole!RowsOf(j, id)
          = {[line |-> n, id |-> id[n], key |-> Record(j, n).key] : n \in lines}
    BY SameSelection DEF Whole!RowsOf
  <2>2. ASSUME NEW r \in staging[j]
        PROVE  r = [line |-> r.line, id |-> id[r.line], key |-> Record(j, r.line).key]
    <3>1. r \in [line : Nat \ {0}, id : Names, key : Names]
      BY <1>1 DEF Rows
    <3>2. r = [line |-> r.line, id |-> r.id, key |-> r.key]
      BY <3>1
    <3> QED
      BY <1>2, <1>6, <3>2
  <2> HIDE DEF id, lines
  <2> QED
    BY <1>5, <1>6, <2>1, <2>2
<1>9. lines \in SUBSET Whole!Good(j)
  BY <1>1, <1>2, <1>5, SameSelection DEF Whole!Good
<1> HIDE DEF lines, RowAt
<1>10. id \in [lines -> Names]
  BY <1>7
<1> QED
  BY <1>1, <1>6, <1>8, <1>9, <1>10 DEF lines, RowAt

(* A merge is the one write of an attempt.                                 *)
LEMMA MergeWrites ==
  ASSUME IInv, FitInv, ChoiceInv, NEW j \in Jobs, MergeOf(j),
         \A k \in Jobs \ {j} : Beside(k)
  PROVE  Whole!Next
<1> DEFINE lines == LinesOf(staging[j])
           id == [n \in lines |-> (CHOOSE r \in staging[j] : r.line = n).id]
<1>1. /\ pc[j] = "merge" /\ pc'[j] = "save"
      /\ MergeAccepts(db[Entity(j)], staging[j])
      /\ db' = [db EXCEPT ![Entity(j)] = Merged(@, staging[j])]
      /\ UNCHANGED <<bulk, errors, saved>>
  BY DEF MergeOf
<1>2. /\ Whole!RowsOf(j, id) = staging[j]
      /\ lines \in SUBSET Whole!Good(j) /\ id \in [lines -> Names]
      /\ \A r \in staging[j] : id[r.line] = r.id
      /\ lines = Lines(j) \ errors[j]
  BY <1>1, StagedRows
<1> HIDE DEF id
<1>3. DOMAIN id = lines
  BY <1>2
<1>4. ASSUME Apart(j) PROVE Whole!Chosen(j, id)
  <2>1. Selects(j, lines)
    BY <1>1, <1>4, ChoiceSelects
  <2>2. \A r \in staging[j] : KeptIsRow(j, r)
    BY <1>1, <1>4, Decided DEF ChoiceInv, ChoiceFits, DecidedInOrder
  <2>3. \A n \in lines : id[n] = Resolved(db, Entity(j), Record(j, n))
    BY <1>2, <2>2 DEF KeptIsRow, LinesOf
  <2> HIDE DEF lines
  <2> QED
    BY <1>3, <2>1, <2>3, SameSelection, SameMerge DEF Whole!Chosen
<1>5. /\ Outcome(j) = "open" /\ Outcome(j)' = "written"
      /\ WrittenBy(j)' = lines /\ ReportOf(j)' = ReportOf(j)
  <2>1. Lines(j)' = Lines(j)
    BY <1>1 DEF Lines, Length
  <2>2. Outcome(j) = "open" /\ Outcome(j)' = "written"
    BY <1>1 DEF Outcome, MarkedCompleted
  <2>3. WrittenBy(j)' = lines
    BY <1>1, <1>2, <2>1 DEF WrittenBy, AfterMerge
  <2>4. ReportOf(j)' = ReportOf(j)
    BY <1>1 DEF ReportOf, MarkedCompleted, Whole!NoReport
  <2> QED
    BY <2>2, <2>3, <2>4
<1>6. \A k \in Jobs \ {j} : /\ Outcome(k)' = Outcome(k)
                            /\ WrittenBy(k)' = WrittenBy(k)
                            /\ ReportOf(k)' = ReportOf(k)
  BY <1>1, BesideUnseen
<1> HIDE DEF lines
<1>7. PICK i : i = id
  OBVIOUS
<1>8. Whole!Writes(j, i)
  <2>1. [k \in Jobs |-> WrittenBy(k)]' = [[k \in Jobs |-> WrittenBy(k)] EXCEPT ![j] = lines]
    BY <1>5, <1>6
  <2>2. [k \in Jobs |-> ReportOf(k)]' = [k \in Jobs |-> ReportOf(k)]
    BY <1>5, <1>6
  <2>3. /\ Whole!Apart(j) => Whole!Chosen(j, i)
        /\ Whole!MergeAccepts(db[Whole!Entity(j)], Whole!RowsOf(j, i))
        /\ db' = [db EXCEPT ![Whole!Entity(j)] = Whole!Merged(@, Whole!RowsOf(j, i))]
    BY <1>1, <1>2, <1>4, <1>7, SameSelection, SameMerge
  <2> QED
    BY <1>1, <1>3, <1>7, <2>1, <2>2, <2>3 DEF Whole!Writes, WrittenBy, ReportOf, Whole!NoReport
<1>9. \E chosen \in SUBSET Whole!Good(j) : i \in [chosen -> Names]
  BY <1>2, <1>7
<1>10. Whole!Write(j)
  <2>1. [k \in Jobs |-> Outcome(k)]' = [[k \in Jobs |-> Outcome(k)] EXCEPT ![j] = "written"]
    BY <1>5, <1>6
  <2> QED
    BY <1>5, <1>8, <1>9, <2>1 DEF Whole!Write
<1> QED
  BY <1>10 DEF Whole!Next

-----------------------------------------------------------------------------
(* The error rows of an import that is about to complete are lines of its  *)
(* file; CountsFit and Reported only say how many they are.                *)
ErrorsAreLines == \A j \in Jobs : pc[j] = "complete" => errors[j] \subseteq Lines(j)

LEMMA ErrorsStayLines ==
  ASSUME NoStrays, IInv, ErrorsAreLines, [Next]_vars
  PROVE  ErrorsAreLines'
<1> SUFFICES ASSUME NEW j \in Jobs, pc'[j] = "complete" PROVE (errors[j] \subseteq Lines(j))'
  BY DEF ErrorsAreLines
<1>0. ~ClearPrevious(j)
  BY DEF ClearPrevious, GoTo, IInv, TypeOK
<1>1. Lines(j)' = Lines(j)
  BY <1>0, SameFiles, FileFacts
<1>2. CASE QuietStep(j)
  <2>1. Tidy(j)
    BY <1>2 DEF NoStrays, QuietStep, OwnStep, Step, ClearFails, StrayDelete, EndRun, run, Start,
       ClearPrevious, ReadBad, ReadGood, ReadEnd, Progress, Lookup, WriteItem, RejectItem,
       CopyBatch, RejectSlugs, MergeRefused, Save, Tidy, Complete, Ack, Catch, StatementFails,
       Crash, GoTo, Staged, IInv, TypeOK
  <2>2. pc[j] = "tidy" /\ errors' = errors
    BY <2>1 DEF Tidy
  <2>3. errors[j] \subseteq 1..Length(j)
    BY <2>2, Settled DEF Counting, Reading
  <2> QED
    BY <1>1, <2>2, <2>3 DEF Lines
<1>3. CASE MergeOf(j)
  BY <1>3 DEF MergeOf
<1>4. CASE Beside(j)
  BY <1>1, <1>4 DEF Beside, ErrorsAreLines
<1> QED
  BY <1>2, <1>3, <1>4, Views

(* markJobCompleted publishes the lines that were not written.             *)
LEMMA CompletePublishes ==
  ASSUME IInv, ErrorsAreLines, NEW j \in Jobs, Complete(j),
         \A k \in Jobs \ {j} : Beside(k) /\ saved'[k] = saved[k]
  PROVE  Whole!Next
<1>1. /\ pc[j] = "complete" /\ pc'[j] = "ack" /\ saved'[j] = totals[j]
      /\ UNCHANGED <<db, bulk, errors>>
  BY DEF Complete, EndRun, GoTo, Set, IInv, TypeOK
<1>2. errors[j] \subseteq Lines(j) /\ Describes(j, totals[j])
  BY <1>1, Known DEF ErrorsAreLines, Reported
<1> DEFINE written == Lines(j) \ errors[j]
<1>3. Cardinality(written) = Length(j) - Cardinality(errors[j])
  <2>1. Length(j) \in Nat /\ IsFiniteSet(Lines(j)) /\ Cardinality(Lines(j)) = Length(j)
    BY InputFacts, FS_Interval DEF Lines, IInv
  <2>2. IsFiniteSet(errors[j]) /\ IsFiniteSet(written)
    BY <1>2, <2>1, FS_Subset
  <2>3. errors[j] \cup written = Lines(j) /\ errors[j] \cap written = {}
    BY <1>2
  <2> HIDE DEF written
  <2>4. /\ Cardinality(errors[j]) \in Nat /\ Cardinality(written) \in Nat
        /\ Cardinality(errors[j] \cup written) = Cardinality(errors[j]) + Cardinality(written)
    BY <2>2, <2>3, DisjointUnion
  <2>5. Cardinality(errors[j] \cup written) = Length(j)
    BY <2>1, <2>3
  <2> QED
    BY <2>1, <2>4, <2>5
<1>4. Lines(j)' = Lines(j) /\ Lines(j) \ written = errors[j]
  BY <1>1, <1>2 DEF Lines, Length
<1>5. /\ Outcome(j) = "written" /\ Outcome(j)' = "completed"
      /\ WrittenBy(j) = written /\ WrittenBy(j)' = WrittenBy(j)
  BY <1>1, <1>4 DEF Outcome, WrittenBy, AfterMerge, MarkedCompleted
<1>6. ReportOf(j)' = [errors |-> Lines(j) \ written, read |-> Length(j),
                      failed |-> Cardinality(Lines(j) \ written),
                      written |-> Cardinality(written)]
  BY <1>1, <1>2, <1>3, <1>4 DEF ReportOf, MarkedCompleted, Report, Describes
<1>7. \A k \in Jobs \ {j} : /\ Outcome(k)' = Outcome(k)
                            /\ WrittenBy(k)' = WrittenBy(k)
                            /\ ReportOf(k)' = ReportOf(k)
  BY BesideUnseen
<1> HIDE DEF written
<1>8. Whole!Complete(j)
  <2>1. [k \in Jobs |-> Outcome(k)]' = [[k \in Jobs |-> Outcome(k)] EXCEPT ![j] = "completed"]
    BY <1>5, <1>7
  <2>2. [k \in Jobs |-> WrittenBy(k)]' = [k \in Jobs |-> WrittenBy(k)]
    BY <1>5, <1>7
  <2>3. [k \in Jobs |-> ReportOf(k)]'
          = [[k \in Jobs |-> ReportOf(k)] EXCEPT ![j] =
               [errors |-> Lines(j) \ written, read |-> Length(j),
                failed |-> Cardinality(Lines(j) \ written),
                written |-> Cardinality(written)]]
    BY <1>6, <1>7
  <2> QED
    BY <1>1, <1>5, <2>1, <2>2, <2>3, SameSelection, SameMerge
       DEF Whole!Complete, WrittenBy, ReportOf, Whole!NoReport
<1> QED
  BY <1>8 DEF Whole!Next

(* The other steps of a job are its own business, except those that undo   *)
(* an attempt that has merged, and the last failure.                       *)
Undone(j) == pc[j] \in AfterMerge \ {"completed"} /\ pc'[j] \in {"waiting", "catch"}
GivenUp(j) == pc[j] = "catch" /\ pc'[j] = "failed"
Hidden(j) ==
  /\ Outcome(j)' = Outcome(j)
  /\ WrittenBy(j)' = WrittenBy(j)
  /\ ReportOf(j)' = ReportOf(j)

LEMMA OwnSeen ==
  ASSUME NoStrays, IInv, NEW j \in Jobs, QuietStep(j), ~Complete(j)
  PROVE  Undone(j) \/ GivenUp(j) \/ Hidden(j)
<1>1. \/ Undone(j) \/ GivenUp(j)
      \/ pc[j] = "ack" /\ pc'[j] = "completed" /\ errors' = errors /\ saved' = saved
      \/ pc[j] \in {"save", "tidy"} /\ pc'[j] \in {"tidy", "complete"} /\ errors' = errors
      \/ pc[j] = "failed" /\ pc'[j] = "failed"
      \/ /\ pc[j] \notin AfterMerge \cup {"failed"}
         /\ pc'[j] \notin AfterMerge \cup {"failed"}
  BY DEF NoStrays, QuietStep, OwnStep, Step, ClearFails, StrayDelete, EndRun, run, Start,
     ClearPrevious, ReadBad, ReadGood, ReadEnd, Progress, Lookup, WriteItem, RejectItem,
     CopyBatch, RejectSlugs, MergeRefused, Save, Tidy, Ack, Catch, StatementFails, Crash, GoTo,
     Staged, Running, AfterMerge, Undone, GivenUp, IInv, TypeOK
<1>2. pc[j] \in AfterMerge => Lines(j)' = Lines(j)
  <2>1. pc[j] \in AfterMerge => ~ClearPrevious(j)
    BY DEF ClearPrevious, AfterMerge
  <2> QED
    BY <2>1, BulkMoves DEF QuietStep, Lines, Length
<1>3. CASE pc[j] \in {"save", "tidy"} /\ pc'[j] \in {"tidy", "complete"} /\ errors' = errors
  BY <1>2, <1>3 DEF Hidden, Outcome, WrittenBy, ReportOf, AfterMerge, MarkedCompleted,
     Whole!NoReport
<1>4. CASE pc[j] = "ack" /\ pc'[j] = "completed" /\ errors' = errors /\ saved' = saved
  BY <1>2, <1>4 DEF Hidden, Outcome, WrittenBy, ReportOf, Report, AfterMerge, MarkedCompleted
<1>5. CASE /\ pc[j] \notin AfterMerge \cup {"failed"}
           /\ pc'[j] \notin AfterMerge \cup {"failed"}
  BY <1>5 DEF Hidden, Outcome, WrittenBy, ReportOf, AfterMerge, MarkedCompleted,
     Whole!NoReport
<1>6. CASE pc[j] = "failed" /\ pc'[j] = "failed"
  BY <1>6 DEF Hidden, Outcome, WrittenBy, ReportOf, AfterMerge, MarkedCompleted,
     Whole!NoReport
<1> QED
  BY <1>1, <1>3, <1>4, <1>5, <1>6

LEMMA UndoneStartsOver ==
  ASSUME NEW j \in Jobs, UNCHANGED <<db, bulk>>, Undone(j) \/ GivenUp(j),
         \A k \in Jobs \ {j} : Hidden(k)
  PROVE  Whole!Next
<1>1. WrittenBy(j)' = {} /\ ReportOf(j)' = Whole!NoReport
  BY DEF Undone, GivenUp, WrittenBy, ReportOf, AfterMerge, MarkedCompleted, Whole!NoReport
<1>2. CASE Undone(j)
  <2>1. Outcome(j) \in {"written", "completed"} /\ Outcome(j)' = "open"
    BY <1>2 DEF Undone, Outcome, AfterMerge, MarkedCompleted
  <2>2. [k \in Jobs |-> Outcome(k)]' = [[k \in Jobs |-> Outcome(k)] EXCEPT ![j] = "open"]
    BY <2>1 DEF Hidden
  <2>3. [k \in Jobs |-> WrittenBy(k)]' = [[k \in Jobs |-> WrittenBy(k)] EXCEPT ![j] = {}]
    BY <1>1 DEF Hidden
  <2>4. [k \in Jobs |-> ReportOf(k)]'
          = [[k \in Jobs |-> ReportOf(k)] EXCEPT ![j] = Whole!NoReport]
    BY <1>1 DEF Hidden
  <2>5. Whole!StartOver(j)
    BY <2>1, <2>2, <2>3, <2>4 DEF Whole!StartOver, WrittenBy, ReportOf, Whole!NoReport
  <2> QED
    BY <2>5 DEF Whole!Next
<1>3. CASE GivenUp(j)
  <2>1. /\ Outcome(j) = "open" /\ Outcome(j)' = "failed"
        /\ WrittenBy(j) = {} /\ ReportOf(j) = Whole!NoReport
    BY <1>3 DEF GivenUp, Outcome, WrittenBy, ReportOf, AfterMerge, MarkedCompleted,
       Whole!NoReport
  <2>2. [k \in Jobs |-> Outcome(k)]' = [[k \in Jobs |-> Outcome(k)] EXCEPT ![j] = "failed"]
    BY <2>1 DEF Hidden
  <2>3. /\ [k \in Jobs |-> WrittenBy(k)]' = [k \in Jobs |-> WrittenBy(k)]
        /\ [k \in Jobs |-> ReportOf(k)]' = [k \in Jobs |-> ReportOf(k)]
    BY <1>1, <2>1 DEF Hidden
  <2>4. Whole!GiveUp(j)
    BY <2>1, <2>2, <2>3 DEF Whole!GiveUp, WrittenBy, ReportOf, Whole!NoReport
  <2> QED
    BY <2>4 DEF Whole!Next
<1> QED
  BY <1>2, <1>3

(* An attempt begins with what the reader delivers this time.              *)
LEMMA ClearReads ==
  ASSUME IInv, NEW j \in Jobs, ClearPrevious(j), Hidden(j), \A k \in Jobs \ {j} : Hidden(k)
  PROVE  Whole!Next
<1>1. \E records \in Deliveries(bulk[j]) : bulk' = [bulk EXCEPT ![j].records = records]
  BY OpenFacts DEF ClearPrevious, IInv
<1>2. \E records \in Whole!Deliveries(bulk[j]) : bulk' = [bulk EXCEPT ![j].records = records]
  BY <1>1 DEF Whole!Deliveries, Deliveries, Whole!Bad, Bad
<1>3. Outcome(j) = "open" /\ db' = db
  BY DEF ClearPrevious, Outcome, MarkedCompleted
<1>4. /\ [k \in Jobs |-> Outcome(k)]' = [k \in Jobs |-> Outcome(k)]
      /\ [k \in Jobs |-> WrittenBy(k)]' = [k \in Jobs |-> WrittenBy(k)]
      /\ [k \in Jobs |-> ReportOf(k)]' = [k \in Jobs |-> ReportOf(k)]
  BY DEF Hidden
<1>5. Whole!Read(j)
  BY <1>2, <1>3, <1>4 DEF Whole!Read, WrittenBy, ReportOf, Whole!NoReport
<1> QED
  BY <1>5 DEF Whole!Next

(* Seen from outside, an import is one write per attempt, of the lines     *)
(* that one pass over what it reads of its file selects: batches, staging  *)
(* tables, error rows, retries, crashes and deadlocks leave no trace in    *)
(* the database or in the report.  Assumed is only that no delete of an    *)
(* attempt is still on its way when the next one begins.                   *)
THEOREM ImportIsOneWrite ==
  ASSUME NoStrays
  PROVE  Spec => ImplementsWholeImport
<1>1. Init => Whole!Init /\ ErrorsAreLines
  <2> SUFFICES ASSUME Init PROVE Whole!Init /\ ErrorsAreLines
    OBVIOUS
  <2>1. \A j \in Jobs : pc[j] = "waiting"
    BY DEF Init
  <2> QED
    BY <2>1 DEF Whole!Init, ErrorsAreLines, Outcome, AfterMerge, MarkedCompleted, Whole!NoReport
<1>2. IInv /\ ErrorsAreLines /\ [Next]_vars => ErrorsAreLines'
  BY ErrorsStayLines
<1>3. IInv /\ FitInv /\ ChoiceInv /\ ErrorsAreLines /\ [Next]_vars => [Whole!Next]_ClientView
  <2> SUFFICES ASSUME IInv, FitInv, ChoiceInv, ErrorsAreLines, [Next]_vars
               PROVE  Whole!Next \/ UNCHANGED ClientView
    OBVIOUS
  <2>1. ASSUME NEW j \in Jobs, OwnStep(j)
        PROVE  Whole!Next \/ UNCHANGED ClientView
    <3>1. \A k \in Jobs \ {j} : Beside(k) /\ saved'[k] = saved[k]
      BY <2>1, StepBeside, OthersSame DEF IInv, Same
    <3>2. \A k \in Jobs \ {j} : Hidden(k)
      BY <3>1, BesideUnseen DEF Hidden
    <3>3. CASE Merge(j)
      BY <3>1, <3>3, MergeSeen, MergeWrites
    <3>4. CASE Complete(j)
      BY <3>1, <3>4, CompletePublishes
    <3>5. CASE QuietStep(j) /\ ~Complete(j)
      <4>1. Undone(j) \/ GivenUp(j) \/ Hidden(j)
        BY <3>5, OwnSeen
      <4>2. CASE ClearPrevious(j)
        <5>1. Hidden(j)
          BY <4>1, <4>2 DEF ClearPrevious, Undone, GivenUp, AfterMerge
        <5> QED
          BY <3>2, <4>2, <5>1, ClearReads
      <4>3. CASE ~ClearPrevious(j)
        <5>1. UNCHANGED <<db, bulk>>
          BY <3>5, <4>3, OwnQuiet, BulkMoves DEF QuietStep
        <5>2. CASE Undone(j) \/ GivenUp(j)
          BY <3>2, <5>1, <5>2, UndoneStartsOver
        <5>3. CASE Hidden(j)
          BY <3>2, <5>1, <5>3, Unseen DEF Hidden
        <5> QED
          BY <4>1, <5>2, <5>3
      <4> QED
        BY <4>2, <4>3
    <3> QED
      BY <2>1, <3>3, <3>4, <3>5 DEF QuietStep
  <2>2. ASSUME NEW stuck \in SUBSET Jobs, NEW k \in stuck, NEW lost \in SUBSET (stuck \ {k}),
               MergeDeadlocks(stuck, lost, k)
        PROVE  Whole!Next \/ UNCHANGED ClientView
    <3>1. \A j \in Jobs \ {k} : Beside(j)
      BY <2>2, DeadlockParts
    <3>2. CASE MergeOf(k)
      BY <3>1, <3>2, MergeWrites
    <3>3. CASE Beside(k) /\ db' = db
      <4>1. UNCHANGED <<bulk, saved>>
        BY <2>2 DEF MergeDeadlocks
      <4> QED
        BY <3>1, <3>3, <4>1, BesideUnseen, Unseen
    <3> QED
      BY <2>2, <3>2, <3>3, DeadlockParts
  <2>3. CASE UNCHANGED vars
    <3>1. UNCHANGED <<db, bulk, pc, errors, saved>>
      BY <2>3 DEF vars
    <3> QED
      BY <3>1 DEF ClientView, Outcome, WrittenBy, ReportOf, Report, Lines, Length,
         Whole!NoReport
  <2> QED
    BY <2>1, <2>2, <2>3 DEF Next, OwnStep
<1> QED
  BY <1>1, <1>2, <1>3, Inductive, FitInductive, ChoiceInductive, PTL
     DEF Spec, ImplementsWholeImport, Whole!Spec, Whole!vars, ClientView, WrittenBy,
         ReportOf, Whole!NoReport

=============================================================================
