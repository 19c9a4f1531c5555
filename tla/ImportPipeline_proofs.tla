----------------------- MODULE ImportPipeline_proofs -----------------------
(***************************************************************************)
(* Proofs about ImportPipeline for all files, databases and jobs, every    *)
(* batch size and limit, and every fault but "stray", which they assume    *)
(* away: a delete that a failed attempt has left behind does not outlive   *)
(* the backoff of seconds before the next one.                             *)
(***************************************************************************)
EXTENDS ImportPipeline, FiniteSetTheorems, TLAPS

(* Rows of different lines are as many as their lines.                     *)
LEMMA RowsAreCounted ==
  ASSUME NEW rows, NEW n \in Nat, LinesOf(rows) \subseteq 1..n,
         \A r, s \in rows : r.line = s.line => r = s
  PROVE  /\ IsFiniteSet(rows)
         /\ IsFiniteSet(LinesOf(rows))
         /\ Cardinality(LinesOf(rows)) = Cardinality(rows)
<1> DEFINE f == [r \in rows |-> r.line]
<1>1. IsFiniteSet(1..n)
  BY FS_Interval
<1>2. IsFiniteSet(LinesOf(rows))
  BY <1>1, FS_Subset
<1>3. f \in Injection(rows, LinesOf(rows)) /\ f \in Surjection(rows, LinesOf(rows))
  BY DEF LinesOf, Injection, Surjection, IsInjective
<1> QED
  BY <1>2, <1>3, FS_Injection

NoStrays == "stray" \notin Faults

(* What a job's invariant says depends on its own variables only.          *)
Same(j) ==
  /\ bulk'[j] = bulk[j] /\ pc'[j] = pc[j] /\ totals'[j] = totals[j] /\ buffer'[j] = buffer[j]
  /\ todo'[j] = todo[j] /\ batch'[j] = batch[j] /\ staging'[j] = staging[j]
  /\ errors'[j] = errors[j] /\ saved'[j] = saved[j] /\ attempts'[j] = attempts[j]

LEMMA Frame ==
  ASSUME NEW j \in Jobs, JobInv(j), Same(j)
  PROVE  JobInv(j)'
<1>1. Reported(j)'
  BY DEF Same, JobInv, Reported, MarkedCompleted, Describes, Length, Lines, Record
<1> QED
  BY <1>1 DEF Same, JobInv, FreshStart, AttemptsLeft, PendingAreGood, KeptAreGood,
     OneRowPerLine, LinesAccounted, CountsFit, BatchesFit, Record, Kept, Pending, Length

(* What a job does, or what happens to it alone.                           *)
OwnStep(k) == Step(k) \/ ClearFails(k) \/ StrayDelete(k) \/ StatementFails(k) \/ Crash(k)

(* A step of a job leaves the others alone.                                *)
LEMMA OthersSame ==
  ASSUME TypeOK, BulkOK, NEW k \in Jobs, OwnStep(k), NEW j \in Jobs \ {k}
  PROVE  Same(j)
BY DEF TypeOK, BulkOK, Open, Clear, OwnStep, Step, ClearFails, StrayDelete, Same, GoTo, Set,
   EndRun, run, Start, ClearPrevious, ReadBad, ReadGood, ReadEnd, Progress, Lookup, WriteItem,
   RejectItem, CopyBatch, RejectSlugs, Merge, MergeRefused, Save, Tidy, Complete, Ack, Catch,
   StatementFails, Crash

-----------------------------------------------------------------------------
(* The files are what Inputs says, and so is what is read of them.         *)
LEMMA InputFacts ==
  ASSUME BulkOK, NEW j \in Jobs
  PROVE  /\ Length(j) \in Nat
         /\ Entity(j) \in Entities
         /\ \A n \in Lines(j) : Record(j, n).good => Record(j, n) \in Records
<1>1. /\ bulk[j].records \in Seq(Records \cup {Bad})
      /\ bulk[j].entity \in Entities
  BY DEF BulkOK
<1>2. \A n \in Lines(j) : Record(j, n) \in Records \cup {Bad}
  BY <1>1 DEF Lines, Length, Record
<1> QED
  BY <1>1, <1>2 DEF Length, Entity, Bad

LEMMA DeliveriesAreRecords ==
  ASSUME NEW b, b.file \in Seq(Records \cup {Bad}), NEW records \in Deliveries(b)
  PROVE  /\ records \in Seq(Records \cup {Bad})
         /\ records # b.file => Len(records) \in Nat \ {0} /\ ~records[Len(records)].good
<1>1. CASE records = b.file
  BY <1>1
<1>2. ASSUME NEW n \in 0..Len(b.file), records = Append(SubSeq(b.file, 1, n), Bad)
      PROVE  /\ records \in Seq(Records \cup {Bad})
             /\ Len(records) \in Nat \ {0}
             /\ records[Len(records)] = Bad
  <2> DEFINE part == SubSeq(b.file, 1, n)
  <2>1. part \in Seq(Records \cup {Bad}) /\ Len(part) \in Nat
    OBVIOUS
  <2> HIDE DEF part
  <2>2. records = Append(part, Bad)
    BY <1>2 DEF part
  <2> QED
    BY <2>1, <2>2
<1>3. \/ records = b.file
      \/ \E n \in 0..Len(b.file) : records = Append(SubSeq(b.file, 1, n), Bad)
  BY DEF Deliveries
<1> QED
  BY <1>1, <1>2, <1>3 DEF Bad

(* A run may read more or less of its file than the one before it, unless  *)
(* the file is not JSON or no stream breaks.                               *)
LEMMA OpenFacts ==
  ASSUME BulkOK, NEW j \in Jobs, Open(j)
  PROVE  /\ BulkOK'
         /\ \E records \in Deliveries(bulk[j]) : bulk' = [bulk EXCEPT ![j].records = records]
         /\ \A k \in Jobs : Entity(k)' = Entity(k)
         /\ \A k \in Jobs \ {j} : bulk'[k] = bulk[k]
         /\ Unbroken(j) => bulk' = bulk
<1>1. PICK records \in Delivered(j) : bulk' = [bulk EXCEPT ![j] = Opened(@, records)]
  BY DEF Open
<1>2. /\ bulk[j] \in [entity : Entities, json : BOOLEAN, file : Seq(Records \cup {Bad}),
                      records : Seq(Records \cup {Bad})]
      /\ bulk \in [Jobs -> [entity : Entities, json : BOOLEAN, file : Seq(Records \cup {Bad}),
                      records : Seq(Records \cup {Bad})]]
  BY DEF BulkOK
<1>3. records \in Deliveries(bulk[j]) /\ (Unbroken(j) => records = bulk[j].file)
  BY <1>1 DEF Delivered, Deliveries, Unbroken
<1>4. records \in Seq(Records \cup {Bad})
  BY <1>2, <1>3, DeliveriesAreRecords
<1>5. bulk' = [bulk EXCEPT ![j].records = records]
  BY <1>1, <1>2 DEF Opened
<1>6. /\ bulk'[j] = Opened(bulk[j], records)
      /\ bulk'[j] = [bulk[j] EXCEPT !.records = records]
      /\ \A k \in Jobs \ {j} : bulk'[k] = bulk[k]
  BY <1>1, <1>2, <1>5
<1>7. \A k \in Jobs : /\ bulk'[k].entity = bulk[k].entity /\ bulk'[k].json = bulk[k].json
                      /\ bulk'[k].file = bulk[k].file
  BY <1>6 DEF Opened
<1>8. BulkOK'
  <2>1. bulk' \in [Jobs -> [entity : Entities, json : BOOLEAN, file : Seq(Records \cup {Bad}),
                           records : Seq(Records \cup {Bad})]]
    BY <1>2, <1>4, <1>5
  <2>2. ASSUME NEW k \in Jobs
        PROVE  /\ \E b \in Inputs : bulk'[k] = Opened(b, bulk'[k].records)
               /\ bulk'[k].records \in Deliveries(bulk'[k])
               /\ Unbroken(k)' => bulk'[k].records = bulk'[k].file
    <3>1. PICK b \in Inputs : bulk[k] = Opened(b, bulk[k].records)
      BY DEF BulkOK
    <3>2. CASE k = j
      <4>1. bulk'[k].records = records
        BY <1>6, <3>2 DEF Opened
      <4>2. bulk'[k] = Opened(b, records)
        BY <1>6, <3>1, <3>2 DEF Opened
      <4>3. records \in Deliveries(bulk'[k])
        BY <1>3, <1>7, <3>2 DEF Deliveries
      <4>4. Unbroken(k)' => records = bulk'[k].file
        BY <1>3, <1>7, <3>2 DEF Unbroken
      <4> QED
        BY <4>1, <4>2, <4>3, <4>4
    <3>3. CASE k # j
      BY <1>6, <3>3 DEF BulkOK, Unbroken
    <3> QED
      BY <3>2, <3>3
  <2> QED
    BY <2>1, <2>2 DEF BulkOK
<1>9. Unbroken(j) => bulk' = bulk
  BY <1>2, <1>3, <1>5 DEF BulkOK
<1> QED
  BY <1>3, <1>5, <1>6, <1>7, <1>8, <1>9 DEF Entity

(* What stands between a run and its limits.                               *)
LEMMA Finite ==
  ASSUME IInv, NEW j \in Jobs
  PROVE  /\ IsFiniteSet(buffer[j]) /\ Cardinality(buffer[j]) \in Nat
         /\ IsFiniteSet(todo[j]) /\ Cardinality(todo[j]) \in Nat
         /\ pc[j] \in Counting => IsFiniteSet(errors[j]) /\ Cardinality(errors[j]) \in Nat
         /\ pc[j] \in Counting => IsFiniteSet(Kept(j)) /\ Cardinality(Kept(j)) \in Nat
<1>1. totals[j].read \in Nat /\ buffer[j] \subseteq 1..totals[j].read /\ todo[j] \subseteq buffer[j]
  BY DEF IInv, TypeOK, Totals, Counts
<1>2. IsFiniteSet(1..totals[j].read)
  BY <1>1, FS_Interval
<1>3. IsFiniteSet(buffer[j]) /\ IsFiniteSet(todo[j])
  BY <1>1, <1>2, FS_Subset
<1>4. ASSUME pc[j] \in Counting PROVE IsFiniteSet(errors[j]) /\ IsFiniteSet(Kept(j))
  <2>1. errors[j] \subseteq 1..totals[j].read /\ LinesOf(Kept(j)) \subseteq 1..totals[j].read
    BY <1>4 DEF IInv, JobInv, LinesAccounted
  <2>2. \A r, s \in Kept(j) : r.line = s.line => r = s
    BY DEF IInv, JobInv, OneRowPerLine
  <2> QED
    BY <1>1, <1>2, <2>1, <2>2, FS_Subset, RowsAreCounted
<1> QED
  BY <1>3, <1>4, FS_CardinalityType

-----------------------------------------------------------------------------
(* Counters are independent of each other, and totals of one another.      *)
LEMMA AddFacts ==
  ASSUME NEW t \in Totals, NEW c \in Counts, NEW n \in Int, t[c] + n \in Nat
  PROVE  /\ Add(t, c, n) \in Totals
         /\ Add(t, c, n)[c] = t[c] + n
         /\ \A d \in Counts \ {c} : Add(t, c, n)[d] = t[d]
BY DEF Totals, Counts, Add

LEMMA WriteFacts ==
  ASSUME NEW t \in Totals, NEW n \in Nat
  PROVE  /\ [t EXCEPT !.written = n] \in Totals
         /\ [t EXCEPT !.written = n].written = n
         /\ \A d \in Counts \ {"written"} : [t EXCEPT !.written = n][d] = t[d]
BY DEF Totals, Counts

LEMMA SetFacts ==
  ASSUME TypeOK, NEW j \in Jobs, NEW t \in Totals, totals' = Set(totals, j, t)
  PROVE  /\ totals' \in [Jobs -> Totals]
         /\ totals'[j] = t
         /\ \A k \in Jobs \ {j} : totals'[k] = totals[k]
BY DEF TypeOK, Set

(* What each step does to the totals.                                      *)
Moves(j, read, valid, failed) ==
  /\ totals' \in [Jobs -> Totals]
  /\ totals'[j].read = totals[j].read + read
  /\ totals'[j].valid = totals[j].valid + valid
  /\ totals'[j].failed = totals[j].failed + failed
  /\ \A k \in Jobs \ {j} : totals'[k] = totals[k]

LEMMA MovesBound ==
  ASSUME IInv, NEW j \in Jobs, NEW r \in {0, 1}, NEW v, NEW f, Moves(j, r, v, f), bulk' = bulk,
         r = 1 => NextLine(j) \in Lines(j)
  PROVE  /\ totals'[j].read \in Nat
         /\ totals'[j].read <= Length(j)'
         /\ \A k \in Jobs :
              /\ totals'[k].read <= Length(k)'
              /\ 1..totals[k].read \subseteq 1..totals'[k].read
<1>1. \A k \in Jobs : totals[k].read \in Nat /\ totals[k].read <= Length(k)
  BY DEF IInv, TypeOK, Totals, Counts
<1>2. Length(j) \in Nat
  BY InputFacts DEF IInv
<1>3. totals'[j].read = totals[j].read + r /\ \A k \in Jobs \ {j} : totals'[k].read = totals[k].read
  BY DEF Moves
<1>4. totals'[j].read \in Nat /\ totals'[j].read <= Length(j) /\ totals[j].read <= totals'[j].read
  BY <1>1, <1>2, <1>3 DEF NextLine, Lines
<1>5. \A k \in Jobs : Length(k)' = Length(k)
  BY DEF Length
<1>6. 1..totals[j].read \subseteq 1..totals'[j].read
  BY <1>1, <1>4
<1> QED
  BY <1>1, <1>3, <1>4, <1>5, <1>6

LEMMA TotalsMove ==
  ASSUME IInv, NEW j \in Jobs
  PROVE  /\ ReadBad(j) => Moves(j, 1, 0, 1)
         /\ ReadGood(j) => Moves(j, 1, 1, 0)
         /\ RejectItem(j) => Moves(j, 0, -1, 1)
         /\ RejectSlugs(j) =>
              Moves(j, 0, 0, Cardinality(SlugConflicts(db["articles"], staging[j])))
         /\ Save(j) =>
              Moves(j, 0, 0, 0) /\ totals'[j].written = Cardinality(staging[j])
<1>1. /\ TypeOK
      /\ totals[j] \in Totals
      /\ totals[j].read \in Nat /\ totals[j].valid \in Nat /\ totals[j].failed \in Nat
  BY DEF IInv, TypeOK, Totals, Counts
<1> USE DEF Counts
<1>2. Add(totals[j], "read", 1) \in Totals
  BY <1>1, AddFacts
<1>3. ReadBad(j) => Moves(j, 1, 0, 1)
  <2> DEFINE t == Add(totals[j], "read", 1)
             u == Add(t, "failed", 1)
  <2>1. t.read = totals[j].read + 1 /\ t.valid = totals[j].valid /\ t.failed = totals[j].failed
    BY <1>1, AddFacts
  <2>2. u \in Totals /\ u.read = t.read /\ u.valid = t.valid /\ u.failed = t.failed + 1
    BY <1>1, <1>2, <2>1, AddFacts
  <2> QED
    BY <1>1, <2>1, <2>2, SetFacts DEF ReadBad, Moves
<1>4. ReadGood(j) => Moves(j, 1, 1, 0)
  <2> DEFINE t == Add(totals[j], "read", 1)
             u == Add(t, "valid", 1)
  <2>1. t.read = totals[j].read + 1 /\ t.valid = totals[j].valid /\ t.failed = totals[j].failed
    BY <1>1, AddFacts
  <2>2. u \in Totals /\ u.read = t.read /\ u.valid = t.valid + 1 /\ u.failed = t.failed
    BY <1>1, <1>2, <2>1, AddFacts
  <2> QED
    BY <1>1, <2>1, <2>2, SetFacts DEF ReadGood, Moves
<1>5. RejectItem(j) => Moves(j, 0, -1, 1)
  <2> SUFFICES ASSUME RejectItem(j) PROVE Moves(j, 0, -1, 1)
    OBVIOUS
  <2> DEFINE t == Add(totals[j], "valid", -1)
             u == Add(t, "failed", 1)
  <2>1. totals[j].valid + -1 \in Nat
    <3>1. todo[j] # {} /\ pc[j] = "items"
      BY DEF RejectItem
    <3>2. totals[j].valid = Cardinality(Kept(j)) + Cardinality(todo[j])
      BY <3>1 DEF IInv, JobInv, CountsFit, Reading, Pending
    <3>3. Cardinality(Kept(j)) \in Nat /\ Cardinality(todo[j]) \in Nat \ {0}
      BY <3>1, Finite, FS_EmptySet DEF Counting, Reading
    <3> QED
      BY <3>2, <3>3
  <2>2. /\ t \in Totals
        /\ t.read = totals[j].read
        /\ t.valid = totals[j].valid + -1
        /\ t.failed = totals[j].failed
    BY <1>1, <2>1, AddFacts
  <2>3. u \in Totals /\ u.read = t.read /\ u.valid = t.valid /\ u.failed = t.failed + 1
    BY <1>1, <2>2, AddFacts
  <2> QED
    BY <1>1, <2>2, <2>3, SetFacts DEF RejectItem, Moves
<1>6. /\ RejectSlugs(j) => Cardinality(SlugConflicts(db["articles"], staging[j])) \in Nat
      /\ Save(j) => Cardinality(staging[j]) \in Nat
  <2>1. staging[j] \subseteq Kept(j) /\ SlugConflicts(db["articles"], staging[j]) \subseteq Kept(j)
    BY DEF SlugConflicts, Kept
  <2>2. RejectSlugs(j) \/ Save(j) => IsFiniteSet(Kept(j))
    BY Finite DEF RejectSlugs, Save, Counting
  <2> QED
    BY <2>1, <2>2, FS_Subset, FS_CardinalityType
<1>7. RejectSlugs(j) => Moves(j, 0, 0, Cardinality(SlugConflicts(db["articles"], staging[j])))
  BY <1>1, <1>6, AddFacts, SetFacts DEF RejectSlugs, Moves
<1>8. Save(j) => Moves(j, 0, 0, 0) /\ totals'[j].written = Cardinality(staging[j])
  <2> DEFINE t == [totals[j] EXCEPT !.written = Cardinality(staging[j])]
  <2>1. Save(j) => /\ t \in Totals
                   /\ t.read = totals[j].read /\ t.valid = totals[j].valid
                   /\ t.failed = totals[j].failed /\ t.written = Cardinality(staging[j])
    BY <1>1, <1>6, WriteFacts
  <2>2. Save(j) => totals' = Set(totals, j, t)
    BY DEF Save
  <2> HIDE DEF t
  <2>3. Save(j) => /\ totals' \in [Jobs -> Totals]
                   /\ totals'[j] = t
                   /\ \A k \in Jobs \ {j} : totals'[k] = totals[k]
    BY <1>1, <2>1, <2>2, SetFacts
  <2> QED
    BY <1>1, <2>1, <2>3 DEF Moves
<1> QED
  BY <1>3, <1>4, <1>5, <1>7, <1>8

LEMMA StillRead ==
  ASSUME IInv, NEW j \in Jobs, NEW v, NEW f, Moves(j, 0, v, f)
  PROVE  totals' \in [Jobs -> Totals] /\ \A k \in Jobs : totals'[k].read = totals[k].read
<1>1. totals[j].read \in Nat
  BY DEF IInv, TypeOK, Totals, Counts
<1> QED
  BY <1>1 DEF Moves

(* Every variable keeps its type.                                          *)
Vocabulary == Running \cup {"waiting", "completed", "failed"}

LEMMA StartTyped ==
  ASSUME IInv, NEW j \in Jobs,
         Start(j) \/ ClearPrevious(j) \/ ClearFails(j) \/ StrayDelete(j)
  PROVE  TypeOK'
<1>1. CASE Start(j)
  BY <1>1 DEF IInv, TypeOK, Start, GoTo, run, Running, Length
<1>3. ASSUME NEW tables, Clear(j, tables)
      PROVE  staging' \in [Jobs -> SUBSET Rows] /\ errors' \in [Jobs -> SUBSET Nat]
  BY <1>3 DEF IInv, TypeOK, Clear, Set
<1>4. CASE ClearFails(j)
  <2>1. staging' \in [Jobs -> SUBSET Rows] /\ errors' \in [Jobs -> SUBSET Nat]
    BY <1>3, <1>4 DEF ClearFails
  <2>2. stray' \in [Jobs -> SUBSET Deletes]
    BY <1>4 DEF ClearFails, IInv, TypeOK, Deletes
  <2> QED
    BY <1>4, <2>1, <2>2 DEF IInv, TypeOK, ClearFails, GoTo, run, Running, Length
<1>5. CASE StrayDelete(j)
  <2>1. staging' \in [Jobs -> SUBSET Rows] /\ errors' \in [Jobs -> SUBSET Nat]
    BY <1>3, <1>5 DEF StrayDelete
  <2>2. stray' \in [Jobs -> SUBSET Deletes]
    BY <1>5 DEF StrayDelete, IInv, TypeOK
  <2> QED
    BY <1>5, <2>1, <2>2 DEF IInv, TypeOK, StrayDelete, run, Running, Length
<1>2. CASE ClearPrevious(j)
  <2>1. BulkOK' /\ \A k \in Jobs \ {j} : bulk'[k] = bulk[k]
    BY <1>2, OpenFacts DEF ClearPrevious, IInv
  <2>2. \A k \in Jobs : totals[k].read <= Length(k)'
    <3>1. Length(j)' \in Nat
      BY <2>1 DEF BulkOK, Length
    <3>2. totals[j].read = 0
      BY <1>2 DEF ClearPrevious, IInv, JobInv, FreshStart, Zero
    <3>3. \A k \in Jobs \ {j} : Length(k)' = Length(k) /\ totals[k].read <= Length(k)
      BY <2>1 DEF IInv, TypeOK, Length
    <3> QED
      BY <3>1, <3>2, <3>3
  <2> QED
    BY <1>2, <2>2 DEF IInv, TypeOK, ClearPrevious, Clear, Deletes, GoTo, Set, run, Running
<1> QED
  BY <1>1, <1>2, <1>4, <1>5

LEMMA ReadTyped ==
  ASSUME IInv, NEW j \in Jobs, ReadBad(j) \/ ReadGood(j) \/ ReadEnd(j) \/ Progress(j)
  PROVE  TypeOK'
<1>1. Length(j) \in Nat /\ bulk' = bulk
  BY InputFacts DEF IInv, ReadBad, ReadGood, ReadEnd, Progress
<1>2. totals \in [Jobs -> Totals] /\ totals[j].read \in Nat
  BY DEF IInv, TypeOK, Totals, Counts
<1>3. CASE ReadBad(j)
  <2>1. Moves(j, 1, 0, 1)
    BY <1>3, TotalsMove
  <2>2. \A k \in Jobs : /\ totals'[k].read <= Length(k)'
                        /\ 1..totals[k].read \subseteq 1..totals'[k].read
    BY <1>3, <2>1, MovesBound DEF ReadBad
  <2>3. NextLine(j) \in Nat
    BY <1>2 DEF NextLine
  <2>4. totals' \in [Jobs -> Totals]
    BY <2>1 DEF Moves
  <2> QED
    BY <1>3, <2>2, <2>3, <2>4 DEF IInv, TypeOK, ReadBad
<1>4. CASE ReadGood(j)
  <2>1. Moves(j, 1, 1, 0)
    BY <1>4, TotalsMove
  <2>2. /\ totals' \in [Jobs -> Totals]
        /\ totals'[j].read \in Nat
        /\ \A k \in Jobs : /\ totals'[k].read <= Length(k)'
                           /\ 1..totals[k].read \subseteq 1..totals'[k].read
    BY <1>4, <2>1, MovesBound DEF ReadGood, Moves
  <2>3. \A k \in Jobs \ {j} : totals'[k] = totals[k] /\ buffer'[k] = buffer[k]
    BY <1>2, <1>4, <2>1 DEF ReadGood, IInv, TypeOK, Moves
  <2>4. /\ NextLine(j) \in 1..totals'[j].read
        /\ buffer'[j] = buffer[j] \cup {NextLine(j)}
    BY <1>2, <1>4, <2>1 DEF ReadGood, IInv, TypeOK, NextLine, Moves
  <2>5. Cardinality(buffer'[j]) <= FlushSize
    <3>1. Cardinality(buffer[j]) < FlushSize
      BY <1>4 DEF IInv, JobInv, BatchesFit, ReadGood
    <3>2. IsFiniteSet(buffer[j]) /\ Cardinality(buffer[j]) \in Nat
      BY Finite
    <3>3. Cardinality(buffer[j] \cup {NextLine(j)}) \in
             {Cardinality(buffer[j]), Cardinality(buffer[j]) + 1}
      BY <3>2, FS_AddElement
    <3> QED
      BY <2>4, <3>1, <3>2, <3>3, PipelineAssumption
  <2>6. pc' \in [Jobs -> Vocabulary]
    BY <1>4 DEF IInv, TypeOK, ReadGood, GoTo, Running, Vocabulary
  <2> QED
    <3>1. \A k \in Jobs : /\ buffer'[k] \subseteq 1..totals'[k].read
                         /\ Cardinality(buffer'[k]) <= FlushSize
                         /\ todo'[k] \subseteq buffer'[k]
      BY <1>4, <2>2, <2>3, <2>4, <2>5 DEF IInv, TypeOK, ReadGood
    <3>2. buffer' \in [Jobs -> SUBSET Nat]
      BY <1>4, <2>2, <2>4 DEF IInv, TypeOK, ReadGood
    <3> QED
      BY <1>4, <2>2, <2>6, <3>1, <3>2 DEF IInv, TypeOK, ReadGood, Vocabulary
<1>5. CASE ReadEnd(j) \/ Progress(j)
  BY <1>5 DEF IInv, TypeOK, ReadEnd, Progress, GoTo, Set, Staged, Running, run, Length
<1> QED
  BY <1>3, <1>4, <1>5

LEMMA BatchTyped ==
  ASSUME IInv, NEW j \in Jobs,
         Lookup(j) \/ WriteItem(j) \/ RejectItem(j) \/ CopyBatch(j)
  PROVE  TypeOK'
<1>1. CASE Lookup(j)
  BY <1>1 DEF IInv, TypeOK, Lookup, GoTo, Set, Running, Length
<1>2. CASE WriteItem(j)
  <2>1. PICK n \in todo[j] : /\ batch' = [batch EXCEPT ![j] = @ \cup {RowOf(j, n)}]
                             /\ todo' = [todo EXCEPT ![j] = @ \ {n}]
    BY <1>2 DEF WriteItem
  <2>2. RowOf(j, n) \in Rows
    <3>1. n \in Lines(j) /\ n \in Nat \ {0}
      BY <2>1, InputFacts DEF IInv, TypeOK, Totals, Counts, Lines
    <3>2. Record(j, n) \in Records
      BY <2>1, <3>1, InputFacts DEF IInv, TypeOK, JobInv, PendingAreGood
    <3>3. found[j] \in Tables
      BY DEF IInv, TypeOK
    <3>4. Resolved(found[j], Entity(j), Record(j, n)) \in Names
      BY <3>2, <3>3 DEF Resolved, Owners, Records
    <3> QED
      BY <3>1, <3>2, <3>4 DEF RowOf, Rows, Records
  <2> QED
    BY <1>2, <2>1, <2>2 DEF IInv, TypeOK, WriteItem, Length
<1>3. CASE RejectItem(j)
  <2>1. PICK n \in todo[j] : /\ errors' = [errors EXCEPT ![j] = @ \cup {n}]
                             /\ todo' = [todo EXCEPT ![j] = @ \ {n}]
    BY <1>3 DEF RejectItem
  <2>2. totals' \in [Jobs -> Totals] /\ \A k \in Jobs : totals'[k].read = totals[k].read
    BY <1>3, TotalsMove, StillRead
  <2>3. errors' \in [Jobs -> SUBSET Nat] /\ todo' \in [Jobs -> SUBSET Nat]
    BY <2>1 DEF IInv, TypeOK
  <2>4. \A k \in Jobs : todo'[k] \subseteq todo[k] /\ Length(k)' = Length(k)
    BY <1>3, <2>1 DEF IInv, TypeOK, RejectItem, Length
  <2> QED
    BY <1>3, <2>2, <2>3, <2>4 DEF IInv, TypeOK, RejectItem
<1>4. CASE CopyBatch(j)
  BY <1>4, FS_EmptySet, PipelineAssumption
     DEF IInv, TypeOK, CopyBatch, GoTo, Set, Staged, Running, Length
<1> QED
  BY <1>1, <1>2, <1>3, <1>4

LEMMA MergeTyped ==
  ASSUME IInv, NEW j \in Jobs,
         RejectSlugs(j) \/ Merge(j) \/ MergeRefused(j) \/ Save(j) \/ Tidy(j)
  PROVE  TypeOK'
<1> DEFINE conflicts == SlugConflicts(db["articles"], staging[j])
<1>1. CASE RejectSlugs(j)
  <2>1. totals' \in [Jobs -> Totals] /\ \A k \in Jobs : totals'[k].read = totals[k].read
    BY <1>1, TotalsMove, StillRead
  <2>2. {r.line : r \in conflicts} \subseteq Nat
    BY DEF SlugConflicts, IInv, TypeOK, Rows
  <2>3. errors' \in [Jobs -> SUBSET Nat] /\ staging' \in [Jobs -> SUBSET Rows]
    BY <1>1, <2>2 DEF RejectSlugs, IInv, TypeOK
  <2> QED
    BY <1>1, <2>1, <2>3 DEF IInv, TypeOK, RejectSlugs, GoTo, Running, Length
<1>2. CASE Merge(j) \/ MergeRefused(j)
  <2>1. ASSUME Merge(j) PROVE db' \in Tables /\ merged' \in [Jobs -> SUBSET Nat]
    <3>1. {r.line : r \in staging[j]} \subseteq Nat
      BY DEF IInv, TypeOK, Rows
    <3>2. Merged(db[Entity(j)], staging[j]) \in [Names -> Names \cup {NoName}]
      BY InputFacts DEF Merged, IInv, TypeOK, Tables, Rows
    <3> QED
      BY <2>1, <3>1, <3>2, InputFacts DEF Merge, IInv, TypeOK, Tables
  <2> QED
    BY <1>2, <2>1 DEF IInv, TypeOK, Merge, MergeRefused, GoTo, run, Running, Length
<1>3. CASE Save(j)
  <2>1. totals' \in [Jobs -> Totals] /\ \A k \in Jobs : totals'[k].read = totals[k].read
    BY <1>3, TotalsMove, StillRead
  <2> QED
    BY <1>3, <2>1 DEF IInv, TypeOK, Save, GoTo, Set, Running, Length
<1>4. CASE Tidy(j)
  BY <1>4 DEF IInv, TypeOK, Tidy, GoTo, Set, run, Running, Length
<1> QED
  BY <1>1, <1>2, <1>3, <1>4

LEMMA EndTyped ==
  ASSUME IInv, NEW j \in Jobs,
         Complete(j) \/ Ack(j) \/ Catch(j) \/ StatementFails(j) \/ Crash(j)
  PROVE  TypeOK'
<1>1. ASSUME NEW l \in Vocabulary, EndRun(j, l)
      PROVE  /\ pc' \in [Jobs -> Vocabulary]
             /\ totals' \in [Jobs -> Totals]
             /\ buffer' \in [Jobs -> SUBSET Nat]
             /\ todo' \in [Jobs -> SUBSET Nat]
             /\ batch' \in [Jobs -> SUBSET Rows]
             /\ \A k \in Jobs :
                  /\ totals'[k].read <= Length(k)'
                  /\ buffer'[k] \subseteq 1..totals'[k].read
                  /\ Cardinality(buffer'[k]) <= FlushSize
                  /\ todo'[k] \subseteq buffer'[k]
  <2>1. bulk' = bulk /\ Length(j) \in Nat
    BY <1>1, InputFacts DEF EndRun, IInv
  <2>2. pc' \in [Jobs -> Vocabulary] /\ totals' \in [Jobs -> Totals]
    BY <1>1 DEF EndRun, GoTo, Set, IInv, TypeOK, Vocabulary, Totals, Counts, Zero
  <2>3. ASSUME NEW k \in Jobs, k # j
        PROVE  totals'[k] = totals[k] /\ buffer'[k] = buffer[k] /\ todo'[k] = todo[k]
    BY <1>1, <2>3 DEF EndRun, Set, IInv, TypeOK
  <2>4. totals'[j].read = 0 /\ buffer'[j] = {} /\ todo'[j] = {}
    BY <1>1 DEF EndRun, Set, IInv, TypeOK, Zero
  <2> QED
    BY <1>1, <2>1, <2>2, <2>3, <2>4, FS_EmptySet, PipelineAssumption
       DEF EndRun, Set, IInv, TypeOK, Length
<1>2. CASE Complete(j)
  BY <1>1, <1>2 DEF IInv, TypeOK, Complete, EndRun, Set, Vocabulary, Running
<1>3. CASE Catch(j)
  <2>1. attempts' \in [Jobs -> 0..MaxAttempts]
    BY <1>3, PipelineAssumption
       DEF Catch, IInv, TypeOK, JobInv, AttemptsLeft, Running
  <2>2. staging' \in [Jobs -> SUBSET Rows]
    BY <1>3 DEF Catch, Set, IInv, TypeOK
  <2>3. EndRun(j, "waiting") \/ EndRun(j, "failed")
    BY <1>3 DEF Catch
  <2> QED
    BY <1>1, <1>3, <2>1, <2>2, <2>3 DEF IInv, TypeOK, Catch, EndRun, Vocabulary
<1>4. CASE StatementFails(j)
  BY <1>4 DEF IInv, TypeOK, StatementFails, GoTo, run, Running, Length
<1>5. CASE Crash(j)
  <2>1. crashes' \in [Jobs -> 0..MaxCrashes]
    BY <1>5, PipelineAssumption DEF Crash, IInv, TypeOK
  <2> QED
    BY <1>1, <1>5, <2>1 DEF IInv, TypeOK, Crash, EndRun, Vocabulary
<1>6. CASE Ack(j)
  BY <1>6 DEF IInv, TypeOK, Ack, GoTo, run, Length
<1> QED
  BY <1>2, <1>3, <1>4, <1>5, <1>6

-----------------------------------------------------------------------------
(* Every step keeps the invariant of the job that takes it.                *)
LEMMA Known ==
  ASSUME IInv, NEW j \in Jobs
  PROVE  /\ totals[j].read \in Nat /\ totals[j].valid \in Nat
         /\ totals[j].failed \in Nat /\ totals[j].written \in Nat
         /\ Length(j) \in Nat /\ totals[j].read <= Length(j)
         /\ buffer[j] \subseteq 1..totals[j].read /\ todo[j] \subseteq buffer[j]
         /\ FlushSize \in Nat \ {0}
         /\ FreshStart(j) /\ AttemptsLeft(j)
         /\ PendingAreGood(j) /\ KeptAreGood(j) /\ OneRowPerLine(j) /\ LinesAccounted(j)
         /\ CountsFit(j) /\ BatchesFit(j) /\ Reported(j)
BY InputFacts, PipelineAssumption DEF IInv, TypeOK, Totals, Counts, JobInv

LEMMA StartKeeps ==
  ASSUME NoStrays, IInv, NEW j \in Jobs,
         Start(j) \/ ClearPrevious(j) \/ ClearFails(j) \/ StrayDelete(j)
  PROVE  JobInv(j)'
<1>1. CASE Start(j)
  <2>1. /\ pc[j] = "waiting" /\ pc'[j] = "clear"
        /\ UNCHANGED <<bulk, run, staging, errors, saved, attempts>>
    BY <1>1 DEF Start, GoTo, IInv, TypeOK
  <2> QED
    BY <2>1, Known DEF run, JobInv, FreshStart, AttemptsLeft, PendingAreGood, KeptAreGood,
       OneRowPerLine, LinesAccounted, CountsFit, BatchesFit, Reported, MarkedCompleted, Kept,
       Running, Counting, Reading, Record
<1>2. CASE ClearPrevious(j)
  <2>1. /\ pc[j] = "clear" /\ pc'[j] = "read" /\ attempts' = attempts
        /\ totals'[j] = Zero /\ buffer'[j] = {} /\ todo'[j] = {} /\ batch'[j] = {}
        /\ staging'[j] = {} /\ errors'[j] = {}
    BY <1>2, Known DEF ClearPrevious, Clear, Deletes, GoTo, Set, IInv, TypeOK, FreshStart, run
  <2>2. Kept(j)' = {} /\ LinesOf(Kept(j)') = {} /\ Pending(j)' = {}
    BY <2>1 DEF Kept, LinesOf, Pending
  <2>3. Cardinality({}) = 0
    BY FS_EmptySet
  <2> QED
    BY <2>1, <2>2, <2>3, Known
       DEF Zero, JobInv, FreshStart, AttemptsLeft, PendingAreGood, KeptAreGood, OneRowPerLine,
       LinesOf, LinesAccounted, CountsFit, BatchesFit, Reported, MarkedCompleted, Running,
       Counting, Reading
<1>3. CASE ClearFails(j) \/ StrayDelete(j)
  <2>1. /\ bulk' = bulk /\ UNCHANGED <<run, saved, attempts>> /\ staging'[j] \subseteq staging[j]
        /\ \/ pc[j] = "clear" /\ pc'[j] = "catch"
           \/ pc[j] \in {"catch", "waiting", "failed"} /\ pc'[j] = pc[j]
    BY <1>3 DEF NoStrays, ClearFails, StrayDelete, Clear, GoTo, Set, IInv, TypeOK
  <2>2. Kept(j)' \subseteq Kept(j)
    BY <2>1 DEF Kept, run
  <2> QED
    BY <2>1, <2>2, Known
       DEF run, JobInv, FreshStart, AttemptsLeft, PendingAreGood, KeptAreGood, OneRowPerLine,
       Record, LinesAccounted, CountsFit, BatchesFit, Reported, MarkedCompleted, Running,
       Counting, Reading
<1> QED
  BY <1>1, <1>2, <1>3

LEMMA ReadBadKeeps ==
  ASSUME IInv, NEW j \in Jobs, ReadBad(j)
  PROVE  JobInv(j)'
<1> DEFINE n == totals[j].read + 1
<1>1. /\ pc[j] = "read" /\ pc'[j] = "read" /\ errors'[j] = errors[j] \cup {n}
      /\ UNCHANGED <<bulk, buffer, todo, batch, staging, saved, attempts>>
  BY DEF ReadBad, NextLine, IInv, TypeOK
<1>2. /\ totals'[j].read = n /\ totals'[j].valid = totals[j].valid
      /\ totals'[j].failed = totals[j].failed + 1
  BY TotalsMove, Known DEF Moves
<1>3. UNCHANGED <<Kept(j), Pending(j)>>
  BY <1>1 DEF Kept, Pending
<1>4. 1..n = 1..totals[j].read \cup {n} /\ n \notin 1..totals[j].read
  BY Known
<1>5. LinesAccounted(j)'
  <2>1. errors[j] \cup LinesOf(Kept(j)) \cup Pending(j) = 1..totals[j].read
    BY <1>1, Known DEF LinesAccounted, Counting, Reading
  <2> QED
    BY <1>1, <1>2, <1>3, <1>4, <2>1, Known DEF LinesAccounted, Counting, Reading, LinesOf
<1>6. Cardinality(errors'[j]) = Cardinality(errors[j]) + 1
  <2>1. n \notin errors[j] /\ IsFiniteSet(errors[j])
    BY <1>1, <1>4, Known, Finite DEF LinesAccounted, Counting, Reading
  <2>2. Cardinality(errors[j] \cup {n}) = Cardinality(errors[j]) + 1
    BY <2>1, FS_AddElement
  <2> QED
    BY <1>1, <2>2
<1>7. CountsFit(j)'
  BY <1>1, <1>2, <1>3, <1>6, Known DEF CountsFit, Counting, Reading
<1> QED
  BY <1>1, <1>3, <1>5, <1>7, Known
     DEF JobInv, FreshStart, AttemptsLeft, PendingAreGood, KeptAreGood, OneRowPerLine,
     BatchesFit, Reported, MarkedCompleted, Running, Counting, Reading, Record

LEMMA ReadGoodKeeps ==
  ASSUME IInv, NEW j \in Jobs, ReadGood(j)
  PROVE  JobInv(j)'
<1> DEFINE n == totals[j].read + 1
<1>1. /\ pc[j] = "read" /\ buffer'[j] = buffer[j] \cup {n} /\ Record(j, n).good
      /\ UNCHANGED <<bulk, errors, todo, batch, staging, saved, attempts>>
      /\ pc'[j] = IF Cardinality(buffer'[j]) >= FlushSize THEN "lookup" ELSE "progress"
  BY DEF ReadGood, NextLine, GoTo, IInv, TypeOK
<1>2. /\ totals'[j].read = n /\ totals'[j].valid = totals[j].valid + 1
      /\ totals'[j].failed = totals[j].failed
  BY TotalsMove, Known DEF Moves
<1>3. UNCHANGED Kept(j) /\ Pending(j) = buffer[j] /\ Pending(j)' = buffer'[j]
  BY <1>1 DEF Kept, Pending
<1>4. 1..n = 1..totals[j].read \cup {n} /\ n \notin 1..totals[j].read
  BY Known
<1>5. LinesAccounted(j)'
  <2>1. errors[j] \cup LinesOf(Kept(j)) \cup Pending(j) = 1..totals[j].read
    BY <1>1, Known DEF LinesAccounted, Counting, Reading
  <2> QED
    BY <1>1, <1>2, <1>3, <1>4, <2>1, Known DEF LinesAccounted, Counting, Reading, LinesOf
<1>6. /\ Cardinality(buffer'[j]) = Cardinality(buffer[j]) + 1
      /\ Cardinality(buffer[j]) \in Nat
      /\ Cardinality(Kept(j)) \in Nat
  <2>1. n \notin buffer[j] /\ IsFiniteSet(buffer[j])
    BY <1>4, Known, Finite
  <2>2. Cardinality(buffer[j] \cup {n}) = Cardinality(buffer[j]) + 1
    BY <2>1, FS_AddElement
  <2> QED
    BY <1>1, <2>2, Finite DEF Counting, Reading
<1>7. CountsFit(j)'
  BY <1>1, <1>2, <1>3, <1>6, Known DEF CountsFit, Counting, Reading
<1>8. BatchesFit(j)'
  BY <1>1, <1>6, Known DEF BatchesFit, Counting, Reading
<1>9. PendingAreGood(j)'
  BY <1>1, Known DEF PendingAreGood, Record
<1> QED
  BY <1>1, <1>3, <1>5, <1>7, <1>8, <1>9, Known
     DEF JobInv, FreshStart, AttemptsLeft, OneRowPerLine, KeptAreGood, Record, Reported,
     MarkedCompleted, Running

LEMMA LoopKeeps ==
  ASSUME IInv, NEW j \in Jobs, ReadEnd(j) \/ Progress(j)
  PROVE  JobInv(j)'
<1>1. /\ UNCHANGED <<bulk, run, staging, errors, attempts>>
      /\ \/ pc[j] = "progress" /\ pc'[j] = "read"
         \/ /\ pc[j] = "read" /\ pc'[j] \in {"lookup", "slugs", "merge"}
            /\ pc'[j] # "lookup" => buffer[j] = {}
            /\ totals[j].read = Length(j)
  <2>1. ReadEnd(j) => totals[j].read = Length(j)
    BY Known DEF ReadEnd, NextLine, Lines
  <2> QED
    BY <2>1 DEF ReadEnd, Progress, Staged, GoTo, IInv, TypeOK
<1>2. UNCHANGED <<Kept(j), buffer, todo, batch, totals, Length(j)>> /\ Pending(j)' = Pending(j)
  BY <1>1 DEF Kept, Pending, run, Length
<1>3. LinesAccounted(j)' /\ CountsFit(j)'
  BY <1>1, <1>2, Known DEF LinesAccounted, CountsFit, Counting, Reading, LinesOf
<1>4. BatchesFit(j)'
  BY <1>1, <1>2, Known DEF BatchesFit, Counting, Reading
<1> QED
  BY <1>1, <1>2, <1>3, <1>4, Known
     DEF JobInv, FreshStart, AttemptsLeft, OneRowPerLine, PendingAreGood, KeptAreGood, Record,
     Reported, MarkedCompleted, Running

LEMMA LookupKeeps ==
  ASSUME IInv, NEW j \in Jobs, Lookup(j)
  PROVE  JobInv(j)'
<1>1. /\ pc[j] = "lookup" /\ pc'[j] = "items" /\ todo'[j] = buffer[j]
      /\ UNCHANGED <<bulk, totals, buffer, batch, staging, errors, saved, attempts>>
  BY DEF Lookup, GoTo, Set, IInv, TypeOK
<1>2. UNCHANGED <<Kept(j), Length(j)>> /\ Pending(j)' = Pending(j)
  BY <1>1 DEF Kept, Pending, Length
<1>3. LinesAccounted(j)' /\ CountsFit(j)' /\ BatchesFit(j)'
  BY <1>1, <1>2, Known DEF LinesAccounted, CountsFit, BatchesFit, Counting, Reading, LinesOf
<1> QED
  BY <1>1, <1>2, <1>3, Known
     DEF JobInv, FreshStart, AttemptsLeft, OneRowPerLine, PendingAreGood, KeptAreGood, Record,
     Reported, MarkedCompleted, Running

LEMMA WriteItemKeeps ==
  ASSUME IInv, NEW j \in Jobs, WriteItem(j)
  PROVE  JobInv(j)'
<1>1. PICK n \in todo[j] : /\ batch' = [batch EXCEPT ![j] = @ \cup {RowOf(j, n)}]
                           /\ todo' = [todo EXCEPT ![j] = @ \ {n}]
  BY DEF WriteItem
<1> DEFINE row == RowOf(j, n)
<1>2. /\ pc[j] = "items" /\ pc'[j] = "items"
      /\ batch'[j] = batch[j] \cup {row} /\ todo'[j] = todo[j] \ {n}
      /\ UNCHANGED <<bulk, totals, buffer, staging, errors, saved, attempts>>
  BY <1>1 DEF WriteItem, IInv, TypeOK
<1>3. row.line = n
  BY DEF RowOf
<1>4. /\ Pending(j) = todo[j] /\ Pending(j)' = todo[j] \ {n}
      /\ Kept(j)' = Kept(j) \cup {row}
  BY <1>2 DEF Pending, Kept
<1>5. LinesOf(Kept(j))' = LinesOf(Kept(j)) \cup {n}
  BY <1>3, <1>4 DEF LinesOf
<1>6. /\ n \notin LinesOf(Kept(j)) /\ row \notin Kept(j)
  BY <1>2, <1>3, <1>4, Known DEF LinesAccounted, LinesOf, Counting, Reading
<1>7. LinesAccounted(j)'
  <2>1. /\ errors[j] \cup LinesOf(Kept(j)) \cup todo[j] = 1..totals[j].read
        /\ errors[j] \cap LinesOf(Kept(j)) = {}
        /\ errors[j] \cap todo[j] = {}
        /\ LinesOf(Kept(j)) \cap todo[j] = {}
    BY <1>2, <1>4, Known DEF LinesAccounted, Counting, Reading
  <2> DEFINE kept == LinesOf(Kept(j))
  <2>2. /\ errors[j] \cup (kept \cup {n}) \cup (todo[j] \ {n}) = 1..totals[j].read
        /\ errors[j] \cap (kept \cup {n}) = {}
        /\ errors[j] \cap (todo[j] \ {n}) = {}
        /\ (kept \cup {n}) \cap (todo[j] \ {n}) = {}
    BY <2>1, Zenon
  <2> QED
    BY <1>2, <1>4, <1>5, <2>2 DEF LinesAccounted
<1>8. OneRowPerLine(j)'
  BY <1>3, <1>4, <1>6, Known DEF OneRowPerLine, LinesOf
<1>11. KeptAreGood(j)'
  BY <1>2, <1>3, <1>4, Known DEF KeptAreGood, PendingAreGood, Record
<1>9. CountsFit(j)'
  <2>1. Cardinality(Kept(j) \cup {row}) = Cardinality(Kept(j)) + 1
    BY <1>2, <1>6, Finite, FS_AddElement DEF Counting, Reading
  <2>2. Cardinality(todo[j] \ {n}) = Cardinality(todo[j]) - 1
    BY Finite, FS_RemoveElement
  <2>3. Cardinality(Kept(j)) \in Nat /\ Cardinality(todo[j]) \in Nat
    BY <1>2, Finite DEF Counting, Reading
  <2> QED
    BY <1>2, <1>4, <2>1, <2>2, <2>3, Known DEF CountsFit, Counting, Reading
<1>10. BatchesFit(j)'
  BY <1>2, Known DEF BatchesFit, Counting, Reading, Length
<1> QED
  BY <1>2, <1>7, <1>8, <1>9, <1>10, <1>11, Known
     DEF JobInv, FreshStart, AttemptsLeft, PendingAreGood, Record,
     Reported, MarkedCompleted, Running

LEMMA RejectItemKeeps ==
  ASSUME IInv, NEW j \in Jobs, RejectItem(j)
  PROVE  JobInv(j)'
<1>1. PICK n \in todo[j] : /\ errors' = [errors EXCEPT ![j] = @ \cup {n}]
                           /\ todo' = [todo EXCEPT ![j] = @ \ {n}]
  BY DEF RejectItem
<1>2. /\ pc[j] = "items" /\ pc'[j] = "items"
      /\ errors'[j] = errors[j] \cup {n} /\ todo'[j] = todo[j] \ {n}
      /\ UNCHANGED <<bulk, buffer, batch, staging, saved, attempts>>
  BY <1>1 DEF RejectItem, IInv, TypeOK
<1>3. /\ totals'[j].read = totals[j].read
      /\ totals'[j].valid = totals[j].valid + -1
      /\ totals'[j].failed = totals[j].failed + 1
  BY TotalsMove, Known DEF Moves
<1>4. /\ Pending(j) = todo[j] /\ Pending(j)' = todo[j] \ {n}
      /\ UNCHANGED <<Kept(j), Length(j), LinesOf(Kept(j))>>
  BY <1>2 DEF Pending, Kept, Length, LinesOf
<1>5. /\ errors[j] \cup LinesOf(Kept(j)) \cup todo[j] = 1..totals[j].read
      /\ errors[j] \cap LinesOf(Kept(j)) = {}
      /\ errors[j] \cap todo[j] = {}
      /\ LinesOf(Kept(j)) \cap todo[j] = {}
  BY <1>2, <1>4, Known DEF LinesAccounted, Counting, Reading
<1>6. LinesAccounted(j)'
  BY <1>2, <1>3, <1>4, <1>5 DEF LinesAccounted
<1>7. CountsFit(j)'
  <2>1. Cardinality(errors[j] \cup {n}) = Cardinality(errors[j]) + 1
    BY <1>2, <1>5, Finite, FS_AddElement DEF Counting, Reading
  <2>2. Cardinality(todo[j] \ {n}) = Cardinality(todo[j]) - 1
    BY Finite, FS_RemoveElement
  <2>3. Cardinality(Kept(j)) \in Nat /\ Cardinality(todo[j]) \in Nat
    BY <1>2, Finite DEF Counting, Reading
  <2> QED
    BY <1>2, <1>3, <1>4, <2>1, <2>2, <2>3, Known DEF CountsFit, Counting, Reading
<1>8. BatchesFit(j)'
  BY <1>2, <1>3, <1>4, Known DEF BatchesFit, Counting, Reading
<1> QED
  BY <1>2, <1>4, <1>6, <1>7, <1>8, Known
     DEF JobInv, FreshStart, AttemptsLeft, OneRowPerLine, PendingAreGood, KeptAreGood, Record,
     Reported, MarkedCompleted, Running

LEMMA CopyBatchKeeps ==
  ASSUME IInv, NEW j \in Jobs, CopyBatch(j)
  PROVE  JobInv(j)'
<1>1. /\ pc[j] = "items" /\ todo[j] = {}
      /\ staging'[j] = staging[j] \cup batch[j] /\ batch'[j] = {} /\ buffer'[j] = {}
      /\ pc'[j] \in {"progress", "slugs", "merge"}
      /\ pc'[j] # "progress" => Cardinality(buffer[j]) # FlushSize
      /\ UNCHANGED <<bulk, totals, todo, errors, saved, attempts>>
  BY DEF CopyBatch, GoTo, Set, Staged, IInv, TypeOK
<1>2. /\ Pending(j) = {} /\ Pending(j)' = {} /\ Cardinality({}) = 0
      /\ UNCHANGED <<Kept(j), Length(j), LinesOf(Kept(j))>>
  BY <1>1, FS_EmptySet DEF Pending, Kept, Length, LinesOf
<1>3. LinesAccounted(j)' /\ CountsFit(j)'
  BY <1>1, <1>2, Known DEF LinesAccounted, CountsFit, Counting, Reading
<1>4. BatchesFit(j)'
  BY <1>1, <1>2, Known DEF BatchesFit, Counting, Reading
<1> QED
  BY <1>1, <1>2, <1>3, <1>4, Known
     DEF JobInv, FreshStart, AttemptsLeft, OneRowPerLine, PendingAreGood, KeptAreGood, Record,
     Reported, MarkedCompleted, Running

LEMMA DisjointUnion ==
  ASSUME NEW S, NEW T, IsFiniteSet(S), IsFiniteSet(T), S \cap T = {}
  PROVE  /\ Cardinality(S) \in Nat /\ Cardinality(T) \in Nat
         /\ Cardinality(S \cup T) = Cardinality(S) + Cardinality(T)
<1>1. Cardinality(S \cup T) = Cardinality(S) + Cardinality(T) - Cardinality(S \cap T)
  BY FS_Union
<1>2. Cardinality(S \cap T) = 0
  BY FS_EmptySet
<1>3. Cardinality(S) \in Nat /\ Cardinality(T) \in Nat
  BY FS_CardinalityType
<1> QED
  BY <1>1, <1>2, <1>3

(* Past the last batch a run holds nothing but its staging rows.           *)
LEMMA Settled ==
  ASSUME IInv, NEW j \in Jobs, pc[j] \in Counting \ Reading
  PROVE  /\ todo[j] = {} /\ batch[j] = {} /\ buffer[j] = {}
         /\ totals[j].read = Length(j)
         /\ Kept(j) = staging[j]
         /\ errors[j] \cup LinesOf(staging[j]) = 1..Length(j)
         /\ errors[j] \cap LinesOf(staging[j]) = {}
         /\ totals[j].failed = Cardinality(errors[j])
<1>1. /\ todo[j] = {} /\ batch[j] = {} /\ buffer[j] = {} /\ totals[j].read = Length(j)
      /\ totals[j].failed = Cardinality(errors[j])
  BY Known DEF BatchesFit, CountsFit, Counting, Reading
<1>2. Kept(j) = staging[j] /\ Pending(j) = {}
  BY <1>1 DEF Kept, Pending
<1> QED
  BY <1>1, <1>2, Known DEF LinesAccounted

LEMMA RejectSlugsKeeps ==
  ASSUME IInv, NEW j \in Jobs, RejectSlugs(j)
  PROVE  JobInv(j)'
<1> DEFINE conflicts == SlugConflicts(db["articles"], staging[j])
           dropped == LinesOf(conflicts)
           kept == staging[j] \ conflicts
<1>1. /\ pc[j] = "slugs" /\ pc'[j] = "merge"
      /\ staging'[j] = kept /\ errors'[j] = errors[j] \cup dropped
      /\ UNCHANGED <<bulk, buffer, todo, batch, saved, attempts>>
  BY DEF RejectSlugs, GoTo, LinesOf, IInv, TypeOK
<1>2. /\ totals'[j].read = totals[j].read
      /\ totals'[j].failed = totals[j].failed + Cardinality(conflicts)
  BY TotalsMove, Known DEF Moves
<1>3. conflicts \subseteq staging[j]
  BY DEF SlugConflicts
<1> HIDE DEF conflicts
<1>4. /\ todo[j] = {} /\ batch[j] = {} /\ buffer[j] = {}
      /\ totals[j].read = Length(j)
      /\ Kept(j) = staging[j]
      /\ errors[j] \cup LinesOf(staging[j]) = 1..Length(j)
      /\ errors[j] \cap LinesOf(staging[j]) = {}
      /\ totals[j].failed = Cardinality(errors[j])
  BY <1>1, Settled DEF Counting, Reading
<1>5. \A r, s \in staging[j] : r.line = s.line => r = s
  BY <1>4, Known DEF OneRowPerLine
<1>6. /\ LinesOf(staging[j]) = dropped \cup LinesOf(kept)
      /\ dropped \cap LinesOf(kept) = {}
  BY <1>3, <1>5 DEF LinesOf
<1>7. Kept(j)' = kept /\ Pending(j)' = {} /\ UNCHANGED Length(j)
  BY <1>1, <1>4 DEF Kept, Pending, Length
<1>8. LinesAccounted(j)'
  <2>1. /\ (errors[j] \cup dropped) \cup LinesOf(kept) = 1..totals[j].read
        /\ (errors[j] \cup dropped) \cap LinesOf(kept) = {}
    <3> HIDE DEF dropped, kept
    <3> QED
      BY <1>4, <1>6
  <2>2. LinesOf(Kept(j))' = LinesOf(kept)
    BY <1>7 DEF LinesOf
  <2> QED
    BY <1>1, <1>2, <1>7, <2>1, <2>2 DEF LinesAccounted
<1>9. Cardinality(errors[j] \cup dropped) = Cardinality(errors[j]) + Cardinality(conflicts)
  <2>1. IsFiniteSet(errors[j])
    BY <1>1, Finite DEF Counting, Reading
  <2>2. dropped \subseteq 1..Length(j) /\ errors[j] \cap dropped = {}
    BY <1>4, <1>6
  <2>3. /\ IsFiniteSet(dropped)
        /\ Cardinality(dropped) = Cardinality(conflicts)
    BY <1>3, <1>5, <2>2, Known, RowsAreCounted
  <2> HIDE DEF dropped
  <2>4. Cardinality(errors[j] \cup dropped) = Cardinality(errors[j]) + Cardinality(dropped)
    BY <2>1, <2>2, <2>3, DisjointUnion
  <2> QED
    BY <2>3, <2>4
<1>10. CountsFit(j)'
  BY <1>1, <1>2, <1>4, <1>9 DEF CountsFit, Counting, Reading
<1>11. BatchesFit(j)'
  BY <1>1, <1>2, <1>4, <1>7 DEF BatchesFit, Counting, Reading
<1>13. KeptAreGood(j)'
  BY <1>1, <1>4, <1>7, Known DEF KeptAreGood, Record
<1>12. OneRowPerLine(j)'
  BY <1>5, <1>7 DEF OneRowPerLine
<1> QED
  BY <1>1, <1>4, <1>8, <1>10, <1>11, <1>12, <1>13, Known
     DEF JobInv, FreshStart, AttemptsLeft, PendingAreGood, Record,
     Reported, MarkedCompleted, Running

(* A step that ends in the merge's outcome, or in the catch block.         *)
LEMMA Onward ==
  ASSUME IInv, NEW j \in Jobs,
         UNCHANGED <<bulk, run, staging, errors, saved, attempts>>,
         \/ pc[j] = "merge" /\ pc'[j] = "save"
         \/ pc[j] \in Running /\ pc'[j] = "catch"
  PROVE  JobInv(j)'
<1>1. UNCHANGED <<Kept(j), Length(j), totals, buffer, todo, batch>>
  BY DEF Kept, Length, run
<1>2. pc[j] = "merge" => Pending(j)' = Pending(j) /\ LinesOf(Kept(j))' = LinesOf(Kept(j))
  BY <1>1 DEF Pending, LinesOf
<1>3. LinesAccounted(j)' /\ CountsFit(j)' /\ BatchesFit(j)'
  BY <1>1, <1>2, Known DEF LinesAccounted, CountsFit, BatchesFit, Counting, Reading
<1> QED
  BY <1>1, <1>3, Known
     DEF JobInv, FreshStart, AttemptsLeft, OneRowPerLine, PendingAreGood, KeptAreGood, Record,
     Reported, MarkedCompleted, Running

LEMMA MergeKeeps ==
  ASSUME IInv, NEW j \in Jobs, Merge(j) \/ MergeRefused(j) \/ StatementFails(j)
  PROVE  JobInv(j)'
<1>1. /\ UNCHANGED <<bulk, run, staging, errors, saved, attempts>>
      /\ \/ pc[j] = "merge" /\ pc'[j] = "save"
         \/ pc[j] \in Running /\ pc'[j] = "catch"
  BY DEF Merge, MergeRefused, StatementFails, GoTo, Running, IInv, TypeOK
<1> QED
  BY <1>1, Onward

LEMMA SaveKeeps ==
  ASSUME IInv, NEW j \in Jobs, Save(j)
  PROVE  JobInv(j)'
<1>1. /\ pc[j] = "save" /\ pc'[j] = "tidy"
      /\ UNCHANGED <<bulk, buffer, todo, batch, staging, errors, attempts>>
  BY DEF Save, GoTo, IInv, TypeOK
<1>2. /\ totals'[j].read = totals[j].read
      /\ totals'[j].failed = totals[j].failed
      /\ totals'[j].written = Cardinality(staging[j])
  BY TotalsMove, Known DEF Moves
<1>3. UNCHANGED <<Kept(j), Length(j), LinesOf(Kept(j)), Pending(j)>>
  BY <1>1 DEF Kept, Length, LinesOf, Pending
<1>4. LinesAccounted(j)' /\ CountsFit(j)' /\ BatchesFit(j)'
  BY <1>1, <1>2, <1>3, Known DEF LinesAccounted, CountsFit, BatchesFit, Counting, Reading
<1> QED
  BY <1>1, <1>3, <1>4, Known
     DEF JobInv, FreshStart, AttemptsLeft, OneRowPerLine, PendingAreGood, KeptAreGood, Record,
     Reported, MarkedCompleted, Running

(* The rows written and the errors together are the lines of the file.     *)
LEMMA TidyKeeps ==
  ASSUME IInv, NEW j \in Jobs, Tidy(j)
  PROVE  JobInv(j)'
<1>1. /\ pc[j] = "tidy" /\ pc'[j] = "complete" /\ staging'[j] = {}
      /\ UNCHANGED <<bulk, totals, buffer, todo, batch, errors, saved, attempts>>
  BY DEF Tidy, GoTo, Set, run, IInv, TypeOK
<1>2. /\ batch[j] = {} /\ totals[j].read = Length(j) /\ Kept(j) = staging[j]
      /\ errors[j] \cup LinesOf(staging[j]) = 1..Length(j)
      /\ errors[j] \cap LinesOf(staging[j]) = {}
      /\ totals[j].failed = Cardinality(errors[j])
      /\ totals[j].written = Cardinality(staging[j])
  BY <1>1, Settled, Known DEF CountsFit, Counting, Reading
<1>3. totals[j].written = Length(j) - Cardinality(errors[j])
  <2>1. \A r, s \in staging[j] : r.line = s.line => r = s
    BY <1>2, Known DEF OneRowPerLine
  <2>2. /\ IsFiniteSet(LinesOf(staging[j]))
        /\ Cardinality(LinesOf(staging[j])) = Cardinality(staging[j])
    BY <1>2, <2>1, Known, RowsAreCounted
  <2>3. IsFiniteSet(errors[j])
    BY <1>1, Finite DEF Counting, Reading
  <2>4. /\ Cardinality(errors[j]) \in Nat /\ Cardinality(staging[j]) \in Nat
        /\ Cardinality(1..Length(j)) = Cardinality(errors[j]) + Cardinality(staging[j])
    <3> DEFINE kept == LinesOf(staging[j])
    <3>1. /\ IsFiniteSet(kept) /\ errors[j] \cap kept = {}
          /\ Cardinality(kept) = Cardinality(staging[j])
          /\ errors[j] \cup kept = 1..Length(j)
      BY <1>2, <2>2
    <3> HIDE DEF kept
    <3>2. /\ Cardinality(errors[j]) \in Nat /\ Cardinality(kept) \in Nat
          /\ Cardinality(errors[j] \cup kept) = Cardinality(errors[j]) + Cardinality(kept)
      BY <2>3, <3>1, DisjointUnion
    <3> QED
      BY <3>1, <3>2
  <2>5. Cardinality(1..Length(j)) = Length(j)
    BY Known, FS_Interval
  <2> QED
    BY <1>2, <2>4, <2>5
<1>4. \A n \in Lines(j) : ~Record(j, n).good => n \in errors[j]
  BY <1>2, Known DEF KeptAreGood, Lines, LinesOf
<1> QED
  BY <1>1, <1>2, <1>3, <1>4, Known
     DEF JobInv, FreshStart, AttemptsLeft, OneRowPerLine, PendingAreGood, KeptAreGood, Record,
     Kept, LinesAccounted, CountsFit, BatchesFit, Counting, Reading, Reported,
     MarkedCompleted, Describes, Length, Lines, Running

LEMMA EndKeeps ==
  ASSUME IInv, NEW j \in Jobs, Complete(j) \/ Catch(j) \/ Crash(j)
  PROVE  JobInv(j)'
<1>1. /\ bulk' = bulk /\ errors' = errors
      /\ totals'[j] = Zero /\ buffer'[j] = {} /\ todo'[j] = {} /\ batch'[j] = {}
      /\ staging'[j] \in {{}, staging[j]}
      /\ \/ /\ pc[j] = "complete" /\ pc'[j] = "ack"
            /\ saved'[j] = totals[j] /\ attempts'[j] = attempts[j]
         \/ pc'[j] = "failed"
         \/ pc'[j] = "waiting" /\ attempts'[j] < MaxAttempts
  BY Known DEF Complete, Catch, Crash, EndRun, GoTo, Set, AttemptsLeft, IInv, TypeOK
<1>2. Kept(j)' \subseteq Kept(j)
  BY <1>1 DEF Kept
<1>3. Reported(j)'
  BY <1>1, Known DEF Reported, MarkedCompleted, Describes, Length, Lines, Record
<1> QED
  BY <1>1, <1>2, <1>3, Known
     DEF JobInv, FreshStart, AttemptsLeft, OneRowPerLine, PendingAreGood, KeptAreGood, Record,
     LinesAccounted, CountsFit, BatchesFit, Counting, Reading, Running

LEMMA AckKeeps ==
  ASSUME IInv, NEW j \in Jobs, Ack(j)
  PROVE  JobInv(j)'
<1>1. /\ pc[j] = "ack" /\ pc'[j] = "completed"
      /\ UNCHANGED <<bulk, run, staging, errors, saved, attempts>>
  BY DEF Ack, GoTo, IInv, TypeOK
<1> QED
  BY <1>1, Known
     DEF run, JobInv, FreshStart, AttemptsLeft, OneRowPerLine, PendingAreGood, KeptAreGood,
     Record, Kept, LinesAccounted, CountsFit, BatchesFit, Counting, Reading, Reported,
     MarkedCompleted, Describes, Length, Lines, Running

-----------------------------------------------------------------------------
(* Of merges that are stuck some are aborted, and one ends.                *)
LEMMA DeadlockKeeps ==
  ASSUME IInv, NEW stuck \in SUBSET Jobs, NEW b \in stuck, NEW lost \in SUBSET (stuck \ {b}),
         MergeDeadlocks(stuck, lost, b)
  PROVE  IInv'
<1>1. /\ \A j \in stuck : pc[j] = "merge"
      /\ \A j \in Jobs : pc'[j] = pc[j] \/ (j \in stuck /\ pc'[j] \in {"catch", "save"})
      /\ pc' \in [Jobs -> Vocabulary]
      /\ UNCHANGED <<bulk, run, staging, errors, saved, attempts, crashes>>
  <2>1. pc' = [j \in Jobs |->
                 IF j \in lost \/ (j = b /\ ~MergeAccepts(db[Entity(b)], staging[b])) THEN "catch"
                 ELSE IF j = b THEN "save" ELSE pc[j]]
    BY DEF MergeDeadlocks
  <2>2. \A j \in Jobs : pc'[j] \in {"catch", "save", pc[j]} /\ (j \notin stuck => pc'[j] = pc[j])
    BY <2>1
  <2>3. pc' \in [Jobs -> Vocabulary]
    BY <2>1, <2>2 DEF IInv, TypeOK, Vocabulary, Running
  <2>4. \A j \in stuck : pc[j] = "merge"
    BY DEF MergeDeadlocks, Deadlocked
  <2>5. UNCHANGED <<bulk, run, staging, errors, saved, attempts, crashes>>
    BY DEF MergeDeadlocks
  <2> QED
    BY <2>2, <2>3, <2>4, <2>5
<1>2. db' \in Tables /\ merged' \in [Jobs -> SUBSET Nat]
  <2>1. {r.line : r \in staging[b]} \subseteq Nat
    BY DEF IInv, TypeOK, Rows
  <2>2. Merged(db[Entity(b)], staging[b]) \in [Names -> Names \cup {NoName}]
    BY InputFacts DEF Merged, IInv, TypeOK, Tables, Rows
  <2> QED
    BY <2>1, <2>2, InputFacts DEF MergeDeadlocks, IInv, TypeOK, Tables
<1>3. TypeOK'
  BY <1>1, <1>2 DEF MergeDeadlocks, IInv, TypeOK, run, Vocabulary, Length
<1>4. ASSUME NEW j \in Jobs PROVE JobInv(j)'
  <2>1. CASE j \in stuck /\ pc'[j] # pc[j]
    <3>1. \/ pc[j] = "merge" /\ pc'[j] = "save"
          \/ pc[j] \in Running /\ pc'[j] = "catch"
      BY <1>1, <2>1 DEF Running
    <3> QED
      BY <1>1, <3>1, Onward
  <2>2. CASE pc'[j] = pc[j]
    BY <1>1, <2>2, Frame DEF Same, run, IInv
  <2> QED
    BY <1>1, <2>1, <2>2
<1> QED
  BY <1>1, <1>3, <1>4 DEF IInv, BulkOK, Unbroken

LEMMA StepKeeps ==
  ASSUME NoStrays, IInv, NEW k \in Jobs, OwnStep(k)
  PROVE  IInv'
<1>1. TypeOK'
  BY StartTyped, ReadTyped, BatchTyped, MergeTyped, EndTyped DEF OwnStep, Step
<1>2. JobInv(k)'
  BY StartKeeps, ReadBadKeeps, ReadGoodKeeps, LoopKeeps, LookupKeeps, WriteItemKeeps,
     RejectItemKeeps, CopyBatchKeeps, RejectSlugsKeeps, MergeKeeps, SaveKeeps, TidyKeeps,
     EndKeeps, AckKeeps DEF OwnStep, Step
<1>3. ASSUME NEW j \in Jobs \ {k} PROVE JobInv(j)'
  BY OthersSame, Frame DEF IInv
<1>4. BulkOK'
  <2>1. ClearPrevious(k) => BulkOK'
    BY OpenFacts DEF ClearPrevious, IInv
  <2>2. ~ClearPrevious(k) => bulk' = bulk
    BY DEF OwnStep, Step, ClearFails, StrayDelete, EndRun, run, Start, ReadBad, ReadGood,
       ReadEnd, Progress, Lookup, WriteItem, RejectItem, CopyBatch, RejectSlugs, Merge,
       MergeRefused, Save, Tidy, Complete, Ack, Catch, StatementFails, Crash
  <2> QED
    BY <2>1, <2>2 DEF IInv, BulkOK, Unbroken
<1> QED
  BY <1>1, <1>2, <1>3, <1>4 DEF IInv

LEMMA InitHolds == Init => IInv
<1> SUFFICES ASSUME Init PROVE IInv
  OBVIOUS
<1>1. Cardinality({}) = 0 /\ FlushSize \in Nat \ {0} /\ MaxAttempts \in Nat \ {0}
      /\ MaxCrashes \in Nat /\ db \in Tables
  BY FS_EmptySet, PipelineAssumption DEF Init
<1>5. BulkOK
  <2>1. PICK input \in [Jobs -> Inputs] : bulk = [j \in Jobs |-> Opened(input[j], input[j].file)]
    BY DEF Init
  <2>2. ASSUME NEW j \in Jobs
        PROVE  /\ bulk[j] \in [entity : Entities, json : BOOLEAN, file : Seq(Records \cup {Bad}),
                              records : Seq(Records \cup {Bad})]
               /\ \E b \in Inputs : bulk[j] = Opened(b, bulk[j].records)
               /\ bulk[j].records = bulk[j].file
    <3>1. input[j] \in Inputs
      BY <2>1
    <3>2. input[j] \in [entity : Entities, json : BOOLEAN, file : Seq(Records \cup {Bad})]
      BY <3>1, PipelineAssumption
    <3>3. bulk[j] = Opened(input[j], input[j].file) /\ bulk[j].records = input[j].file
      BY <2>1 DEF Opened
    <3> QED
      BY <3>1, <3>2, <3>3 DEF Opened
  <2>3. bulk = [j \in Jobs |-> bulk[j]]
    BY <2>1
  <2> QED
    BY <2>2, <2>3 DEF BulkOK, Deliveries
<1>2. \A j \in Jobs : Length(j) \in Nat
  BY <1>5, InputFacts
<1>3. TypeOK
  BY <1>1, <1>2 DEF Init, TypeOK, Totals, Counts, Zero, Running
<1>4. \A j \in Jobs : JobInv(j)
  BY <1>1 DEF Init, JobInv, FreshStart, AttemptsLeft, PendingAreGood, KeptAreGood,
     OneRowPerLine, Kept, LinesAccounted, CountsFit, BatchesFit, Counting, Reading, Reported,
     MarkedCompleted
<1> QED
  BY <1>3, <1>4, <1>5 DEF IInv

LEMMA NextKeeps ==
  ASSUME NoStrays, IInv, [Next]_vars
  PROVE  IInv'
<1>1. CASE Next
  <2>1. ASSUME NEW k \in Jobs, OwnStep(k) PROVE IInv'
    BY <2>1, StepKeeps
  <2>2. ASSUME NEW stuck \in SUBSET Jobs, NEW k \in stuck, NEW lost \in SUBSET (stuck \ {k}),
               MergeDeadlocks(stuck, lost, k)
        PROVE  IInv'
    BY <2>2, DeadlockKeeps
  <2> QED
    BY <1>1, <2>1, <2>2 DEF Next, OwnStep
<1>2. CASE UNCHANGED vars
  <2>1. \A j \in Jobs : Same(j)
    BY <1>2 DEF vars, run, Same
  <2>2. TypeOK'
    BY <1>2 DEF IInv, TypeOK, vars, run, Length
  <2> QED
    BY <1>2, <2>1, <2>2, Frame DEF IInv, vars, BulkOK, Unbroken
<1> QED
  BY <1>1, <1>2

THEOREM Inductive ==
  ASSUME NoStrays
  PROVE  Spec => []IInv
BY InitHolds, NextKeeps, PTL DEF Spec

(* The memory of every import stays typed: in particular a batch never     *)
(* holds more lines than IMPORT_FLUSH_SIZE and no run reads past what the  *)
(* reader delivers, for any files, number of imports and faults but        *)
(* "stray".                                                                *)
THEOREM Typing ==
  ASSUME NoStrays
  PROVE  Spec => []TypeOK
<1>1. IInv => TypeOK
  BY DEF IInv
<1> QED
  BY <1>1, Inductive, PTL

(* However often an import is cut off by a failure, a deadlock or a crash  *)
(* and run again, the totals it completes with are those of its error      *)
(* report, written and failed lines add up to the lines that its reader    *)
(* delivered, and if these are less than its file, as of a JSON stream     *)
(* that breaks, then the report says so.  A delete of an earlier attempt   *)
(* that outlives the backoff is excluded: it could remove error rows.      *)
THEOREM TotalsMatch ==
  ASSUME NoStrays
  PROVE  Spec => []TotalsMatchReport
<1>1. IInv => TotalsMatchReport
  <2> SUFFICES ASSUME IInv, NEW j \in Jobs, pc[j] \in MarkedCompleted
               PROVE  Describes(j, saved[j]) /\ CutIsLogged(j)
    BY DEF TotalsMatchReport
  <2>1. Describes(j, saved[j]) /\ \A n \in Lines(j) : ~Record(j, n).good => n \in errors[j]
    BY DEF IInv, JobInv, Reported
  <2>2. /\ bulk[j].file \in Seq(Records \cup {Bad})
        /\ bulk[j].records \in Deliveries(bulk[j])
    BY DEF IInv, BulkOK
  <2>3. bulk[j].records # bulk[j].file =>
          Length(j) \in Lines(j) /\ ~Record(j, Length(j)).good
    BY <2>2, DeliveriesAreRecords DEF Length, Lines, Record
  <2> QED
    BY <2>1, <2>3 DEF CutIsLogged
<1> QED
  BY <1>1, Inductive, PTL

=============================================================================
