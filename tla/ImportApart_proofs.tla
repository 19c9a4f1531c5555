------------------------- MODULE ImportApart_proofs -------------------------
(***************************************************************************)
(* Proofs about what imports do to each other and to the tables, for any   *)
(* number of imports, all files, databases and batch sizes: what a merge   *)
(* leaves, when it is refused, which lines it writes, and that the report  *)
(* of an import is true.                                                   *)
(***************************************************************************)
EXTENDS ImportPipeline_proofs

-----------------------------------------------------------------------------
(* A record whose key is in use stands for the row that uses it.           *)
LEMMA ResolvedIsOwner ==
  ASSUME NEW d \in Tables, Sound(d), NEW e \in Entities, NEW r \in Records,
         NEW i \in Names, d[e][i] = r.key
  PROVE  Resolved(d, e, r) = i
<1> DEFINE owners == Owners(d, e, r.key)
<1>1. i \in owners
  BY DEF Owners
<1>2. \A o \in owners : o = i
  <2>1. r.key \in Names /\ r.key # NoName
    BY NamesAssumption DEF Records
  <2> QED
    BY <2>1 DEF Owners, Sound, KeysUnique, Has
<1>3. (CHOOSE o \in owners : TRUE) = i
  BY <1>1, <1>2
<1> QED
  BY <1>1, <1>3 DEF Resolved

LEMMA CommentIsItself ==
  ASSUME NEW d \in Tables, Sound(d), NEW r \in Records, r.id = r.key
  PROVE  Resolved(d, "comments", r) = r.key
<1>1. r.key \in Names /\ r.key # NoName /\ "comments" \in Entities
  BY NamesAssumption DEF Records, Entities
<1>2. CASE \E i \in Names : d["comments"][i] = r.key
  BY <1>1, <1>2, ResolvedIsOwner DEF Sound
<1>3. CASE ~\E i \in Names : d["comments"][i] = r.key
  BY <1>1, <1>3 DEF Resolved, Owners
<1> QED
  BY <1>2, <1>3

(* A merge that PostgreSQL accepts leaves the indexes intact.              *)
LEMMA MergedIsSound ==
  ASSUME NEW t \in [Names -> Names \cup {NoName}], KeysUnique(t),
         NEW rows \in SUBSET Rows, MergeAccepts(t, rows)
  PROVE  KeysUnique(Merged(t, rows))
<1> SUFFICES ASSUME NEW i \in Names, NEW k \in Names, i # k,
                    Merged(t, rows)[i] = Merged(t, rows)[k], Has(Merged(t, rows), i)
             PROVE  FALSE
  BY DEF KeysUnique
<1> DEFINE Covers(s, n) == s \in rows /\ s.id = n
           At(n) == Merged(t, rows)[n]
<1>1. ASSUME NEW n \in Names, ~\E s \in rows : s.id = n PROVE At(n) = t[n]
  BY <1>1 DEF Merged
<1>2. ASSUME NEW n \in Names, NEW s, Covers(s, n) PROVE At(n) = s.key
  <2>1. (CHOOSE c \in rows : c.id = n) = s
    BY <1>2 DEF MergeAccepts
  <2> QED
    BY <1>2, <2>1 DEF Merged
<1>3. CASE (\E s \in rows : s.id = i) /\ (\E s \in rows : s.id = k)
  BY <1>2, <1>3 DEF MergeAccepts
<1>4. CASE (~\E s \in rows : s.id = i) /\ (~\E s \in rows : s.id = k)
  BY <1>1, <1>4 DEF KeysUnique, Has
<1>5. ASSUME NEW m \in Names, NEW n \in Names, m # n, At(m) = At(n),
             NEW s \in rows, s.id = m, ~\E c \in rows : c.id = n
      PROVE  FALSE
  <2>1. t[n] = s.key /\ n # s.id
    BY <1>1, <1>2, <1>5
  <2> QED
    BY <1>5, <2>1 DEF MergeAccepts
<1> QED
  BY <1>3, <1>4, <1>5

(* What a merge does to a key that is in the table afterwards.             *)
LEMMA MergedRow ==
  ASSUME NEW t \in [Names -> Names \cup {NoName}], NEW rows \in SUBSET Rows,
         MergeAccepts(t, rows), NEW i \in Names
  PROVE  /\ \A r \in rows : r.id = i => Merged(t, rows)[i] = r.key
         /\ (\A r \in rows : r.id # i) => Merged(t, rows)[i] = t[i]
<1>1. ASSUME NEW r \in rows, r.id = i PROVE Merged(t, rows)[i] = r.key
  <2>1. (CHOOSE s \in rows : s.id = i) = r
    BY <1>1 DEF MergeAccepts
  <2> QED
    BY <1>1, <2>1 DEF Merged
<1> QED
  BY <1>1 DEF Merged

-----------------------------------------------------------------------------
(* What a step means to a job: it is its own, its merge, or another job's. *)
LEMMA RowsTyped ==
  ASSUME IInv, NEW j \in Jobs
  PROVE  /\ Kept(j) \subseteq Rows
         /\ db \in Tables /\ Entity(j) \in Entities
         /\ db[Entity(j)] \in [Names -> Names \cup {NoName}]
         /\ found[j] \in Tables
  BY InputFacts DEF IInv, TypeOK, Kept, Tables

(* A job's own steps but its merge.                                        *)
QuietStep(j) == OwnStep(j) /\ ~Merge(j)

(* A merge that goes through, whether or not others are aborted for it.    *)
MergeOf(j) ==
  /\ pc[j] = "merge" /\ pc'[j] = "save"
  /\ MergeAccepts(db[Entity(j)], staging[j])
  /\ db' = [db EXCEPT ![Entity(j)] = Merged(@, staging[j])]
  /\ merged'[j] = merged[j] \cup LinesOf(staging[j])
  /\ UNCHANGED <<bulk, run, staging, errors, saved, attempts, crashes>>

(* What this job reads, and what the others are about, stays.              *)
SameFile(j) == bulk'[j] = bulk[j] /\ \A k \in Jobs : Entity(k)' = Entity(k)

(* Another job's step leaves this one where it is, or aborts its merge.    *)
Beside(j) ==
  /\ pc'[j] = pc[j] \/ (pc[j] = "merge" /\ pc'[j] = "catch")
  /\ SameFile(j) /\ found'[j] = found[j] /\ batch'[j] = batch[j]
  /\ todo'[j] = todo[j] /\ buffer'[j] = buffer[j] /\ staging'[j] = staging[j]
  /\ errors'[j] = errors[j] /\ merged'[j] = merged[j]
  /\ attempts'[j] = attempts[j] /\ crashes'[j] = crashes[j]

(* A deadlock that ends with the refusal of the merge that gets through.   *)
AllRefused ==
  \E stuck \in SUBSET Jobs : \E k \in stuck : \E lost \in SUBSET (stuck \ {k}) :
    MergeDeadlocks(stuck, lost, k) /\ ~MergeAccepts(db[Entity(k)], staging[k])

LEMMA FileFacts ==
  ASSUME NEW j \in Jobs, SameFile(j)
  PROVE  /\ Entity(j)' = Entity(j) /\ Lines(j)' = Lines(j) /\ Reads(j)' = Reads(j)
         /\ \A n : Record(j, n)' = Record(j, n)
         /\ OwnTable(j)' <=> OwnTable(j)
         /\ Apart(j)' <=> Apart(j)
<1>1. /\ Entity(j)' = Entity(j) /\ Lines(j)' = Lines(j)
      /\ \A n : Record(j, n)' = Record(j, n)
  BY DEF SameFile, Lines, Length, Record
<1>2. Reads(j)' = Reads(j)
  BY <1>1 DEF Reads
<1> QED
  BY <1>1, <1>2 DEF SameFile, OwnTable, Apart

LEMMA BulkMoves ==
  ASSUME IInv, NEW k \in Jobs, OwnStep(k)
  PROVE  /\ ~ClearPrevious(k) \/ Unbroken(k) => bulk' = bulk
         /\ \A j \in Jobs : Entity(j)' = Entity(j)
         /\ \A j \in Jobs \ {k} : SameFile(j)
<1>1. CASE ClearPrevious(k)
  BY <1>1, OpenFacts DEF ClearPrevious, SameFile, IInv
<1>2. CASE ~ClearPrevious(k)
  <2>1. bulk' = bulk
    BY <1>2 DEF OwnStep, Step, ClearFails, StrayDelete, EndRun, run, Start, ReadBad, ReadGood,
       ReadEnd, Progress, Lookup, WriteItem, RejectItem, CopyBatch, RejectSlugs, Merge,
       MergeRefused, Save, Tidy, Complete, Ack, Catch, StatementFails, Crash
  <2> QED
    BY <2>1 DEF SameFile, Entity
<1> QED
  BY <1>1, <1>2

LEMMA OwnQuiet ==
  ASSUME NEW j \in Jobs, QuietStep(j)
  PROVE  UNCHANGED <<db, merged>>
BY DEF QuietStep, OwnStep, Step, ClearFails, StrayDelete, EndRun, run, Start, ClearPrevious,
   ReadBad, ReadGood, ReadEnd, Progress, Lookup, WriteItem, RejectItem, CopyBatch, RejectSlugs,
   MergeRefused, Save, Tidy, Complete, Ack, Catch, StatementFails, Crash

LEMMA MergeSeen ==
  ASSUME IInv, NEW j \in Jobs, Merge(j)
  PROVE  MergeOf(j)
BY DEF Merge, MergeOf, GoTo, LinesOf, IInv, TypeOK

LEMMA StepBeside ==
  ASSUME IInv, NEW k \in Jobs, OwnStep(k), NEW j \in Jobs \ {k}
  PROVE  Beside(j) /\ pc'[j] = pc[j]
<1>1. Same(j)
  BY OthersSame DEF IInv
<1>2. found'[j] = found[j] /\ merged'[j] = merged[j] /\ crashes'[j] = crashes[j]
  BY DEF IInv, TypeOK, OwnStep, Step, ClearFails, StrayDelete, GoTo, Set, EndRun, run, Start,
     ClearPrevious, ReadBad, ReadGood, ReadEnd, Progress, Lookup, WriteItem, RejectItem,
     CopyBatch, RejectSlugs, Merge, MergeRefused, Save, Tidy, Complete, Ack, Catch,
     StatementFails, Crash
<1>3. SameFile(j)
  BY BulkMoves
<1> QED
  BY <1>1, <1>2, <1>3 DEF Same, Beside

(* Of a deadlock's merges the aborted ones only move on; if the one that   *)
(* gets through is refused, so does it, and the tables stay.               *)
LEMMA DeadlockParts ==
  ASSUME IInv, NEW stuck \in SUBSET Jobs, NEW k \in stuck, NEW lost \in SUBSET (stuck \ {k}),
         MergeDeadlocks(stuck, lost, k)
  PROVE  /\ \A j \in Jobs \ {k} : Beside(j)
         /\ \/ MergeOf(k)
            \/ AllRefused /\ Beside(k) /\ db' = db
<1> DEFINE accepted == MergeAccepts(db[Entity(k)], staging[k])
<1>1. /\ \A j \in stuck : pc[j] = "merge"
      /\ k \in Jobs /\ lost \subseteq stuck \ {k}
      /\ db' = IF accepted THEN [db EXCEPT ![Entity(k)] = Merged(@, staging[k])] ELSE db
      /\ merged' = IF accepted THEN [merged EXCEPT ![k] = @ \cup LinesOf(staging[k])] ELSE merged
      /\ UNCHANGED <<bulk, run, staging, errors, saved, attempts, crashes>>
      /\ pc' = [j \in Jobs |-> IF j \in lost \/ (j = k /\ ~accepted) THEN "catch"
                               ELSE IF j = k THEN "save" ELSE pc[j]]
  BY DEF MergeDeadlocks, Deadlocked, LinesOf
<1>2. \A j \in Jobs : SameFile(j)
  BY <1>1 DEF SameFile, Entity
<1>3. merged \in [Jobs -> SUBSET Nat]
  BY DEF IInv, TypeOK
<1>4. ASSUME ~accepted PROVE AllRefused
  BY <1>4 DEF AllRefused
<1> HIDE DEF accepted
<1>5. ASSUME NEW j \in Jobs \ {k} PROVE Beside(j)
  <2>1. pc'[j] = pc[j] \/ (pc[j] = "merge" /\ pc'[j] = "catch")
    BY <1>1
  <2>2. merged'[j] = merged[j]
    BY <1>1, <1>3
  <2> QED
    BY <1>1, <1>2, <2>1, <2>2 DEF Beside, run
<1>6. ASSUME accepted PROVE MergeOf(k)
  <2>1. pc'[k] = "save" /\ merged'[k] = merged[k] \cup LinesOf(staging[k])
    BY <1>1, <1>3, <1>6
  <2> QED
    BY <1>1, <1>6, <2>1 DEF MergeOf, accepted
<1>7. ASSUME ~accepted PROVE Beside(k) /\ db' = db
  BY <1>1, <1>2, <1>7 DEF Beside, run
<1> QED
  BY <1>4, <1>5, <1>6, <1>7

(* The ways in which a step can matter to a job.                           *)
LEMMA Views ==
  ASSUME IInv, [Next]_vars, NEW j \in Jobs
  PROVE  \/ QuietStep(j) \/ MergeOf(j)
         \/ Beside(j) /\ db' = db /\ (pc'[j] = pc[j] \/ AllRefused)
         \/ Beside(j) /\ \E k \in Jobs \ {j} : MergeOf(k)
<1>1. ASSUME NEW k \in Jobs, OwnStep(k)
      PROVE  \/ QuietStep(j) \/ MergeOf(j)
             \/ Beside(j) /\ pc'[j] = pc[j] /\ db' = db
             \/ Beside(j) /\ \E m \in Jobs \ {j} : MergeOf(m)
  <2>1. QuietStep(k) \/ MergeOf(k)
    BY <1>1, MergeSeen DEF QuietStep
  <2>2. CASE k = j
    BY <2>1, <2>2
  <2>3. CASE k # j
    BY <1>1, <2>1, <2>3, StepBeside, OwnQuiet
  <2> QED
    BY <2>2, <2>3
<1>2. ASSUME NEW stuck \in SUBSET Jobs, NEW k \in stuck, NEW lost \in SUBSET (stuck \ {k}),
             MergeDeadlocks(stuck, lost, k)
      PROVE  \/ MergeOf(j)
             \/ Beside(j) /\ db' = db /\ AllRefused
             \/ Beside(j) /\ \E m \in Jobs \ {j} : MergeOf(m)
  BY <1>2, DeadlockParts
<1>3. CASE UNCHANGED vars
  BY <1>3 DEF vars, run, Beside, SameFile, Entity
<1>4. CASE Next
  BY <1>1, <1>2, <1>4 DEF Next, OwnStep
<1> QED
  BY <1>3, <1>4

(* Only its own opening of the file changes what a job reads.              *)
LEMMA SameFiles ==
  ASSUME IInv, [Next]_vars, NEW j \in Jobs
  PROVE  /\ Entity(j)' = Entity(j)
         /\ OwnTable(j)' <=> OwnTable(j)
         /\ SameFile(j) \/ ClearPrevious(j)
<1>1. \A k \in Jobs : Entity(k)' = Entity(k)
  <2>1. CASE Next
    BY <2>1, BulkMoves DEF Next, OwnStep, MergeDeadlocks, Entity
  <2>2. CASE UNCHANGED vars
    BY <2>2 DEF vars, Entity
  <2> QED
    BY <2>1, <2>2
<1>2. SameFile(j) \/ ClearPrevious(j)
  <2>1. QuietStep(j) /\ ~ClearPrevious(j) => SameFile(j)
    BY <1>1, BulkMoves DEF QuietStep, SameFile
  <2> QED
    BY <1>1, <2>1, Views DEF Beside, MergeOf, QuietStep, SameFile
<1> QED
  BY <1>1, <1>2 DEF OwnTable

LEMMA ApartOwns ==
  ASSUME NEW j \in Jobs, Apart(j)
  PROVE  OwnTable(j) /\ Entity(j) \in Reads(j)
  BY DEF Apart, OwnTable, Reads

(* A merge changes one table.                                              *)
LEMMA MergeTable ==
  ASSUME IInv, NEW k \in Jobs, MergeOf(k)
  PROVE  /\ db'[Entity(k)] = Merged(db[Entity(k)], staging[k])
         /\ \A e \in Entities \ {Entity(k)} : db'[e] = db[e]
  BY RowsTyped DEF MergeOf, Tables

(* Nobody changes what an import apart reads, or the table it owns.        *)
LEMMA ViewKept ==
  ASSUME IInv, NEW j \in Jobs, db' = db \/ \E k \in Jobs \ {j} : MergeOf(k)
  PROVE  /\ OwnTable(j) => db'[Entity(j)] = db[Entity(j)]
         /\ Apart(j) => \A e \in Reads(j) : db'[e] = db[e]
<1> SUFFICES ASSUME NEW k \in Jobs \ {j}, MergeOf(k)
             PROVE  /\ OwnTable(j) => db'[Entity(j)] = db[Entity(j)]
                    /\ Apart(j) => \A e \in Reads(j) : db'[e] = db[e]
  OBVIOUS
<1>1. Reads(j) \subseteq Entities
  BY RowsTyped DEF Reads
<1> QED
  BY <1>1, MergeTable, RowsTyped DEF OwnTable, Apart

-----------------------------------------------------------------------------
(* What the staged rows say about each other, and about the table.         *)

(* Their distinctness and their fit depend on a job's own variables and on *)
(* its table.                                                              *)
LEMMA BesideFits ==
  ASSUME NEW j \in Jobs, Beside(j), RowsDistinct(j)
  PROVE  /\ RowsDistinct(j)'
         /\ db'[Entity(j)] = db[Entity(j)] /\ RowsFit(j) => RowsFit(j)'
<1>1. /\ Kept(j)' = Kept(j) /\ Entity(j)' = Entity(j)
      /\ \A n : Record(j, n)' = Record(j, n)
  BY FileFacts DEF Beside, Kept
<1>2. pc'[j] = pc[j] \/ pc'[j] = "catch"
  BY DEF Beside
<1>3. RowsDistinct(j)'
  BY <1>1, <1>2 DEF RowsDistinct, Beside, Reading
<1>4. ASSUME db'[Entity(j)] = db[Entity(j)], RowsFit(j) PROVE RowsFit(j)'
  BY <1>1, <1>2, <1>4 DEF RowsFit, Beside, Reading
<1> QED
  BY <1>3, <1>4

(* A comment that is read has its id for a key.                            *)
LEMMA CommentKeys ==
  ASSUME IInv, NEW j \in Jobs, Entity(j) = "comments", NEW n \in Lines(j), Record(j, n).good
  PROVE  Record(j, n).id = Record(j, n).key
<1>1. PICK b \in Inputs : bulk[j] = Opened(b, bulk[j].records)
  BY DEF IInv, BulkOK
<1> DEFINE file == b.file
           records == bulk[j].records
<1>2. /\ file \in Seq(Records \cup {Bad}) /\ bulk[j].file = file
      /\ b.entity = "comments" /\ records \in Deliveries(bulk[j])
      /\ n \in 1..Len(records) /\ records[n].good
  BY <1>1, PipelineAssumption DEF IInv, BulkOK, Opened, Entity, Lines, Length, Record
<1>3. \A m \in 1..Len(file) : file[m].good => file[m].id = file[m].key
  BY <1>2, SchemaAssumption
<1> SUFFICES records[n].id = records[n].key
  BY DEF Record
<1> HIDE DEF file, records
<1>4. CASE records = file
  BY <1>2, <1>3, <1>4
<1>5. ASSUME NEW m \in 0..Len(file), records = Append(SubSeq(file, 1, m), Bad)
      PROVE  records[n].id = records[n].key
  <2> DEFINE part == SubSeq(file, 1, m)
  <2>1. /\ part \in Seq(Records \cup {Bad}) /\ Len(part) = m
        /\ \A k \in 1..m : part[k] = file[k]
    BY <1>2
  <2>2. records = Append(part, Bad)
    BY <1>5
  <2> HIDE DEF part
  <2>3. n \in 1..m+1 /\ (n = m + 1 => records[n] = Bad) /\ (n # m + 1 => records[n] = part[n])
    BY <1>2, <2>1, <2>2
  <2>4. n # m + 1
    BY <1>2, <2>3 DEF Bad
  <2>5. n \in 1..m /\ n \in 1..Len(file) /\ records[n] = file[n]
    BY <1>2, <2>1, <2>3, <2>4
  <2> QED
    BY <1>2, <1>3, <2>5
<1>6. \/ records = file
      \/ \E m \in 0..Len(file) : records = Append(SubSeq(file, 1, m), Bad)
  BY <1>2 DEF Deliveries
<1> QED
  BY <1>4, <1>5, <1>6

LEMMA WriteItemFits ==
  ASSUME IInv, NEW j \in Jobs, RowsDistinct(j), WriteItem(j)
  PROVE  /\ RowsDistinct(j)'
         /\ RowsFit(j) => RowsFit(j)'
<1>1. PICK n \in todo[j] : /\ ItemAccepted(j, n)
                           /\ batch' = [batch EXCEPT ![j] = @ \cup {RowOf(j, n)}]
  BY DEF WriteItem
<1> DEFINE row == RowOf(j, n)
           rec == Record(j, n)
           e == Entity(j)
           view == found[j]
<1>2. /\ pc[j] = "items" /\ pc' = pc
      /\ UNCHANGED <<db, bulk, found, staging>>
      /\ Kept(j)' = Kept(j) \cup {row}
  BY <1>1 DEF WriteItem, Kept, IInv, TypeOK
<1>3. n \in Lines(j) /\ rec.good /\ rec \in Records
  <2>1. n \in Lines(j)
    BY Known DEF Lines
  <2>2. rec.good
    BY Known DEF PendingAreGood
  <2> QED
    BY <2>1, <2>2, InputFacts DEF IInv
<1>4. Sound(view) /\ view \in Tables
  BY RowsTyped DEF RowsDistinct
<1>5. /\ row.id = Resolved(view, e, rec) /\ row.key = rec.key
      /\ row.line = n
      /\ \A s \in Kept(j) : s.id # row.id
      /\ e = "users" => \A s \in Kept(j) : s.key # row.key
  BY <1>1 DEF RowOf, ItemAccepted, Accepted, SameKey, Kept
<1>6. \A i \in Names : view[e][i] = row.key => i = row.id
  BY <1>3, <1>4, <1>5, RowsTyped, ResolvedIsOwner
<1>7. e = "comments" => row.key = row.id
  <2> SUFFICES ASSUME e = "comments" PROVE row.key = row.id
    OBVIOUS
  <2>1. rec.id = rec.key
    BY <1>3, CommentKeys
  <2> QED
    BY <1>3, <1>4, <1>5, <2>1, RowsTyped, CommentIsItself
<1>8. /\ \A r \in Kept(j) : Record(j, r.line).good /\ r.key = Record(j, r.line).key
      /\ \A r, s \in Kept(j) : r # s => r.id # s.id
      /\ e = "comments" => \A r \in Kept(j) : r.key = r.id
      /\ e = "users" => \A r, s \in Kept(j) : r # s => r.key # s.key
  BY <1>2 DEF RowsDistinct, Reading
<1>9. Entity(j)' = e /\ \A m : Record(j, m)' = Record(j, m)
  BY <1>2 DEF Entity, Record
<1> HIDE DEF row
<1>10. RowsDistinct(j)'
  BY <1>2, <1>3, <1>4, <1>5, <1>7, <1>8, <1>9 DEF RowsDistinct, Reading
<1>11. ASSUME RowsFit(j) PROVE RowsFit(j)'
  <2>1. /\ view[e] = db[e]
        /\ \A r \in Kept(j), i \in Names : db[e][i] = r.key => i = r.id
    BY <1>2, <1>11 DEF RowsFit, Reading
  <2> QED
    BY <1>2, <1>6, <1>9, <2>1 DEF RowsFit, Reading
<1> QED
  BY <1>10, <1>11

(* The second half of findAndDeleteSlugConflicts leaves each slug once.    *)
LEMMA RejectSlugsFits ==
  ASSUME IInv, NEW j \in Jobs, RowsDistinct(j), RejectSlugs(j)
  PROVE  /\ RowsDistinct(j)'
         /\ RowsFit(j) => RowsFit(j)'
<1> DEFINE conflicts == SlugConflicts(db["articles"], staging[j])
<1>1. /\ pc[j] = "slugs" /\ pc'[j] = "merge"
      /\ staging'[j] = staging[j] \ conflicts
      /\ UNCHANGED <<db, bulk, batch, found>>
  BY DEF RejectSlugs, GoTo, IInv, TypeOK
<1>2. batch[j] = {} /\ Kept(j) = staging[j]
  BY <1>1, Settled DEF Counting, Reading
<1>3. Kept(j)' = staging[j] \ conflicts
  BY <1>1, <1>2 DEF Kept
<1>4. ASSUME NEW r \in staging[j] \ conflicts, NEW s \in staging[j] \ conflicts,
             r # s, r.key = s.key
      PROVE  FALSE
  <2>1. r.id # s.id
    BY <1>1, <1>2, <1>4 DEF RowsDistinct
  <2>2. r.line \in Nat /\ s.line \in Nat /\ r.line # s.line
    BY <1>2, <1>4, RowsTyped, Known DEF OneRowPerLine, Rows
  <2>3. r.line < s.line \/ s.line < r.line
    BY <2>2
  <2> QED
    BY <1>4, <2>1, <2>3 DEF SlugConflicts
<1>5. /\ \A r, s \in staging[j] : r # s => r.id # s.id
      /\ \A r \in staging[j] : Record(j, r.line).good /\ r.key = Record(j, r.line).key
      /\ Entity(j) = "comments" => \A r \in staging[j] : r.key = r.id
      /\ Sound(found[j])
  BY <1>1, <1>2 DEF RowsDistinct
<1>6. Entity(j)' = Entity(j) /\ \A m : Record(j, m)' = Record(j, m)
  BY <1>1 DEF Entity, Record
<1> HIDE DEF conflicts
<1>7. RowsDistinct(j)'
  BY <1>1, <1>3, <1>4, <1>5, <1>6 DEF RowsDistinct
<1>8. ASSUME RowsFit(j) PROVE RowsFit(j)'
  BY <1>1, <1>2, <1>3, <1>6, <1>8 DEF RowsFit, Reading
<1> QED
  BY <1>7, <1>8

(* Steps that leave a run outside of reading and merging.                  *)
LEMMA PcMoves ==
  ASSUME NoStrays, IInv, NEW j \in Jobs,
         \/ Start(j) \/ StatementFails(j) \/ MergeRefused(j) \/ Catch(j) \/ Crash(j)
         \/ Save(j) \/ Tidy(j) \/ Complete(j) \/ Ack(j) \/ ClearFails(j) \/ StrayDelete(j)
  PROVE  pc'[j] \notin Reading \cup {"slugs", "merge"} /\ ~ClearPrevious(j)
<1>1. pc'[j] \notin Reading \cup {"slugs", "merge"}
  BY DEF NoStrays, IInv, TypeOK, Start, StatementFails, MergeRefused, Catch, Crash, Save,
     Tidy, Complete, Ack, ClearFails, StrayDelete, EndRun, GoTo, Reading
<1>2. ClearPrevious(j) => pc'[j] = "read"
  BY DEF ClearPrevious, GoTo, IInv, TypeOK
<1> QED
  BY <1>1, <1>2 DEF Reading

LEMMA OtherFits ==
  ASSUME NoStrays, IInv, Sound(db), NEW j \in Jobs, RowsDistinct(j), QuietStep(j),
         ~WriteItem(j), ~RejectSlugs(j)
  PROVE  /\ RowsDistinct(j)'
         /\ RowsFit(j) => RowsFit(j)'
<1>1. found'[j] \in {db, found[j]} /\ db' = db
  BY DEF QuietStep, OwnStep, Step, ClearFails, StrayDelete, EndRun, run, Start, ClearPrevious,
     ReadBad, ReadGood, ReadEnd, Progress, Lookup, WriteItem, RejectItem, CopyBatch,
     RejectSlugs, MergeRefused, Save, Tidy, Complete, Ack, Catch, StatementFails, Crash, Set,
     IInv, TypeOK
<1>2. Sound(found'[j])
  BY <1>1 DEF RowsDistinct
<1>3. ~ClearPrevious(j) =>
        Entity(j)' = Entity(j) /\ \A m : Record(j, m)' = Record(j, m)
  BY BulkMoves DEF QuietStep, Entity, Record
<1>4. Kept(j)' \subseteq Kept(j)
  BY DEF QuietStep, OwnStep, Step, ClearFails, StrayDelete, Clear, EndRun, run, Start,
     ClearPrevious, ReadBad, ReadGood, ReadEnd, Progress, Lookup, WriteItem, RejectItem,
     CopyBatch, RejectSlugs, MergeRefused, Save, Tidy, Complete, Ack, Catch, StatementFails,
     Crash, Set, Kept, IInv, TypeOK
<1>5. ~ClearPrevious(j) =>
        \A r \in Kept(j)' : Record(j, r.line)'.good /\ r.key = Record(j, r.line)'.key
  BY <1>3, <1>4 DEF RowsDistinct
<1>6. CASE \/ Start(j) \/ StatementFails(j) \/ MergeRefused(j) \/ Catch(j) \/ Crash(j)
           \/ Save(j) \/ Tidy(j) \/ Complete(j) \/ Ack(j) \/ ClearFails(j) \/ StrayDelete(j)
  <2>1. ~ClearPrevious(j)
    BY <1>6, PcMoves
  <2>2. pc'[j] \notin Reading \cup {"slugs", "merge"}
    BY <1>6, PcMoves
  <2> QED
    BY <1>2, <1>5, <2>1, <2>2 DEF RowsDistinct, RowsFit, Reading
<1>7. CASE ClearPrevious(j)
  <2>1. pc'[j] = "read" /\ Kept(j)' = {}
    BY <1>7, Known DEF ClearPrevious, Clear, Deletes, GoTo, Set, FreshStart, Kept, IInv,
       TypeOK, run
  <2> QED
    BY <1>2, <2>1 DEF RowsDistinct, RowsFit
<1>8. CASE \/ ReadBad(j) \/ ReadGood(j) \/ ReadEnd(j) \/ Progress(j) \/ Lookup(j)
           \/ RejectItem(j) \/ CopyBatch(j)
  <2>1. /\ pc[j] \in Reading /\ pc'[j] \in Reading \cup {"slugs", "merge"}
        /\ pc'[j] = "merge" => Entity(j) # "articles"
        /\ pc'[j] = "items" => found'[j] = db \/ (pc[j] = "items" /\ found' = found)
    BY <1>8 DEF IInv, TypeOK, ReadBad, ReadGood, ReadEnd, Progress, Lookup, RejectItem,
       CopyBatch, Staged, GoTo, Set, Reading, run
  <2>2. Entity(j) = "comments" \/ Entity(j) = "users" \/ Entity(j) = "articles"
    BY RowsTyped DEF Entities
  <2>3. /\ \A r, s \in Kept(j) : r # s => r.id # s.id
        /\ Entity(j) = "comments" => \A r \in Kept(j) : r.key = r.id
        /\ Entity(j) = "users" => \A r, s \in Kept(j) : r # s => r.key # s.key
    BY <2>1 DEF RowsDistinct
  <2>4. ~ClearPrevious(j)
    BY <2>1 DEF ClearPrevious, Reading
  <2>5. RowsDistinct(j)'
    BY <1>2, <1>3, <1>4, <1>5, <2>1, <2>2, <2>3, <2>4 DEF RowsDistinct
  <2>6. ASSUME RowsFit(j) PROVE RowsFit(j)'
    BY <1>1, <1>3, <1>4, <2>1, <2>4, <2>6 DEF RowsFit
  <2> QED
    BY <2>5, <2>6
<1> QED
  BY <1>6, <1>7, <1>8 DEF QuietStep, OwnStep, Step

LEMMA OwnFits ==
  ASSUME NoStrays, IInv, Sound(db), NEW j \in Jobs, RowsDistinct(j), QuietStep(j)
  PROVE  /\ RowsDistinct(j)'
         /\ RowsFit(j) => RowsFit(j)'
BY WriteItemFits, RejectSlugsFits, OtherFits

(* Rows that fit are merged.                                               *)
LEMMA FitIsAccepted ==
  ASSUME IInv, NEW j \in Jobs, pc[j] = "merge", RowsDistinct(j), RowsFit(j)
  PROVE  MergeAccepts(db[Entity(j)], staging[j])
<1>1. Kept(j) = staging[j]
  BY Settled DEF Counting, Reading
<1> QED
  BY <1>1 DEF RowsDistinct, RowsFit, MergeAccepts

LEMMA MergeKeepsSound ==
  ASSUME IInv, Sound(db), NEW j \in Jobs, RowsDistinct(j), MergeOf(j)
  PROVE  Sound(db') /\ RowsDistinct(j)' /\ RowsFit(j)'
<1> DEFINE e == Entity(j)
<1>1. /\ pc[j] = "merge" /\ pc'[j] = "save" /\ MergeAccepts(db[e], staging[j])
      /\ UNCHANGED <<bulk, found, batch, staging>>
  BY DEF MergeOf, run
<1>2. Kept(j) = staging[j] /\ Kept(j)' = Kept(j)
  BY <1>1, Settled DEF Counting, Reading, Kept
<1>3. /\ db'[e] = Merged(db[e], staging[j])
      /\ \A f \in Entities \ {e} : db'[f] = db[f]
  BY MergeTable
<1>4. KeysUnique(db'[e])
  BY <1>1, <1>2, <1>3, RowsTyped, MergedIsSound DEF Sound
<1>5. ASSUME e = "comments", NEW i \in Names PROVE db'[e][i] \in {i, NoName}
  <2>1. CASE \E s \in staging[j] : s.id = i
    <3> DEFINE c == CHOOSE s \in staging[j] : s.id = i
    <3>1. c \in staging[j] /\ c.id = i
      BY <2>1
    <3>2. c.key = c.id
      BY <1>1, <1>2, <1>5, <3>1 DEF RowsDistinct
    <3>3. db'[e][i] = c.key
      BY <1>3, <2>1 DEF Merged
    <3> QED
      BY <3>1, <3>2, <3>3
  <2>2. CASE ~\E s \in staging[j] : s.id = i
    BY <1>3, <1>5, <2>2 DEF Merged, Sound
  <2> QED
    BY <2>1, <2>2
<1>6. Sound(db')
  BY <1>3, <1>4, <1>5, RowsTyped DEF Sound, Entities
<1>7. \A m : Record(j, m)' = Record(j, m)
  BY <1>1 DEF Record
<1> QED
  BY <1>1, <1>2, <1>6, <1>7 DEF RowsDistinct, RowsFit, Reading

LEMMA FitKeeps ==
  ASSUME NoStrays, IInv, FitInv, [Next]_vars
  PROVE  FitInv'
<1>1. Sound(db) /\ \A j \in Jobs : RowsDistinct(j)
  BY DEF FitInv
<1>2. ASSUME NEW j \in Jobs PROVE RowsDistinct(j)' /\ (OwnTable(j)' => RowsFit(j)')
  <2>1. OwnTable(j)' <=> OwnTable(j)
    BY SameFiles
  <2>2. CASE QuietStep(j)
    BY <1>1, <2>1, <2>2, OwnFits DEF FitInv
  <2>3. CASE MergeOf(j)
    BY <1>1, <2>3, MergeKeepsSound
  <2>4. CASE Beside(j) /\ (db' = db \/ \E k \in Jobs \ {j} : MergeOf(k))
    BY <1>1, <2>1, <2>4, BesideFits, ViewKept DEF FitInv
  <2> QED
    BY <2>2, <2>3, <2>4, Views
<1>3. Sound(db')
  <2>1. CASE \E j \in Jobs : MergeOf(j)
    BY <1>1, <2>1, MergeKeepsSound
  <2>2. CASE Jobs = {}
    <3>1. db' = db
      BY <2>2 DEF Next, vars
    <3> QED
      BY <1>1, <3>1
  <2>3. CASE Jobs # {} /\ ~\E j \in Jobs : MergeOf(j)
    BY <1>1, <2>3, Views, OwnQuiet
  <2> QED
    BY <2>1, <2>2, <2>3
<1> QED
  BY <1>2, <1>3 DEF FitInv

LEMMA FitInductive ==
  ASSUME NoStrays
  PROVE  Spec => []FitInv
<1>1. Init => FitInv
  <2> SUFFICES ASSUME Init PROVE FitInv
    OBVIOUS
  <2>1. Sound(db) /\ \A j \in Jobs : found[j] = db /\ Kept(j) = {} /\ pc[j] = "waiting"
    BY SchemaAssumption DEF Init, Kept
  <2> QED
    BY <2>1 DEF FitInv, RowsDistinct, RowsFit, Reading
<1>2. IInv /\ FitInv /\ [Next]_vars => FitInv'
  BY FitKeeps
<1> QED
  BY <1>1, <1>2, Inductive, PTL DEF Spec

(* Whatever the files, the batch size and the tables, however often jobs   *)
(* are cut off and run again and whatever other imports run beside them,   *)
(* an import whose entity no other import writes to never fails as a whole *)
(* because of what its records say: the per-record checks leave the single *)
(* INSERT ... ON CONFLICT nothing to refuse.  Assumed is only that no      *)
(* delete of an attempt is still on its way when the next one begins.      *)
THEOREM NeverRefused ==
  ASSUME NoStrays
  PROVE  Spec => []MergeNeverRefused
<1>1. IInv /\ FitInv => MergeNeverRefused
  BY FitIsAccepted DEF MergeNeverRefused, FitInv
<1> QED
  BY <1>1, FitInductive, Inductive, PTL

-----------------------------------------------------------------------------
(* Failed attempts are paid for.                                           *)

(* Where no statement fails and no process dies, who has merged goes on to *)
(* complete.                                                               *)
MergesOnly == Faults \subseteq {"deadlock"}

(* Of three imports that disturb each other one may be refused because of  *)
(* an earlier merge, and take another one of the deadlock with it.         *)
PairsDeadlock == "deadlock" \in Faults => Cardinality(Jobs) <= 2

LEMMA MergedStay ==
  ASSUME IInv, MergesOnly, [Next]_vars, NEW j \in Jobs
  PROVE  MergedBeside(j) \subseteq MergedBeside(j)'
<1> SUFFICES ASSUME NEW k \in Jobs, pc[k] \in AfterMerge PROVE pc'[k] \in AfterMerge
  BY DEF MergedBeside
<1>1. CASE QuietStep(k)
  BY <1>1 DEF MergesOnly, QuietStep, OwnStep, AfterMerge, IInv, TypeOK, Step, ClearFails,
     StrayDelete, EndRun, Start, ClearPrevious, ReadBad, ReadGood, ReadEnd, Progress, Lookup,
     WriteItem, RejectItem, CopyBatch, RejectSlugs, MergeRefused, Save, Tidy, Complete, Ack,
     Catch, StatementFails, Crash, GoTo
<1>2. CASE MergeOf(k)
  BY <1>2 DEF MergeOf, AfterMerge
<1>3. CASE Beside(k)
  BY <1>3 DEF Beside, AfterMerge
<1> QED
  BY <1>1, <1>2, <1>3, Views

LEMMA PaymentsGrow ==
  ASSUME IInv, MergesOnly, IsFiniteSet(Jobs), [Next]_vars, NEW j \in Jobs
  PROVE  /\ Cardinality(MergedBeside(j)) \in Nat
         /\ Cardinality(MergedBeside(j))' \in Nat
         /\ Cardinality(MergedBeside(j)) <= Cardinality(MergedBeside(j))'
         /\ (\E k \in Jobs \ {j} : MergeOf(k)) =>
              Cardinality(MergedBeside(j)) < Cardinality(MergedBeside(j))'
<1> DEFINE old == MergedBeside(j)
           new == MergedBeside(j)'
<1>1. old \subseteq Jobs /\ new \subseteq Jobs
  BY DEF MergedBeside
<1>2. old \subseteq new
  BY MergedStay
<1>3. ASSUME NEW k \in Jobs \ {j}, MergeOf(k) PROVE k \in new /\ k \notin old
  BY <1>3 DEF MergeOf, MergedBeside, AfterMerge
<1> HIDE DEF old, new
<1>4. IsFiniteSet(old) /\ IsFiniteSet(new)
  BY <1>1, FS_Subset
<1>5. /\ Cardinality(old) \in Nat /\ Cardinality(new) \in Nat
      /\ Cardinality(old) <= Cardinality(new)
      /\ old # new => Cardinality(old) < Cardinality(new)
  <2>1. Cardinality(old) \in Nat /\ Cardinality(new) \in Nat
    BY <1>4, FS_CardinalityType
  <2>2. Cardinality(old) <= Cardinality(new) /\ (Cardinality(old) = Cardinality(new) => old = new)
    BY <1>2, <1>4, FS_Subset
  <2> QED
    BY <2>1, <2>2
<1> QED
  BY <1>3, <1>5 DEF old, new

(* Of two imports that are stuck, neither has merged before, so nothing    *)
(* stands in the way of the one that gets through.                         *)
LEMMA SomeoneAccepted ==
  ASSUME IInv, FitInv, PaidInv, PairsDeadlock, IsFiniteSet(Jobs)
  PROVE  ~AllRefused
<1> SUFFICES ASSUME NEW stuck \in SUBSET Jobs, NEW k \in stuck,
                    NEW lost \in SUBSET (stuck \ {k}), MergeDeadlocks(stuck, lost, k),
                    ~MergeAccepts(db[Entity(k)], staging[k])
             PROVE  FALSE
  BY DEF AllRefused
<1>1. /\ "deadlock" \in Faults /\ pc[k] = "merge"
      /\ \E m \in stuck \ {k} : pc[m] = "merge"
  BY DEF MergeDeadlocks, Deadlocked
<1>2. ~RowsFit(k)
  BY <1>1, FitIsAccepted DEF FitInv
<1>3. MergedBeside(k) # {}
  <2>1. attempts[k] < Cardinality(MergedBeside(k)) /\ attempts[k] \in Nat
    BY <1>2, PipelineAssumption DEF PaidInv, PaidFor, IInv, TypeOK
  <2> QED
    BY <2>1, FS_EmptySet
<1>4. PICK a \in Jobs \ {k}, b \in Jobs \ {k} : pc[a] = "merge" /\ pc[b] \in AfterMerge
  BY <1>1, <1>3 DEF MergedBeside
<1>5. a # b
  BY <1>4 DEF AfterMerge
<1>6. /\ IsFiniteSet(Jobs \ {k}) /\ Cardinality(Jobs \ {k}) = Cardinality(Jobs) - 1
      /\ Cardinality(Jobs) \in Nat
  BY FS_RemoveElement, FS_CardinalityType
<1>7. /\ IsFiniteSet((Jobs \ {k}) \ {a})
      /\ Cardinality((Jobs \ {k}) \ {a}) = Cardinality(Jobs \ {k}) - 1
  BY <1>4, <1>6, FS_RemoveElement
<1>8. Cardinality((Jobs \ {k}) \ {a}) = 0
  BY <1>1, <1>6, <1>7, FS_CardinalityType DEF PairsDeadlock
<1>9. (Jobs \ {k}) \ {a} = {}
  BY <1>7, <1>8, FS_EmptySet
<1> QED
  BY <1>4, <1>5, <1>9

LEMMA PaidKeeps ==
  ASSUME NoStrays, IInv, FitInv, PaidInv, MergesOnly, PairsDeadlock, IsFiniteSet(Jobs),
         [Next]_vars, NEW j \in Jobs
  PROVE  PaidFor(j)'
<1> DEFINE paid == Cardinality(MergedBeside(j))
           paid2 == Cardinality(MergedBeside(j))'
<1>1. /\ attempts[j] \in Nat /\ paid \in Nat /\ paid2 \in Nat /\ paid <= paid2
      /\ attempts[j] <= paid
      /\ pc[j] = "catch" \/ ~RowsFit(j) => attempts[j] < paid
      /\ (\E k \in Jobs \ {j} : MergeOf(k)) => paid < paid2
  BY PaymentsGrow, PipelineAssumption DEF PaidInv, PaidFor, IInv, TypeOK
<1>2. RowsDistinct(j) /\ Sound(db)
  BY DEF FitInv
<1>3. PaidFor(j)' <=> /\ attempts'[j] <= paid2
                      /\ pc'[j] = "catch" \/ ~RowsFit(j)' => attempts'[j] < paid2
  BY DEF PaidFor
<1> HIDE DEF paid, paid2
<1>4. CASE QuietStep(j)
  <2>1. RowsFit(j) => RowsFit(j)'
    BY <1>2, <1>4, OwnFits
  <2>2. CASE Catch(j)
    <3>1. pc[j] = "catch" /\ pc'[j] \in {"waiting", "failed"} /\ attempts'[j] = attempts[j] + 1
      BY <2>2 DEF Catch, EndRun, GoTo, IInv, TypeOK
    <3>2. RowsFit(j)'
      BY <3>1 DEF RowsFit, Reading
    <3> QED
      BY <1>1, <1>3, <3>1, <3>2
  <2>3. CASE MergeRefused(j)
    <3>1. ~RowsFit(j) /\ attempts' = attempts
      BY <1>2, <2>3, FitIsAccepted DEF MergeRefused
    <3> QED
      BY <1>1, <1>3, <3>1
  <2>4. CASE StrayDelete(j)
    <3>1. pc' = pc /\ attempts' = attempts
      BY <2>4 DEF StrayDelete
    <3> QED
      BY <1>1, <1>3, <2>1, <3>1
  <2>5. CASE ~Catch(j) /\ ~MergeRefused(j) /\ ~StrayDelete(j)
    <3>1. pc'[j] # "catch" /\ attempts' = attempts
      BY <1>4, <2>5 DEF MergesOnly, QuietStep, OwnStep, IInv, TypeOK, Step, ClearFails,
         EndRun, Start, ClearPrevious, ReadBad, ReadGood, ReadEnd, Progress, Lookup, WriteItem,
         RejectItem, CopyBatch, RejectSlugs, Save, Tidy, Complete, Ack, StatementFails, Crash,
         GoTo, Staged
    <3> QED
      BY <1>1, <1>3, <2>1, <3>1
  <2> QED
    BY <2>2, <2>3, <2>4, <2>5
<1>5. CASE MergeOf(j)
  <2>1. RowsFit(j)' /\ pc'[j] = "save" /\ attempts' = attempts
    BY <1>2, <1>5, MergeKeepsSound DEF MergeOf
  <2> QED
    BY <1>1, <1>3, <2>1
<1>6. CASE Beside(j) /\ pc'[j] = pc[j] /\ db' = db
  <2>1. (RowsFit(j) => RowsFit(j)') /\ attempts'[j] = attempts[j]
    BY <1>2, <1>6, BesideFits DEF Beside
  <2> QED
    BY <1>1, <1>3, <1>6, <2>1
<1>7. CASE Beside(j) /\ \E k \in Jobs \ {j} : MergeOf(k)
  <2>1. attempts'[j] = attempts[j]
    BY <1>7 DEF Beside
  <2> QED
    BY <1>1, <1>3, <1>7, <2>1
<1> QED
  BY <1>4, <1>5, <1>6, <1>7, Views, SomeoneAccepted

(* Only merges make imports fail, where no statement fails and no process  *)
(* dies: an import has failed at most as often as other imports merged, so *)
(* imports that race for the same rows can not keep undoing each other.    *)
(* Any number of imports may refuse each other's merges.  Where merges are *)
(* aborted as well it is said of two imports, and is false of three: one   *)
(* may be refused because of the first, and then aborted for a second      *)
(* merge that the first refuses too.                                       *)
THEOREM FailuresArePaid ==
  ASSUME MergesOnly, PairsDeadlock, IsFiniteSet(Jobs)
  PROVE  Spec => []FailuresArePaidFor
<1>0. NoStrays
  BY DEF MergesOnly, NoStrays
<1>1. Init => PaidInv
  <2> SUFFICES ASSUME Init, NEW j \in Jobs PROVE PaidFor(j)
    BY DEF PaidInv
  <2>1. MergedBeside(j) = {} /\ attempts[j] = 0 /\ pc[j] = "waiting"
    BY DEF Init, MergedBeside, AfterMerge
  <2> QED
    BY <2>1, FS_EmptySet DEF PaidFor, RowsFit, Reading
<1>2. IInv /\ FitInv /\ PaidInv /\ [Next]_vars => PaidInv'
  BY <1>0, PaidKeeps DEF PaidInv
<1>3. PaidInv => FailuresArePaidFor
  BY DEF PaidInv, PaidFor, FailuresArePaidFor
<1> QED
  BY <1>0, <1>1, <1>2, <1>3, FitInductive, Inductive, PTL DEF Spec

Exhausted == \A j \in Jobs : pc[j] = "failed" => attempts[j] = MaxAttempts

LEMMA ExhaustedKeeps ==
  ASSUME IInv, Exhausted, [Next]_vars
  PROVE  Exhausted'
<1> SUFFICES ASSUME NEW j \in Jobs, pc'[j] = "failed" PROVE attempts'[j] = MaxAttempts
  BY DEF Exhausted
<1>1. CASE QuietStep(j)
  <2>0. CASE StrayDelete(j)
    BY <2>0 DEF StrayDelete, Exhausted
  <2>1. Catch(j) \/ StrayDelete(j)
    BY <1>1 DEF QuietStep, OwnStep, IInv, TypeOK, Step, ClearFails, EndRun, Start,
       ClearPrevious, ReadBad, ReadGood, ReadEnd, Progress, Lookup, WriteItem, RejectItem,
       CopyBatch, RejectSlugs, MergeRefused, Save, Tidy, Complete, Ack, StatementFails, Crash,
       GoTo, Staged, Running
  <2>2. CASE Catch(j)
    <3>1. /\ pc[j] = "catch" /\ ~(attempts[j] + 1 < MaxAttempts)
          /\ attempts'[j] = attempts[j] + 1
      BY <2>2 DEF Catch, EndRun, GoTo, IInv, TypeOK
    <3>2. attempts[j] < MaxAttempts /\ attempts[j] \in Nat /\ MaxAttempts \in Nat
      BY <3>1, PipelineAssumption DEF IInv, TypeOK, JobInv, AttemptsLeft, Running
    <3> QED
      BY <3>1, <3>2
  <2> QED
    BY <2>0, <2>1, <2>2
<1>2. CASE MergeOf(j)
  BY <1>2 DEF MergeOf
<1>3. CASE Beside(j)
  BY <1>3 DEF Beside, Exhausted
<1> QED
  BY <1>1, <1>2, <1>3, Views

(* With at most as many imports as attempts, none of them ever fails for   *)
(* what the others do, if merges refuse each other or if two of them are   *)
(* stuck: the safety half of ImportsComplete, for any files and tables.    *)
THEOREM NoImportFails ==
  ASSUME MergesOnly, PairsDeadlock, IsFiniteSet(Jobs), Cardinality(Jobs) <= MaxAttempts
  PROVE  Spec => [](\A j \in Jobs : pc[j] # "failed")
<1>0. NoStrays
  BY DEF MergesOnly, NoStrays
<1>1. Init => Exhausted
  BY DEF Init, Exhausted
<1>2. IInv /\ Exhausted /\ [Next]_vars => Exhausted'
  BY ExhaustedKeeps
<1>3. IInv /\ Exhausted /\ FailuresArePaidFor => \A j \in Jobs : pc[j] # "failed"
  <2> SUFFICES ASSUME Exhausted, FailuresArePaidFor, NEW j \in Jobs, pc[j] = "failed"
               PROVE  FALSE
    OBVIOUS
  <2>1. attempts[j] = MaxAttempts /\ attempts[j] <= Cardinality(MergedBeside(j))
    BY DEF Exhausted, FailuresArePaidFor
  <2>2. MergedBeside(j) \subseteq Jobs \ {j}
    BY DEF MergedBeside
  <2>3. IsFiniteSet(Jobs \ {j}) /\ Cardinality(Jobs \ {j}) = Cardinality(Jobs) - 1
    BY FS_RemoveElement
  <2>4. /\ Cardinality(MergedBeside(j)) <= Cardinality(Jobs \ {j})
        /\ Cardinality(MergedBeside(j)) \in Nat
    BY <2>2, <2>3, FS_Subset, FS_CardinalityType
  <2> QED
    BY <2>1, <2>3, <2>4, FS_CardinalityType, PipelineAssumption
<1> QED
  BY <1>0, <1>1, <1>2, <1>3, FailuresArePaid, Inductive, PTL DEF Spec

-----------------------------------------------------------------------------
(* What a run has decided about, line by line.                             *)

(* The decided lines before the merge, whatever the entity.                *)
LEMMA Decided ==
  ASSUME IInv, NEW j \in Jobs, pc[j] \in {"slugs", "merge"}
  PROVE  /\ Kept(j) = staging[j]
         /\ errors[j] \cup LinesOf(staging[j]) = Lines(j)
         /\ errors[j] \cap LinesOf(staging[j]) = {}
         /\ Length(j) \in Nat
  BY Settled, Known DEF Counting, Reading, Lines

(* An eligible line that was given up repeats an earlier kept row, and no  *)
(* two kept rows are the same: the kept lines are the first of their rows. *)
LEMMA KeptAreFirst ==
  ASSUME IInv, NEW j \in Jobs, RowsDistinct(j), pc[j] \in {"slugs", "merge"},
         Entity(j) # "users", DecidedInOrder(j)
  PROVE  FirstOfRow(j) = LinesOf(staging[j])
<1> DEFINE kept == staging[j]
           Id(n) == Resolved(db, Entity(j), Record(j, n))
<1>1. \A m, n : SameRow(j, m, n) <=> Id(m) = Id(n)
  BY DEF SameRow
<1>2. \A r \in kept : r.line \in Lines(j) /\ Eligible(j, r.line) /\ r.id = Id(r.line)
  BY Decided DEF DecidedInOrder, KeptIsRow, LinesOf
<1>3. \A n \in Lines(j) \ LinesOf(kept) :
        Eligible(j, n) => \E r \in kept : r.line < n /\ r.id = Id(n)
  BY Decided DEF DecidedInOrder, Supersedes
<1>4. \A r, s \in kept : r # s => r.id # s.id
  BY Decided DEF RowsDistinct
<1>5. \A n \in Lines(j) : n \in Nat \ {0}
  BY Decided DEF Lines
<1> HIDE DEF kept, Id
<1>6. ASSUME NEW n \in Lines(j) \ LinesOf(kept) PROVE n \notin FirstOfRow(j)
  <2> SUFFICES ASSUME Eligible(j, n) PROVE n \notin FirstOfRow(j)
    BY DEF FirstOfRow
  <2>1. PICK r \in kept : r.line < n /\ r.id = Id(n)
    BY <1>3
  <2>2. r.line \in 1..n-1 /\ Eligible(j, r.line) /\ Id(r.line) = Id(n)
    BY <1>2, <1>5, <2>1
  <2> QED
    BY <1>1, <2>2 DEF FirstOfRow
<1>7. ASSUME NEW r \in kept PROVE r.line \in FirstOfRow(j)
  <2> SUFFICES ASSUME NEW m \in 1..r.line-1, Eligible(j, m), Id(m) = Id(r.line) PROVE FALSE
    BY <1>1, <1>2 DEF FirstOfRow
  <2>0. \A s \in kept : s.line \in Nat
    BY <1>2, <1>5
  <2>1. m \in Lines(j) /\ m < r.line /\ m \in Nat
    BY <1>2, <2>0, Decided DEF Lines
  <2>2. PICK s \in kept : s.line <= m /\ s.id = Id(m)
    <3>1. CASE m \in LinesOf(kept)
      BY <1>2, <2>1, <3>1 DEF LinesOf
    <3>2. CASE m \notin LinesOf(kept)
      <4>1. PICK s \in kept : s.line < m /\ s.id = Id(m)
        BY <1>3, <2>1, <3>2
      <4> QED
        BY <2>0, <2>1, <4>1
    <3> QED
      BY <3>1, <3>2
  <2>3. s.line # r.line
    BY <2>0, <2>1, <2>2
  <2> QED
    BY <1>2, <1>4, <2>2, <2>3
<1>8. FirstOfRow(j) \subseteq Lines(j) /\ LinesOf(kept) \subseteq Lines(j)
  BY <1>2 DEF FirstOfRow, LinesOf
<1>9. LinesOf(kept) \subseteq FirstOfRow(j)
  BY <1>7 DEF LinesOf
<1>10. FirstOfRow(j) = LinesOf(kept)
  BY <1>6, <1>8, <1>9
<1> QED
  BY <1>10 DEF kept

LEMMA SelectsUsers ==
  ASSUME IInv, NEW j \in Jobs, RowsDistinct(j), pc[j] = "merge", Entity(j) = "users",
         DecidedInOrder(j)
  PROVE  Selects(j, LinesOf(staging[j]))
<1> DEFINE kept == staging[j]
           chosen == LinesOf(kept)
           Id(n) == Resolved(db, Entity(j), Record(j, n))
<1>1. \A m, n : /\ SameRow(j, m, n) <=> Id(m) = Id(n)
                /\ Repeats(j, m, n) <=> Record(j, m).key = Record(j, n).key
  BY DEF SameRow, Repeats
<1>2. \A r \in kept : /\ r.line \in Lines(j) /\ Eligible(j, r.line)
                      /\ r.id = Id(r.line) /\ r.key = Record(j, r.line).key
  BY Decided DEF DecidedInOrder, KeptIsRow, LinesOf
<1>3. \A n \in Lines(j) \ chosen : Eligible(j, n) =>
        \E r \in kept : r.line < n /\ (r.id = Id(n) \/ r.key = Record(j, n).key)
  BY Decided DEF DecidedInOrder, Supersedes
<1>4. \A r, s \in kept : r # s => r.id # s.id /\ r.key # s.key
  BY Decided DEF RowsDistinct
<1>5. \A n \in Lines(j) : n \in Nat \ {0}
  BY Decided DEF Lines
<1>6. \A r \in kept : r.line \in chosen
  BY DEF LinesOf
<1>7. \A n \in chosen : \E r \in kept : r.line = n
  BY DEF LinesOf
<1> HIDE DEF kept, chosen, Id
<1>8. ASSUME NEW n \in Lines(j) \ chosen, Eligible(j, n)
      PROVE  \E m \in chosen \cap 1..n-1 : SameRow(j, m, n) \/ Repeats(j, m, n)
  <2>1. PICK r \in kept : r.line < n /\ (r.id = Id(n) \/ r.key = Record(j, n).key)
    BY <1>3, <1>8
  <2>2. r.line \in chosen \cap 1..n-1
    BY <1>2, <1>5, <1>6, <2>1
  <2> QED
    BY <1>1, <1>2, <2>1, <2>2
<1>9. ASSUME NEW n \in chosen
      PROVE  /\ n \in Lines(j) /\ Eligible(j, n)
             /\ \A m \in chosen \cap 1..n-1 : ~SameRow(j, m, n) /\ ~Repeats(j, m, n)
  <2>1. PICK r \in kept : r.line = n
    BY <1>7
  <2>2. ASSUME NEW m \in chosen \cap 1..n-1 PROVE ~SameRow(j, m, n) /\ ~Repeats(j, m, n)
    <3>1. PICK s \in kept : s.line = m
      BY <1>7
    <3>2. s # r
      BY <1>2, <1>5, <2>1, <2>2, <3>1
    <3> QED
      BY <1>1, <1>2, <1>4, <2>1, <3>1, <3>2
  <2> QED
    BY <1>2, <2>1, <2>2
<1>10. chosen = {n \in Lines(j) :
                   /\ Eligible(j, n)
                   /\ \A m \in chosen \cap 1..n-1 : ~SameRow(j, m, n) /\ ~Repeats(j, m, n)}
  BY <1>8, <1>9
<1> QED
  BY <1>10 DEF Selects, chosen, kept

(* The kept comments have ids of their own, and these are their keys.      *)
LEMMA SelectsComments ==
  ASSUME IInv, NEW j \in Jobs, RowsDistinct(j), pc[j] = "merge", Entity(j) = "comments",
         DecidedInOrder(j)
  PROVE  Selects(j, LinesOf(staging[j]))
<1> DEFINE first == FirstOfRow(j)
<1>1. first = LinesOf(staging[j])
  BY KeptAreFirst
<1>2. \A r \in staging[j] : r.key = Record(j, r.line).key
  BY Decided DEF DecidedInOrder, KeptIsRow
<1>3. \A r, s \in staging[j] : r # s => r.key # s.key
  BY Decided DEF RowsDistinct
<1>4. \A n \in first : n \in Nat
  BY <1>1, RowsTyped, Decided DEF LinesOf, Rows
<1>5. ASSUME NEW n \in first, NEW m \in first, m # n PROVE ~Repeats(j, m, n)
  BY <1>1, <1>2, <1>3, <1>5 DEF LinesOf, Repeats
<1>6. \A n \in first : \A m \in first \cap 1..n-1 : m # n
  BY <1>4
<1> HIDE DEF first
<1>7. first = {n \in first : \A m \in first \cap 1..n-1 : ~Repeats(j, m, n)}
  BY <1>5, <1>6
<1> QED
  BY <1>1, <1>7 DEF Selects, first

(* Of the staged articles, those go that repeat the slug of an earlier one *)
(* of them.                                                                *)
LEMMA SelectsArticles ==
  ASSUME IInv, NEW j \in Jobs, RowsDistinct(j), RowsFit(j), RejectSlugs(j), Entity(j) = "articles",
         DecidedInOrder(j)
  PROVE  Selects(j, LinesOf(staging[j]))'
<1> DEFINE kept == staging[j]
           left == kept \ SlugConflicts(db["articles"], kept)
           first == FirstOfRow(j)
<1>1. /\ pc[j] = "slugs" /\ staging'[j] = left
      /\ UNCHANGED <<db, bulk>>
  BY DEF RejectSlugs, IInv, TypeOK
<1>2. first = LinesOf(kept)
  BY <1>1, KeptAreFirst
<1>3. /\ \A r \in kept : r.key = Record(j, r.line).key
      /\ \A r \in kept, i \in Names : db["articles"][i] = r.key => i = r.id
      /\ \A r, s \in kept : r # s => r.id # s.id
      /\ \A r, s \in kept : r.line = s.line => r = s
      /\ \A r \in kept : r.line \in Nat \ {0}
  BY <1>1, Decided, RowsTyped, Known
     DEF DecidedInOrder, KeptIsRow, RowsDistinct, RowsFit, OneRowPerLine, Rows
<1>4. left = {r \in kept : \A s \in kept : s.line < r.line => s.key # r.key}
  <2>1. ASSUME NEW r \in kept
        PROVE  r \in SlugConflicts(db["articles"], kept)
               <=> \E s \in kept : s.line < r.line /\ s.key = r.key
    <3>1. \A s \in kept : ~\E i \in Names : db["articles"][i] = s.key /\ i # s.id
      BY <1>3
    <3>2. \A s \in kept : s.line < r.line => s.id # r.id
      BY <1>3
    <3> QED
      BY <3>1, <3>2 DEF SlugConflicts
  <2> QED
    BY <2>1
<1> HIDE DEF left
<1>5. ASSUME NEW n \in first
      PROVE  n \in LinesOf(left) <=> \A m \in first \cap 1..n-1 : ~Repeats(j, m, n)
  <2>1. PICK r \in kept : r.line = n
    BY <1>2 DEF LinesOf
  <2>2. n \in LinesOf(left) <=> r \in left
    BY <1>3, <1>4, <2>1 DEF LinesOf
  <2>3. (\A s \in kept : s.line < n => s.key # r.key)
        <=> \A m \in first \cap 1..n-1 : ~Repeats(j, m, n)
    <3>1. ASSUME NEW s \in kept, s.line < n, s.key = r.key
          PROVE  \E m \in first \cap 1..n-1 : Repeats(j, m, n)
      <4>1. s.line \in first \cap 1..n-1
        BY <1>2, <1>3, <2>1, <3>1 DEF LinesOf
      <4>2. Repeats(j, s.line, n)
        BY <1>3, <2>1, <3>1 DEF Repeats
      <4> QED
        BY <4>1, <4>2
    <3>2. ASSUME NEW m \in first \cap 1..n-1, Repeats(j, m, n)
          PROVE  \E s \in kept : s.line < n /\ s.key = r.key
      <4>1. PICK s \in kept : s.line = m
        BY <1>2 DEF LinesOf
      <4>2. s.line < n
        BY <1>3, <2>1, <3>2, <4>1
      <4> QED
        BY <1>3, <2>1, <3>2, <4>1, <4>2 DEF Repeats
    <3> QED
      BY <3>1, <3>2
  <2> QED
    BY <1>4, <2>1, <2>2, <2>3
<1>6. LinesOf(left) \subseteq first
  BY <1>2, <1>4 DEF LinesOf
<1>7. LinesOf(left) = {n \in first : \A m \in first \cap 1..n-1 : ~Repeats(j, m, n)}
  BY <1>5, <1>6
<1>8. Selects(j, LinesOf(left))
  BY <1>7 DEF Selects, first
<1>9. /\ first' = first /\ LinesOf(staging[j])' = LinesOf(left)
      /\ \A m, n : Repeats(j, m, n)' <=> Repeats(j, m, n)
  BY <1>1 DEF FirstOfRow, Lines, Length, Eligible, Record, Entity, SameRow, Repeats, LinesOf
<1> HIDE DEF first
<1>10. Entity(j)' = "articles"
  BY <1>1 DEF Entity
<1> QED
  BY <1>7, <1>9, <1>10 DEF Selects, first

-----------------------------------------------------------------------------
(* Tables that agree where an import reads say the same about its lines.   *)
LEMMA SameView ==
  ASSUME IInv, NEW j \in Jobs, NEW d1, NEW d2, \A e \in Reads(j) : d1[e] = d2[e],
         NEW n \in Lines(j), Record(j, n).good
  PROVE  /\ Resolved(d1, Entity(j), Record(j, n)) = Resolved(d2, Entity(j), Record(j, n))
         /\ Orphan(d1, Record(j, n)) <=> Orphan(d2, Record(j, n))
         /\ Mismatch(d1, Entity(j), Record(j, n)) <=> Mismatch(d2, Entity(j), Record(j, n))
<1>1. d1[Entity(j)] = d2[Entity(j)]
  BY DEF Reads
<1>2. Owners(d1, Entity(j), Record(j, n).key) = Owners(d2, Entity(j), Record(j, n).key)
  BY <1>1 DEF Owners
<1>3. \A e \in Entities : Record(j, n).refs[e] # {} => d1[e] = d2[e]
  BY DEF Reads
<1>4. Orphan(d1, Record(j, n)) <=> Orphan(d2, Record(j, n))
  BY <1>3 DEF Orphan, Has
<1> QED
  BY <1>2, <1>4 DEF Resolved, Mismatch

LEMMA SameTable ==
  ASSUME NEW j \in Jobs, SameFile(j), db'[Entity(j)] = db[Entity(j)]
  PROVE  /\ Entity(j)' = Entity(j) /\ Lines(j)' = Lines(j)
         /\ \A n : Record(j, n)' = Record(j, n)
         /\ \A m, n : SameRow(j, m, n)' <=> SameRow(j, m, n)
         /\ \A m, n : Repeats(j, m, n)' <=> Repeats(j, m, n)
         /\ \A n : InTable(j, n)' <=> InTable(j, n)
         /\ \A r, n : Supersedes(j, r, n)' <=> Supersedes(j, r, n)
         /\ \A n : Resolved(db, Entity(j), Record(j, n))' = Resolved(db, Entity(j), Record(j, n))
<1>1. /\ Entity(j)' = Entity(j) /\ Lines(j)' = Lines(j)
      /\ \A n : Record(j, n)' = Record(j, n)
  BY FileFacts
<1>2. \A k : Owners(db', Entity(j), k) = Owners(db, Entity(j), k)
  BY DEF Owners
<1>3. ASSUME NEW r PROVE Resolved(db', Entity(j), r) = Resolved(db, Entity(j), r)
  <2>1. Owners(db', Entity(j), r.key) = Owners(db, Entity(j), r.key)
    BY <1>2
  <2> QED
    BY <2>1 DEF Resolved
<1>4. \A n : Resolved(db, Entity(j), Record(j, n))' = Resolved(db, Entity(j), Record(j, n))
  BY <1>1, <1>3
<1> QED
  BY <1>1, <1>2, <1>3, <1>4 DEF SameRow, Repeats, InTable, Supersedes

LEMMA SameEligible ==
  ASSUME IInv, NEW j \in Jobs, SameFile(j), \A e \in Reads(j) : db'[e] = db[e],
         NEW n \in Lines(j)
  PROVE  Eligible(j, n)' <=> Eligible(j, n)
<1>1. Entity(j)' = Entity(j) /\ Record(j, n)' = Record(j, n)
  BY FileFacts
<1>2. CASE Record(j, n).good
  <2>1. /\ Orphan(db', Record(j, n)) <=> Orphan(db, Record(j, n))
        /\ Mismatch(db', Entity(j), Record(j, n)) <=> Mismatch(db, Entity(j), Record(j, n))
    BY <1>2, SameView
  <2>2. Eligible(j, n)' <=> /\ Record(j, n).good
                           /\ ~Orphan(db', Record(j, n))
                           /\ ~Mismatch(db', Entity(j), Record(j, n))
    BY <1>1 DEF Eligible
  <2> QED
    BY <2>1, <2>2 DEF Eligible
<1>3. CASE ~Record(j, n).good
  BY <1>1, <1>3 DEF Eligible
<1> QED
  BY <1>2, <1>3

-----------------------------------------------------------------------------
(* Every step decides the next line, and only that.                        *)
Unmoved(j) == UNCHANGED <<db, bulk>>

LEMMA SameWords ==
  ASSUME NEW j \in Jobs, Unmoved(j)
  PROVE  /\ Entity(j)' = Entity(j)
         /\ \A n : Eligible(j, n)' <=> Eligible(j, n)
         /\ \A r : KeptIsRow(j, r)' <=> KeptIsRow(j, r)
         /\ \A r, n : Supersedes(j, r, n)' <=> Supersedes(j, r, n)
  BY DEF Unmoved, Entity, Eligible, KeptIsRow, Supersedes, Record

(* What the batch has looked up is what the tables still say.              *)
UpToDate(j) == \A e \in Reads(j) : found[j][e] = db[e]

LEMMA WriteItemChooses ==
  ASSUME IInv, NEW j \in Jobs, UpToDate(j), DecidedInOrder(j), WriteItem(j)
  PROVE  DecidedInOrder(j)'
<1>1. PICK n \in todo[j] : /\ IsNext(j, n) /\ ItemAccepted(j, n)
                           /\ batch' = [batch EXCEPT ![j] = @ \cup {RowOf(j, n)}]
                           /\ todo' = [todo EXCEPT ![j] = @ \ {n}]
  BY DEF WriteItem
<1> DEFINE row == RowOf(j, n)
<1>2. /\ pc[j] = "items" /\ pc'[j] = "items" /\ Unmoved(j) /\ errors' = errors
      /\ Kept(j)' = Kept(j) \cup {row}
      /\ Pending(j) = todo[j] /\ Pending(j)' = todo[j] \ {n}
  BY <1>1 DEF WriteItem, Kept, Pending, Unmoved, IInv, TypeOK
<1>3. n \in Lines(j) /\ Record(j, n).good
  BY Known DEF PendingAreGood, Lines
<1>4. row.line = n /\ KeptIsRow(j, row)
  <2>1. /\ Resolved(found[j], Entity(j), Record(j, n)) = Resolved(db, Entity(j), Record(j, n))
        /\ Orphan(found[j], Record(j, n)) <=> Orphan(db, Record(j, n))
        /\ Mismatch(found[j], Entity(j), Record(j, n)) <=> Mismatch(db, Entity(j), Record(j, n))
    BY <1>3, SameView DEF UpToDate
  <2> QED
    BY <1>1, <1>3, <2>1 DEF RowOf, KeptIsRow, Eligible, ItemAccepted, Accepted
<1>5. \A m \in todo[j] \ {n} : n < m
  <2>1. \A m \in todo[j] : m \in Nat
    BY DEF IInv, TypeOK
  <2> QED
    BY <1>1, <2>1 DEF IsNext
<1> HIDE DEF row
<1>6. \A r \in Kept(j)', m \in Pending(j)' : r.line < m
  BY <1>2, <1>4, <1>5 DEF DecidedInOrder
<1>7. \A r \in Kept(j)' : KeptIsRow(j, r)'
  BY <1>2, <1>4, SameWords DEF DecidedInOrder
<1>8. \A m \in errors'[j] : Eligible(j, m)' => \E r \in Kept(j)' : Supersedes(j, r, m)'
  BY <1>2, SameWords DEF DecidedInOrder
<1> QED
  BY <1>6, <1>7, <1>8 DEF DecidedInOrder

LEMMA RejectItemChooses ==
  ASSUME IInv, NEW j \in Jobs, UpToDate(j), DecidedInOrder(j), RejectItem(j)
  PROVE  DecidedInOrder(j)'
<1>1. PICK n \in todo[j] : /\ ~ItemAccepted(j, n)
                           /\ errors' = [errors EXCEPT ![j] = @ \cup {n}]
                           /\ todo' = [todo EXCEPT ![j] = @ \ {n}]
  BY DEF RejectItem
<1>2. /\ pc[j] = "items" /\ pc'[j] = "items" /\ Unmoved(j)
      /\ errors'[j] = errors[j] \cup {n} /\ Kept(j)' = Kept(j)
      /\ Pending(j) = todo[j] /\ Pending(j)' = todo[j] \ {n}
  BY <1>1 DEF RejectItem, Kept, Pending, Unmoved, IInv, TypeOK
<1>3. n \in Lines(j) /\ Record(j, n).good
  BY Known DEF PendingAreGood, Lines
<1>4. Eligible(j, n) => \E r \in Kept(j) : Supersedes(j, r, n)
  <2>1. \A r \in Kept(j) : r.line < n
    BY <1>2 DEF DecidedInOrder
  <2>2. /\ Resolved(found[j], Entity(j), Record(j, n)) = Resolved(db, Entity(j), Record(j, n))
        /\ Orphan(found[j], Record(j, n)) <=> Orphan(db, Record(j, n))
        /\ Mismatch(found[j], Entity(j), Record(j, n)) <=> Mismatch(db, Entity(j), Record(j, n))
    BY <1>3, SameView DEF UpToDate
  <2> QED
    BY <1>1, <2>1, <2>2
       DEF ItemAccepted, Accepted, SameKey, Eligible, Supersedes, Kept
<1>5. \A r \in Kept(j)', m \in Pending(j)' : r.line < m
  BY <1>2 DEF DecidedInOrder
<1>6. \A r \in Kept(j)' : KeptIsRow(j, r)'
  BY <1>2, SameWords DEF DecidedInOrder
<1>7. \A m \in errors'[j] : Eligible(j, m)' => \E r \in Kept(j)' : Supersedes(j, r, m)'
  BY <1>2, <1>4, SameWords DEF DecidedInOrder
<1> QED
  BY <1>5, <1>6, <1>7 DEF DecidedInOrder

(* Reading adds a later line to the pending ones, or a bad one to the      *)
(* errors; handing a batch over only moves lines.                          *)
LEMMA LoopChooses ==
  ASSUME IInv, NEW j \in Jobs, pc[j] \in Reading, DecidedInOrder(j),
         \/ ReadBad(j) \/ ReadGood(j) \/ ReadEnd(j) \/ Progress(j)
         \/ Lookup(j) \/ CopyBatch(j)
  PROVE  DecidedInOrder(j)'
<1>1. Unmoved(j)
  BY DEF Unmoved, ReadBad, ReadGood, ReadEnd, Progress, Lookup, CopyBatch
<1>2. Kept(j)' = Kept(j)
  BY DEF ReadBad, ReadGood, ReadEnd, Progress, Lookup, CopyBatch, Kept, Set, run, IInv, TypeOK
<1>3. \A m \in errors'[j] : m \in errors[j] \/ ~Eligible(j, m)
  BY DEF ReadBad, ReadGood, ReadEnd, Progress, Lookup, CopyBatch, Eligible, IInv, TypeOK
<1>4. \A m \in Pending(j)' : m \in Pending(j) \/ m = NextLine(j)
  BY DEF ReadBad, ReadGood, ReadEnd, Progress, Lookup, CopyBatch, Pending, GoTo, Set, Staged,
     run, IInv, TypeOK
<1>5. \A r \in Kept(j) : r.line < NextLine(j)
  <2>1. LinesOf(Kept(j)) \subseteq 1..totals[j].read
    BY Known DEF LinesAccounted, Counting
  <2> QED
    BY <2>1, Known DEF LinesOf, NextLine
<1>6. \A r \in Kept(j)', m \in Pending(j)' : r.line < m
  BY <1>2, <1>4, <1>5 DEF DecidedInOrder
<1>7. \A r \in Kept(j)' : KeptIsRow(j, r)'
  BY <1>1, <1>2, SameWords DEF DecidedInOrder
<1>8. \A m \in errors'[j] : Eligible(j, m)' => \E r \in Kept(j)' : Supersedes(j, r, m)'
  BY <1>1, <1>2, <1>3, SameWords DEF DecidedInOrder
<1> QED
  BY <1>6, <1>7, <1>8 DEF DecidedInOrder

(* What an import apart has chosen does not depend on the others.          *)
LEMMA BesideChooses ==
  ASSUME IInv, NEW j \in Jobs, Apart(j), ChoiceFits(j), Beside(j),
         \A e \in Reads(j) : db'[e] = db[e]
  PROVE  ChoiceFits(j)'
<1>1. /\ SameFile(j) /\ Kept(j)' = Kept(j) /\ errors'[j] = errors[j]
      /\ staging'[j] = staging[j] /\ found'[j] = found[j]
      /\ pc'[j] = pc[j] \/ pc'[j] = "catch"
      /\ pc'[j] = pc[j] => Pending(j)' = Pending(j)
  BY DEF Beside, Kept, Pending
<1>2. /\ db'[Entity(j)] = db[Entity(j)]
      /\ Entity(j)' = Entity(j) /\ Lines(j)' = Lines(j) /\ Reads(j)' = Reads(j)
  BY <1>1, FileFacts DEF Reads
<1>3. \A n \in Lines(j) : Eligible(j, n)' <=> Eligible(j, n)
  BY <1>1, SameEligible
<1>4. CASE pc'[j] = "catch"
  BY <1>4 DEF ChoiceFits, Reading
<1>5. CASE pc'[j] = pc[j] /\ pc[j] \in Reading \cup {"slugs", "merge"}
  <2>1. errors[j] \subseteq Lines(j) /\ \A r \in Kept(j) : r.line \in Lines(j)
    <3>1. errors[j] \subseteq 1..totals[j].read /\ LinesOf(Kept(j)) \subseteq 1..totals[j].read
      BY <1>5, Known DEF LinesAccounted, Counting, Reading
    <3>2. \A n \in 1..totals[j].read : n \in Lines(j)
      BY Known DEF Lines
    <3> QED
      BY <3>1, <3>2 DEF LinesOf
  <2>0. ASSUME NEW r \in Kept(j), KeptIsRow(j, r) PROVE KeptIsRow(j, r)'
    <3>1. Eligible(j, r.line)' <=> Eligible(j, r.line)
      BY <1>3, <2>1
    <3>2. /\ Record(j, r.line)' = Record(j, r.line)
          /\ Resolved(db, Entity(j), Record(j, r.line))'
               = Resolved(db, Entity(j), Record(j, r.line))
      BY <1>1, <1>2, SameTable
    <3> QED
      BY <2>0, <3>1, <3>2 DEF KeptIsRow
  <2>2. DecidedInOrder(j) => DecidedInOrder(j)'
    <3> SUFFICES ASSUME DecidedInOrder(j) PROVE DecidedInOrder(j)'
      OBVIOUS
    <3>1. \A r \in Kept(j)', n \in Pending(j)' : r.line < n
      BY <1>1, <1>5 DEF DecidedInOrder
    <3>2. \A r \in Kept(j)' : KeptIsRow(j, r)'
      BY <1>1, <2>0 DEF DecidedInOrder
    <3>3. \A n \in errors'[j] : Eligible(j, n)' => \E r \in Kept(j)' : Supersedes(j, r, n)'
      BY <1>1, <1>2, <1>3, <2>1, SameTable DEF DecidedInOrder
    <3> QED
      BY <3>1, <3>2, <3>3 DEF DecidedInOrder
  <2>3. FirstOfRow(j)' = FirstOfRow(j)
    <3>1. \A n \in Lines(j) : \A m \in 1..n-1 : m \in Lines(j)
      BY Known DEF Lines
    <3>2. \A m, n : SameRow(j, m, n)' <=> SameRow(j, m, n)
      BY <1>1, <1>2, SameTable
    <3> QED
      BY <1>2, <1>3, <3>1, <3>2 DEF FirstOfRow
  <2>4. Entity(j) = "articles" =>
          (Selects(j, LinesOf(staging[j])) => Selects(j, LinesOf(staging[j]))')
    <3>1. \A m, n : Repeats(j, m, n)' <=> Repeats(j, m, n)
      BY <1>1, <1>2, SameTable
    <3>2. LinesOf(staging[j])' = LinesOf(staging[j])
      BY <1>1 DEF LinesOf
    <3> HIDE DEF FirstOfRow
    <3> QED
      BY <1>2, <2>3, <3>1, <3>2 DEF Selects
  <2> QED
    BY <1>1, <1>2, <1>5, <2>0, <2>2, <2>4 DEF ChoiceFits, Reading
<1>6. CASE pc'[j] = pc[j] /\ pc[j] \notin Reading \cup {"slugs", "merge"}
  BY <1>6 DEF ChoiceFits, Reading
<1> QED
  BY <1>1, <1>4, <1>5, <1>6

LEMMA OwnChooses ==
  ASSUME NoStrays, IInv, NEW j \in Jobs, QuietStep(j), ~ClearPrevious(j),
         RowsDistinct(j), RowsFit(j), ChoiceFits(j)
  PROVE  ChoiceFits(j)'
<1>1. CASE \/ Start(j) \/ StatementFails(j) \/ MergeRefused(j) \/ Catch(j) \/ Crash(j)
           \/ Save(j) \/ Tidy(j) \/ Complete(j) \/ Ack(j) \/ ClearFails(j) \/ StrayDelete(j)
  <2>1. pc'[j] \notin Reading \cup {"slugs", "merge"}
    BY <1>1, PcMoves
  <2> QED
    BY <2>1 DEF ChoiceFits, Reading
<1>3. CASE RejectSlugs(j)
  <2>1. pc[j] = "slugs" /\ pc'[j] = "merge" /\ UNCHANGED bulk
    BY <1>3 DEF RejectSlugs, GoTo, IInv, TypeOK
  <2>2. DecidedInOrder(j) /\ Entity(j) = "articles" /\ Entity(j)' = Entity(j)
    BY <2>1 DEF ChoiceFits, Entity
  <2>3. Selects(j, LinesOf(staging[j]))'
    BY <1>3, <2>2, SelectsArticles
  <2>4. \A r \in Kept(j)' : KeptIsRow(j, r)'
    <3>1. Kept(j)' \subseteq Kept(j) /\ UNCHANGED <<db, bulk>>
      BY <1>3 DEF RejectSlugs, Kept, IInv, TypeOK
    <3> QED
      BY <2>2, <3>1, SameWords DEF DecidedInOrder, Unmoved
  <2> QED
    BY <2>1, <2>2, <2>3, <2>4 DEF ChoiceFits, Reading
<1>4. CASE \/ ReadBad(j) \/ ReadGood(j) \/ ReadEnd(j) \/ Progress(j) \/ Lookup(j)
           \/ WriteItem(j) \/ RejectItem(j) \/ CopyBatch(j)
  <2>1. /\ pc[j] \in Reading
        /\ pc'[j] = "merge" => Entity(j)' # "articles"
        /\ pc'[j] = "slugs" => Entity(j)' = "articles"
        /\ pc'[j] = "items" => found'[j] = db \/ (pc[j] = "items" /\ found' = found)
        /\ UNCHANGED <<db, bulk>>
    BY <1>4 DEF IInv, TypeOK, ReadBad, ReadGood, ReadEnd, Progress, Lookup, WriteItem,
       RejectItem, CopyBatch, Staged, GoTo, Set, Entity, Reading, run
  <2>2. pc[j] = "items" => UpToDate(j)
    BY DEF ChoiceFits, UpToDate
  <2>3. pc'[j] = "items" => UpToDate(j)'
    <3>1. Reads(j)' = Reads(j)
      BY <2>1 DEF Reads, Entity, Lines, Length, Record
    <3> QED
      BY <2>1, <2>2, <3>1 DEF UpToDate
  <2>4. DecidedInOrder(j)
    BY <2>1 DEF ChoiceFits
  <2>5. DecidedInOrder(j)'
    BY <1>4, <2>1, <2>2, <2>4, WriteItemChooses, RejectItemChooses, LoopChooses
       DEF WriteItem, RejectItem
  <2> QED
    BY <2>1, <2>3, <2>5 DEF ChoiceFits, UpToDate
<1> QED
  BY <1>1, <1>3, <1>4 DEF QuietStep, OwnStep, Step

(* A run begins with no choice made, whatever it reads.                    *)
LEMMA ClearChooses ==
  ASSUME IInv, NEW j \in Jobs, ClearPrevious(j)
  PROVE  ChoiceFits(j)'
<1>1. pc'[j] = "read" /\ Kept(j)' = {} /\ errors'[j] = {}
  BY Known DEF ClearPrevious, Clear, Deletes, GoTo, Set, FreshStart, Kept, IInv, TypeOK, run
<1> QED
  BY <1>1 DEF ChoiceFits, DecidedInOrder

LEMMA ChoiceKeeps ==
  ASSUME NoStrays, IInv, FitInv, ChoiceInv, [Next]_vars
  PROVE  ChoiceInv'
<1> SUFFICES ASSUME NEW j \in Jobs, Apart(j)', ~ClearPrevious(j) PROVE ChoiceFits(j)'
  BY ClearChooses DEF ChoiceInv
<1>0. Apart(j)
  BY SameFiles, FileFacts
<1>1. ChoiceFits(j) /\ RowsDistinct(j) /\ RowsFit(j)
  BY <1>0, ApartOwns DEF ChoiceInv, FitInv
<1>2. CASE QuietStep(j)
  BY <1>1, <1>2, OwnChooses
<1>3. CASE MergeOf(j)
  BY <1>3 DEF MergeOf, ChoiceFits, Reading
<1>4. CASE Beside(j) /\ (db' = db \/ \E k \in Jobs \ {j} : MergeOf(k))
  BY <1>0, <1>1, <1>4, ViewKept, BesideChooses
<1> QED
  BY <1>2, <1>3, <1>4, Views

LEMMA ChoiceInductive ==
  ASSUME NoStrays
  PROVE  Spec => []ChoiceInv
<1>1. Init => ChoiceInv
  BY DEF Init, ChoiceInv, ChoiceFits, Reading
<1>2. IInv /\ FitInv /\ ChoiceInv /\ [Next]_vars => ChoiceInv'
  BY ChoiceKeeps
<1> QED
  BY <1>1, <1>2, FitInductive, Inductive, PTL DEF Spec

LEMMA ChoiceSelects ==
  ASSUME IInv, FitInv, ChoiceInv, NEW j \in Jobs, pc[j] = "merge", Apart(j)
  PROVE  Selects(j, LinesOf(staging[j]))
<1>1. Entity(j) \in {"users", "articles", "comments"}
  BY RowsTyped DEF Entities
<1>2. RowsDistinct(j) /\ ChoiceFits(j)
  BY DEF FitInv, ChoiceInv
<1> QED
  BY <1>1, <1>2, SelectsUsers, SelectsComments DEF ChoiceFits

(* Batches are invisible: for every file and batch size, what reaches the  *)
(* merge is what one pass over all that the run reads selects, also when   *)
(* the job is a retry after a crash, and while any number of imports write *)
(* to tables that this one does not read.  Assumed is only that no delete  *)
(* of an attempt is still on its way when the next one begins.             *)
THEOREM FirstLineWins ==
  ASSUME NoStrays
  PROVE  Spec => []FirstWins
<1>1. IInv /\ FitInv /\ ChoiceInv => FirstWins
  BY ChoiceSelects DEF FirstWins, LinesOf
<1> QED
  BY <1>1, ChoiceInductive, FitInductive, Inductive, PTL

-----------------------------------------------------------------------------
(* A line that was eligible before the merge, and whose key belongs to the *)
(* row it stood for, is eligible after it: rows do not go away.            *)
LEMMA StaysEligible ==
  ASSUME NEW j \in Jobs, bulk' = bulk, db' \in Tables, Sound(db'),
         \A e \in Entities, i \in Names : Has(db[e], i) => Has(db'[e], i),
         NEW m \in Lines(j), Eligible(j, m), Record(j, m) \in Records,
         NEW i \in Names, db'[Entity(j)][i] = Record(j, m).key, Entity(j) \in Entities,
         Entity(j) = "users" => Record(j, m).id \in {NoName, i}
  PROVE  Eligible(j, m)'
<1> DEFINE r == Record(j, m)
<1>1. Record(j, m)' = r /\ Entity(j)' = Entity(j) /\ r \in Records
  BY DEF Record, Entity
<1>2. ~Orphan(db', r)
  <2>1. \A e \in Entities : r.refs[e] \subseteq Names
    BY <1>1 DEF Records
  <2> QED
    BY <2>1 DEF Eligible, Orphan
<1>3. \A o \in Owners(db', Entity(j), r.key) : o = i
  <2>1. r.key # NoName
    BY <1>1, NamesAssumption DEF Records
  <2> QED
    BY <2>1 DEF Owners, Sound, KeysUnique, Has
<1>4. ~Mismatch(db', Entity(j), r)
  BY <1>3 DEF Mismatch
<1> HIDE DEF r
<1>5. Eligible(j, m)' <=> r.good /\ ~Orphan(db', r) /\ ~Mismatch(db', Entity(j), r)
  BY <1>1 DEF Eligible
<1> QED
  BY <1>2, <1>4, <1>5 DEF Eligible, r

(* A line names no id but that of the row it stands for.                   *)
LEMMA NamesItsRow ==
  ASSUME IInv, Sound(db), NEW j \in Jobs, NEW m \in Lines(j), Eligible(j, m),
         Entity(j) = "users"
  PROVE  Record(j, m).id \in {NoName, Resolved(db, Entity(j), Record(j, m))}
<1>1. Record(j, m) \in Records
  BY InputFacts DEF IInv, Eligible
<1>2. CASE \E i \in Names : db[Entity(j)][i] = Record(j, m).key
  <2>1. PICK i \in Names : db[Entity(j)][i] = Record(j, m).key
    BY <1>2
  <2>2. Resolved(db, Entity(j), Record(j, m)) = i
    BY <1>1, <2>1, RowsTyped, ResolvedIsOwner
  <2>3. Record(j, m).id \in {NoName, i}
    BY <2>1 DEF Eligible, Mismatch, Owners
  <2> QED
    BY <2>2, <2>3
<1>3. CASE ~\E i \in Names : db[Entity(j)][i] = Record(j, m).key
  BY <1>3 DEF Resolved, Owners
<1> QED
  BY <1>2, <1>3

(* The merge writes every line that is no error.  A key in the table that  *)
(* this job has ever written is written again, since the line it belongs   *)
(* to was eligible once more, unless an earlier line took its row.         *)
LEMMA MergeReports ==
  ASSUME IInv, FitInv, ChoiceInv, ReportInv, IInv', FitInv', NEW j \in Jobs, MergeOf(j)
  PROVE  ReportFits(j)'
<1> DEFINE e == Entity(j)
           rows == staging[j]
           Key(n) == Record(j, n).key
           good == Lines(j) \ errors[j]
<1>1. /\ pc[j] = "merge" /\ pc'[j] = "save" /\ UNCHANGED <<bulk, errors, attempts, crashes>>
      /\ db'[e] = Merged(db[e], rows)
      /\ \A f \in Entities \ {e} : db'[f] = db[f]
      /\ merged'[j] = merged[j] \cup LinesOf(rows)
  BY MergeTable DEF MergeOf
<1>2. /\ rows \subseteq Rows /\ e \in Entities /\ MergeAccepts(db[e], rows)
      /\ db[e] \in [Names -> Names \cup {NoName}]
  BY <1>1, RowsTyped, Decided DEF MergeOf
<1>3. /\ \A i \in Names, r \in rows : r.id = i => db'[e][i] = r.key
      /\ \A i \in Names : (\A r \in rows : r.id # i) => db'[e][i] = db[e][i]
  BY <1>1, <1>2, MergedRow
<1>4. good = LinesOf(rows) /\ \A r \in rows : r.line \in good
  BY <1>1, Decided DEF LinesOf
<1>5. \A r \in rows : r.id \in Names /\ r.key \in Names /\ r.key = Key(r.line)
  <2>1. \A r \in rows : r.key = Key(r.line)
    BY <1>1, Decided DEF FitInv, RowsDistinct
  <2> QED
    BY <1>2, <2>1 DEF Rows
<1>6. /\ \A n : Record(j, n)' = Record(j, n)
      /\ Entity(j)' = e /\ Lines(j)' = Lines(j)
      /\ \A m, n : Repeats(j, m, n)' <=> Key(m) = Key(n)
      /\ \A n : InTable(j, n) <=> \E i \in Names : db[e][i] = Key(n)
      /\ \A n : InTable(j, n)' <=> \E i \in Names : db'[e][i] = Key(n)
  BY <1>1 DEF Record, Entity, Lines, Length, Repeats, InTable, Owners
<1>7. \A f \in Entities, i \in Names : Has(db[f], i) => Has(db'[f], i)
  BY <1>1, <1>3, <1>5, NamesAssumption DEF Has
<1>8. Sound(db') /\ db' \in Tables
  BY DEF FitInv, IInv, TypeOK
<1>9. \A n \in good : n \in merged'[j] /\ InTable(j, n)'
  <2> SUFFICES ASSUME NEW n \in good PROVE n \in merged'[j] /\ InTable(j, n)'
    OBVIOUS
  <2>1. PICK r \in rows : r.line = n
    BY <1>4 DEF LinesOf
  <2>2. db'[e][r.id] = Key(n)
    BY <1>3, <1>5, <2>1
  <2> QED
    BY <1>1, <1>4, <1>5, <1>6, <2>2
<1>10. ASSUME Unbroken(j), Apart(j), e # "articles", NEW n \in merged'[j], InTable(j, n)'
       PROVE  /\ \E m \in Lines(j) : Eligible(j, m)' /\ Key(m) = Key(n)
              /\ \E m \in good : Key(m) = Key(n)
  <2>1. PICK i \in Names : db'[e][i] = Key(n)
    BY <1>6, <1>10
  <2>2. DecidedInOrder(j) /\ Kept(j) = rows
    BY <1>1, <1>10, Decided DEF ChoiceInv, ChoiceFits
  <2>3. ASSUME NEW m \in Lines(j), Eligible(j, m), Key(m) = Key(n),
               Resolved(db, e, Record(j, m)) = i
        PROVE  Eligible(j, m)'
    <3>1. Record(j, m) \in Records
      BY <2>3, InputFacts DEF IInv, Eligible
    <3>2. e = "users" => Record(j, m).id \in {NoName, i}
      BY <2>3, NamesItsRow DEF FitInv
    <3> QED
      BY <1>1, <1>2, <1>7, <1>8, <2>1, <2>3, <3>1, <3>2, StaysEligible
  <2>4. CASE \E r \in rows : r.id = i
    <3>1. PICK r \in rows : r.id = i
      BY <2>4
    <3>2. Key(r.line) = Key(n) /\ r.line \in good
      BY <1>3, <1>4, <1>5, <2>1, <3>1
    <3>3. Eligible(j, r.line) /\ Resolved(db, e, Record(j, r.line)) = i
      BY <2>2, <3>1 DEF DecidedInOrder, KeptIsRow
    <3> QED
      BY <2>3, <3>2, <3>3
  <2>5. CASE \A r \in rows : r.id # i
    <3>1. db[e][i] = Key(n)
      BY <1>3, <2>1, <2>5
    <3>2. n \in merged[j]
      <4>1. ASSUME NEW r \in rows, r.line = n PROVE FALSE
        <5>1. r.id \in Names /\ db'[e][r.id] = Key(n) /\ Has(db'[e], i)
          BY <1>3, <1>5, <2>1, <4>1, NamesAssumption DEF Has
        <5>2. r.id = i
          BY <1>2, <1>8, <2>1, <5>1 DEF Sound, KeysUnique
        <5> QED
          BY <2>5, <4>1, <5>2
      <4> QED
        BY <1>1, <4>1 DEF LinesOf
    <3>3. PICK m \in Lines(j) : Eligible(j, m) /\ Key(m) = Key(n)
      BY <1>6, <1>10, <3>1, <3>2 DEF ReportInv, ReportFits, Repeats
    <3>4. Resolved(db, e, Record(j, m)) = i
      BY <1>2, <3>1, <3>3, RowsTyped, InputFacts, ResolvedIsOwner DEF FitInv, IInv, Eligible
    <3>5. Eligible(j, m)'
      BY <2>3, <3>3, <3>4
    <3>6. \E k \in good : Key(k) = Key(n)
      <4>1. CASE m \in good
        BY <3>3, <4>1
      <4>2. CASE m \notin good
        <5>1. PICK r \in rows : Supersedes(j, r, m)
          BY <2>2, <3>3, <4>2 DEF DecidedInOrder
        <5>2. r.key = Key(m)
          BY <2>5, <3>4, <5>1 DEF Supersedes
        <5> QED
          BY <1>4, <1>5, <3>3, <5>2
      <4> QED
        BY <4>1, <4>2
    <3> QED
      BY <3>3, <3>5, <3>6
  <2> QED
    BY <2>4, <2>5
<1>11. attempts[j] + crashes[j] = 0 => merged'[j] \cap errors[j] = {}
  BY <1>1, <1>4, Decided DEF ReportInv, ReportFits, AfterMerge
<1> HIDE DEF Key, good, e
<1>12. Entity(j)' = e /\ errors'[j] = errors[j] /\ Lines(j)' \ errors'[j] = good
  BY <1>1, <1>6 DEF good
<1>13. (Apart(j)' <=> Apart(j)) /\ (Unbroken(j)' <=> Unbroken(j))
  BY <1>1 DEF Apart, Entity, Reads, Lines, Length, Record, Unbroken
<1> QED
  BY <1>1, <1>6, <1>9, <1>10, <1>11, <1>12, <1>13 DEF ReportFits, AfterMerge

LEMMA OnlyRecords ==
  ASSUME IInv, NEW j \in Jobs, OwnStep(j)
  PROVE  bulk'[j].json = bulk[j].json
<1>1. CASE ClearPrevious(j)
  <2>1. PICK records \in Delivered(j) : bulk' = [bulk EXCEPT ![j] = Opened(@, records)]
    BY <1>1 DEF ClearPrevious, Open
  <2>2. bulk'[j] = Opened(bulk[j], records)
    BY <2>1 DEF IInv, BulkOK
  <2> QED
    BY <2>2 DEF Opened
<1> QED
  BY <1>1, BulkMoves

(* Before the merge nothing new is written, after it nothing is decided.   *)
LEMMA OwnReports ==
  ASSUME NoStrays, IInv, ReportInv, NEW j \in Jobs, QuietStep(j)
  PROVE  ReportFits(j)'
<1>1. UNCHANGED <<db, merged>>
  BY OwnQuiet
<1>2. ~ClearPrevious(j) \/ Unbroken(j) => SameFile(j) /\ bulk' = bulk
  BY BulkMoves DEF QuietStep, SameFile
<1>3. attempts[j] \in Nat /\ crashes[j] \in Nat /\ (Unbroken(j)' <=> Unbroken(j))
  BY PipelineAssumption, OnlyRecords DEF QuietStep, IInv, TypeOK, Unbroken
<1>4. pc'[j] \in AfterMerge =>
        /\ pc[j] \in AfterMerge /\ ~ClearPrevious(j)
        /\ errors' = errors
  BY DEF NoStrays, QuietStep, OwnStep, AfterMerge, Step, ClearFails, StrayDelete, EndRun, run,
     Start, ClearPrevious, ReadBad, ReadGood, ReadEnd, Progress, Lookup, WriteItem, RejectItem,
     CopyBatch, RejectSlugs, MergeRefused, Save, Tidy, Complete, Ack, Catch, StatementFails,
     Crash, GoTo, Staged, IInv, TypeOK
<1>5. \/ /\ attempts'[j] = attempts[j] /\ crashes'[j] = crashes[j]
         /\ pc'[j] \notin AfterMerge \cup {"catch"} => pc[j] \notin AfterMerge \cup {"catch"}
      \/ attempts'[j] + crashes'[j] # 0
  BY <1>3 DEF QuietStep, OwnStep, AfterMerge, Step, ClearFails, StrayDelete, EndRun, run, Start,
     ClearPrevious, ReadBad, ReadGood, ReadEnd, Progress, Lookup, WriteItem, RejectItem,
     CopyBatch, RejectSlugs, MergeRefused, Save, Tidy, Complete, Ack, Catch, StatementFails,
     Crash, GoTo, Staged, IInv, TypeOK
<1>6. SameFile(j) /\ bulk' = bulk =>
        /\ Entity(j)' = Entity(j) /\ Lines(j)' = Lines(j)
        /\ OwnTable(j)' <=> OwnTable(j)
        /\ Apart(j)' <=> Apart(j)
        /\ \A n : InTable(j, n)' <=> InTable(j, n)
        /\ \A n : Eligible(j, n)' <=> Eligible(j, n)
        /\ \A m, n : Repeats(j, m, n)' <=> Repeats(j, m, n)
  BY <1>1, FileFacts DEF InTable, Eligible, Repeats, Entity, Record
<1>7. ReportFits(j)
  BY DEF ReportInv
<1>8. pc'[j] \in AfterMerge =>
        \A n \in Lines(j)' \ errors'[j] : n \in merged'[j] /\ (OwnTable(j)' => InTable(j, n)')
  BY <1>1, <1>2, <1>4, <1>6, <1>7 DEF ReportFits
<1>9. Unbroken(j)' /\ Apart(j)' /\ Entity(j)' # "articles" =>
        \A n \in merged'[j] : InTable(j, n)' =>
          /\ \E m \in Lines(j)' : Eligible(j, m)' /\ Repeats(j, m, n)'
          /\ pc'[j] \in AfterMerge => \E m \in Lines(j)' \ errors'[j] : Repeats(j, m, n)'
  BY <1>1, <1>2, <1>3, <1>4, <1>6, <1>7 DEF ReportFits
<1>10. attempts'[j] + crashes'[j] = 0 =>
         /\ pc'[j] \in AfterMerge => merged'[j] \cap errors'[j] = {}
         /\ pc'[j] \notin AfterMerge \cup {"catch"} => merged'[j] = {}
  BY <1>1, <1>4, <1>5, <1>7 DEF ReportFits
<1> QED
  BY <1>8, <1>9, <1>10 DEF ReportFits, AfterMerge

LEMMA BesideReports ==
  ASSUME IInv, ReportInv, NEW j \in Jobs, Beside(j),
         OwnTable(j) => db'[Entity(j)] = db[Entity(j)],
         Apart(j) => \A e \in Reads(j) : db'[e] = db[e]
  PROVE  ReportFits(j)'
<1>1. /\ pc'[j] = pc[j] \/ pc'[j] = "catch"
      /\ SameFile(j) /\ errors'[j] = errors[j] /\ merged'[j] = merged[j]
      /\ attempts'[j] = attempts[j] /\ crashes'[j] = crashes[j]
      /\ ReportFits(j)
  BY DEF Beside, ReportInv
<1>2. /\ Entity(j)' = Entity(j) /\ Lines(j)' = Lines(j)
      /\ OwnTable(j)' <=> OwnTable(j)
      /\ Apart(j)' <=> Apart(j)
      /\ Unbroken(j)' <=> Unbroken(j)
      /\ \A m, n : Repeats(j, m, n)' <=> Repeats(j, m, n)
  BY <1>1, FileFacts DEF Repeats, Unbroken, SameFile
<1>3. OwnTable(j) => \A n : InTable(j, n)' <=> InTable(j, n)
  BY <1>1, SameTable
<1>4. Apart(j) => \A n \in Lines(j) : Eligible(j, n)' <=> Eligible(j, n)
  BY <1>1, SameEligible
<1>5. Apart(j) => OwnTable(j)
  BY ApartOwns
<1>6. pc'[j] \in AfterMerge =>
        \A n \in Lines(j)' \ errors'[j] : n \in merged'[j] /\ (OwnTable(j)' => InTable(j, n)')
  BY <1>1, <1>2, <1>3 DEF ReportFits, AfterMerge
<1>7. Unbroken(j) /\ Apart(j) /\ Entity(j) # "articles" =>
        \A n \in merged'[j] : InTable(j, n)' =>
          /\ \E m \in Lines(j)' : Eligible(j, m)' /\ Repeats(j, m, n)'
          /\ pc'[j] \in AfterMerge => \E m \in Lines(j)' \ errors'[j] : Repeats(j, m, n)'
  BY <1>1, <1>2, <1>3, <1>4, <1>5 DEF ReportFits, AfterMerge
<1>8. attempts'[j] + crashes'[j] = 0 =>
        /\ pc'[j] \in AfterMerge => merged'[j] \cap errors'[j] = {}
        /\ pc'[j] \notin AfterMerge \cup {"catch"} => merged'[j] = {}
  BY <1>1 DEF ReportFits, AfterMerge
<1> QED
  BY <1>2, <1>6, <1>7, <1>8 DEF ReportFits, AfterMerge

LEMMA ReportKeeps ==
  ASSUME NoStrays, IInv, FitInv, ChoiceInv, ReportInv, [Next]_vars
  PROVE  ReportInv'
<1>1. IInv' /\ FitInv'
  BY NextKeeps, FitKeeps
<1>2. ASSUME NEW j \in Jobs PROVE ReportFits(j)'
  <2>1. CASE Beside(j) /\ (db' = db \/ \E k \in Jobs \ {j} : MergeOf(k))
    BY <2>1, ViewKept, BesideReports
  <2> QED
    BY <1>1, <2>1, MergeReports, OwnReports, Views
<1> QED
  BY <1>2 DEF ReportInv

(* The error report of a completed import is true, whatever earlier        *)
(* attempts of it left in the database: for any files and tables, every    *)
(* batch size, any number of attempts and crashes, and any other imports.  *)
(* What it says about the table is claimed as far as no other import       *)
(* writes to that table, or to those that the rejected lines refer to; of  *)
(* lines that only an earlier attempt wrote as far as each attempt reads   *)
(* the same.  Assumed is only that no delete of an attempt is still on its *)
(* way when the next one begins.                                           *)
THEOREM ReportIsTrue ==
  ASSUME NoStrays
  PROVE  Spec => []ReportMatchesDatabase
<1>1. Init => ReportInv
  BY DEF Init, ReportInv, ReportFits, AfterMerge
<1>2. IInv /\ FitInv /\ ChoiceInv /\ ReportInv /\ [Next]_vars => ReportInv'
  BY ReportKeeps
<1>3. ReportInv => ReportMatchesDatabase
  BY DEF ReportInv, ReportFits, ReportMatchesDatabase, AfterMerge, MarkedCompleted
<1> QED
  BY <1>1, <1>2, <1>3, ChoiceInductive, FitInductive, Inductive, PTL DEF Spec
=============================================================================
