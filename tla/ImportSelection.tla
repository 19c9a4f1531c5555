-------------------------- MODULE ImportSelection --------------------------
(***************************************************************************)
(* What an import should do with its file, said of what it reads of the    *)
(* file and of the database alone: which lines can be written, and which   *)
(* of them one pass over them all writes.                                  *)
(***************************************************************************)
EXTENDS ImportRules, Sequences

CONSTANT Jobs

VARIABLES
  db,        \* the production tables
  bulk       \* each job's entity and file, and the records its run reads

Bad == [good |-> FALSE]   \* a line that does not parse or validate

(* What a reader delivers of a file: streamInputRecords turns an error of  *)
(* a JSON stream into one more line that does not parse, and then ends.    *)
Deliveries(b) ==
  {b.file} \cup {Append(SubSeq(b.file, 1, n), Bad) : n \in IF b.json THEN 0..Len(b.file) ELSE {}}

Entity(j) == bulk[j].entity
Record(j, n) == bulk[j].records[n]
Length(j) == Len(bulk[j].records)
Lines(j) == 1..Length(j)

(* The tables that an import reads: its own and those it refers to.        *)
Reads(j) ==
  {Entity(j)} \cup {e \in Entities :
                     \E n \in Lines(j) : Record(j, n).good /\ Record(j, n).refs[e] # {}}

(* No other import writes to its table, or to any table that it reads.     *)
OwnTable(j) == \A k \in Jobs \ {j} : Entity(k) # Entity(j)
Apart(j) == \A k \in Jobs \ {j} : Entity(k) \notin Reads(j)

Eligible(j, n) ==
  /\ Record(j, n).good
  /\ ~Orphan(db, Record(j, n))
  /\ ~Mismatch(db, Entity(j), Record(j, n))

SameRow(j, m, n) ==
  Resolved(db, Entity(j), Record(j, m)) = Resolved(db, Entity(j), Record(j, n))

Repeats(j, m, n) == Record(j, m).key = Record(j, n).key

InTable(j, n) == Owners(db, Entity(j), Record(j, n).key) # {}

FirstOfRow(j) ==
  {n \in Lines(j) : /\ Eligible(j, n)
                    /\ \A m \in 1..n-1 : Eligible(j, m) => ~SameRow(j, m, n)}

Selects(j, chosen) ==
  chosen = IF Entity(j) = "users"
           THEN {n \in Lines(j) :
                   /\ Eligible(j, n)
                   /\ \A m \in chosen \cap 1..n-1 : ~SameRow(j, m, n) /\ ~Repeats(j, m, n)}
           ELSE {n \in FirstOfRow(j) :
                   \A m \in FirstOfRow(j) \cap 1..n-1 : ~Repeats(j, m, n)}
=============================================================================
