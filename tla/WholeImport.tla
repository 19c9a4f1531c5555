---------------------------- MODULE WholeImport ----------------------------
(***************************************************************************)
(* What an import promises, with nothing of batches, staging tables and    *)
(* totals: the database changes in one step, which writes the lines that   *)
(* one pass over the records read selects; an import that is cut off       *)
(* starts over and may read more or less of its file; and the report of a  *)
(* completed one lists every line that was not written.  Only the choice   *)
(* of lines depends on being left alone: what an import writes is always   *)
(* accepted as a whole or not at all.                                      *)
(***************************************************************************)
EXTENDS ImportSelection, Integers, FiniteSets

VARIABLES
  outcome,   \* "open", "written", "completed" or "failed"
  written,   \* the lines that the present attempt has written
  report     \* what is told of a completed import

vars == <<db, bulk, outcome, written, report>>

NoReport == [errors |-> {}, read |-> 0, failed |-> 0, written |-> 0]

(* The files and the database may be any.                                  *)
Init ==
  /\ outcome = [j \in Jobs |-> "open"]
  /\ written = [j \in Jobs |-> {}]
  /\ report = [j \in Jobs |-> NoReport]

(* An attempt reads what the reader delivers of the file.                  *)
Read(j) ==
  /\ outcome[j] = "open"
  /\ \E records \in Deliveries(bulk[j]) : bulk' = [bulk EXCEPT ![j].records = records]
  /\ UNCHANGED <<db, outcome, written, report>>

Good(j) == {n \in Lines(j) : Record(j, n).good}

RowsOf(j, id) ==
  {[line |-> n, id |-> id[n], key |-> Record(j, n).key] : n \in DOMAIN id}

(* The lines of an import that stays apart, and the rows they stand for,   *)
(* are those that its records and the database say now.                    *)
Chosen(j, id) ==
  /\ Selects(j, DOMAIN id)
  /\ \A n \in DOMAIN id : id[n] = Resolved(db, Entity(j), Record(j, n))

Writes(j, id) ==
  /\ Apart(j) => Chosen(j, id)
  /\ MergeAccepts(db[Entity(j)], RowsOf(j, id))
  /\ db' = [db EXCEPT ![Entity(j)] = Merged(@, RowsOf(j, id))]
  /\ written' = [written EXCEPT ![j] = DOMAIN id]
  /\ UNCHANGED <<bulk, report>>

Write(j) ==
  /\ outcome[j] = "open"
  /\ outcome' = [outcome EXCEPT ![j] = "written"]
  /\ \E chosen \in SUBSET Good(j) : \E id \in [chosen -> Names] : Writes(j, id)

(* Also a completed import, if the queue has not heard of it.              *)
StartOver(j) ==
  /\ outcome[j] \in {"written", "completed"}
  /\ outcome' = [outcome EXCEPT ![j] = "open"]
  /\ written' = [written EXCEPT ![j] = {}]
  /\ report' = [report EXCEPT ![j] = NoReport]
  /\ UNCHANGED <<db, bulk>>

Complete(j) ==
  /\ outcome[j] = "written"
  /\ outcome' = [outcome EXCEPT ![j] = "completed"]
  /\ LET unwritten == Lines(j) \ written[j] IN
     report' = [report EXCEPT ![j] =
                  [errors |-> unwritten, read |-> Length(j),
                   failed |-> Cardinality(unwritten), written |-> Cardinality(written[j])]]
  /\ UNCHANGED <<db, bulk, written>>

GiveUp(j) ==
  /\ outcome[j] = "open"
  /\ outcome' = [outcome EXCEPT ![j] = "failed"]
  /\ UNCHANGED <<db, bulk, written, report>>

Next == \E j \in Jobs : Read(j) \/ Write(j) \/ StartOver(j) \/ Complete(j) \/ GiveUp(j)

Spec == Init /\ [][Next]_vars
=============================================================================
