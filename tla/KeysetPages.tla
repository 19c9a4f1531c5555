----------------------------- MODULE KeysetPages -----------------------------
(***************************************************************************)
(* Reading a table page by page, as exports and the error stream do it:    *)
(* the rows beyond a cursor, in the order of their keys, up to a limit.    *)
(* Every page is a statement of its own, and imports write to the table    *)
(* between any two.  A key stands for an external id, or for the pair      *)
(* (created_at, id) of an error row; 0 is the missing cursor.              *)
(***************************************************************************)
EXTENDS Integers, Sequences, FiniteSets

CONSTANT Keys

ASSUME KeysAssumption == Keys \subseteq Nat \ {0} /\ IsFiniteSet(Keys)

VARIABLES
  table,    \* the keys of the rows that the reader's filter admits
  stable,   \* history: those that have been there since the reading began
  pc,       \* where the reader is suspended
  after,    \* the key of the last row taken from a page
  rows,     \* the rows of the page that are still to be written
  out       \* history: the keys that have been delivered

tableVars == <<table, stable>>
pageVars == <<after, rows, out>>

Cursors == Keys \cup {0}

PagesTypeOK ==
  /\ table \subseteq Keys
  /\ stable \subseteq table
  /\ after \in Cursors
  /\ rows \subseteq Keys
  /\ out \in Seq(Keys)

PagesInit ==
  /\ table \in SUBSET Keys
  /\ stable = table
  /\ pc = "idle"
  /\ after = 0
  /\ rows = {}
  /\ out = <<>>

-----------------------------------------------------------------------------
(* buildUsersWhere and its like: without a cursor, everything.             *)
Beyond(cursor) == {k \in table : k > cursor}

(* "order by key limit n".                                                 *)
IsPage(page, cursor, limit) ==
  /\ page \subseteq Beyond(cursor)
  /\ \A k \in page, j \in Beyond(cursor) \ page : k < j
  /\ Cardinality(page) <= limit
  /\ page # Beyond(cursor) => Cardinality(page) = limit

FetchPage(limit) ==
  /\ rows' \in SUBSET table
  /\ IsPage(rows', after, limit)
  /\ UNCHANGED <<tableVars, after, out>>

IsNext(k) == k \in rows /\ \A j \in rows : k <= j

(* The loop over a page moves the cursor row by row.                       *)
TakeRow(k) ==
  /\ IsNext(k)
  /\ after' = k
  /\ rows' = rows \ {k}
  /\ UNCHANGED tableVars

(* A reading begins, and with it its history.                              *)
ForgetHistory ==
  /\ out' = <<>>
  /\ stable' = table

FromTheStart == after' = 0 /\ rows' = {}

-----------------------------------------------------------------------------
(* What others do to the table: a merge inserts a row, or updates it so    *)
(* that the filter admits it; an update takes a row out of a filter.       *)
Enter(k) ==
  /\ k \in Keys \ table
  /\ table' = table \cup {k}
  /\ UNCHANGED <<stable, pc, pageVars>>

Leave(gone) ==
  /\ gone # {} /\ gone \subseteq table
  /\ table' = table \ gone
  /\ stable' = stable \ gone
  /\ UNCHANGED <<pc, pageVars>>
=============================================================================
