--------------------------- MODULE OrderedDelivery ---------------------------
(***************************************************************************)
(* What a reader of a table that others write to is promised: rows come in *)
(* the order of their keys, none twice, and none that was there all the    *)
(* time is passed over.  Rows that come and go meanwhile may be missing.   *)
(***************************************************************************)
EXTENDS Naturals, Sequences

CONSTANT Keys

VARIABLES
  table,    \* the keys that can be read
  stable,   \* those that have been there since the reading began
  out,      \* the keys delivered, in order
  over      \* nothing more will come

vars == <<table, stable, out, over>>

Delivered == {out[n] : n \in DOMAIN out}

Init ==
  /\ table \in SUBSET Keys
  /\ stable = table
  /\ out = <<>>
  /\ over = FALSE

Write ==
  /\ table' \in SUBSET Keys
  /\ stable' = stable \cap table'
  /\ UNCHANGED <<out, over>>

Deliver(k) ==
  /\ ~over
  /\ \A j \in Delivered : j < k
  /\ \A s \in stable : s < k => s \in Delivered
  /\ out' = Append(out, k)
  /\ UNCHANGED <<table, stable, over>>

(* What a broken response had brought is dropped.                          *)
Rewind(n) ==
  /\ ~over
  /\ out' = SubSeq(out, 1, n)
  /\ UNCHANGED <<table, stable, over>>

Finish ==
  /\ ~over
  /\ stable \subseteq Delivered
  /\ over' = TRUE
  /\ UNCHANGED <<table, stable, out>>

(* A reader that had finished is taken not to have.                        *)
Retract ==
  /\ over
  /\ over' = FALSE
  /\ UNCHANGED <<table, stable, out>>

(* A new reading begins.                                                   *)
Restart ==
  /\ stable' = table
  /\ out' = <<>>
  /\ over' = FALSE
  /\ UNCHANGED table

Next ==
  \/ Write \/ Finish \/ Retract \/ Restart
  \/ \E k \in Keys : Deliver(k)
  \/ \E n \in 0..Len(out) : Rewind(n)

Spec == Init /\ [][Next]_vars
=============================================================================
