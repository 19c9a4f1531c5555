---------------------------- MODULE MCJobSystem ----------------------------
(* Two worker processes with one runner each, or one with both, and a job. *)
EXTENDS JobSystem

CONSTANTS i, e, c, p, q, x, y

Both == {p, q}
RunnerPair == {x, y}
One == {p}
Owner == [r \in Runners |-> IF r = x \/ q \notin Processes THEN p ELSE q]
Kinds == [j \in Jobs |-> IF j = i THEN "import" ELSE "export"]
AllUnsupported == Jobs \cap {c}
=============================================================================
