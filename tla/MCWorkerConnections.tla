------------------------- MODULE MCWorkerConnections -------------------------
(* Two imports, the fewest connections that suffice, and an export or a    *)
(* recovery sweep that sends two statements at a time.                     *)
EXTENDS WorkerConnections, TLC

CONSTANTS i, j, x

TwoImports == {i, j}
Everyone == {i, j, x}
Pair == x :> 2

=============================================================================
