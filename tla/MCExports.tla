------------------------------ MODULE MCExports ------------------------------
(* Three rows, pages of two; a session with responses of one and of three   *)
(* rows, of which one breaks; a job in either format.                      *)
EXTENDS Exports

CONSTANT NaN

Limits == {0, 5, NaN}
=============================================================================
