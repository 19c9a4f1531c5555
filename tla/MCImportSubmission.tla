------------------------- MODULE MCImportSubmission -------------------------
(* Three requests contend for one Idempotency-Key: u1 and u2 upload the    *)
(* same file, d1 asks for a URL and so has another request hash.  d2 has   *)
(* no key.  u1 and d2 share an API process, u2 and d1 the other.           *)
EXTENDS ImportSubmission

CONSTANTS u1, u2, d1, d2, k, p1, p2

KeyedRequests == {u1, u2, d1}
FairRequests == {u1, u2, d2}
Twins == {u1, u2}
AllSlots == {k}
AllServers == {p1, p2}
Slot == [r \in Requests |-> IF r = d2 THEN NoSlot ELSE k]
Hash == [r \in Requests |-> IF r \in {u1, u2} THEN "upload" ELSE "url"]
Kind == [r \in Requests |-> IF r \in {u1, u2} THEN "upload" ELSE "url"]
Server == [r \in Requests |-> IF r \in {u1, d2} THEN p1 ELSE p2]
=============================================================================
