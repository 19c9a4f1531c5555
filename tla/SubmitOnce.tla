----------------------------- MODULE SubmitOnce -----------------------------
(***************************************************************************)
(* What POST /v1/imports promises the holder of an Idempotency-Key, with   *)
(* nothing of how: a key is spent by the first job created under it, is    *)
(* never unspent, and every answer tells the truth about that job.         *)
(***************************************************************************)
CONSTANTS Requests, NoSlot, SlotOf, Fingerprint

VARIABLES
  created,   \* the requests whose job exists
  answer     \* what each client was told, "none" while it waits

SameSlot(q, r) == SlotOf[q] # NoSlot /\ SlotOf[q] = SlotOf[r]

Init ==
  /\ created = {}
  /\ answer = [r \in Requests |-> "none"]

Create(r) ==
  /\ answer[r] = "none"
  /\ r \notin created
  /\ \A q \in created : ~SameSlot(q, r)
  /\ created' = created \cup {r}
  /\ UNCHANGED answer

Truthful(r, a) ==
  \/ a = "accepted" /\ r \in created
  \/ /\ a = "replayed" /\ r \notin created
     /\ \E q \in created : SameSlot(q, r) /\ Fingerprint[q] = Fingerprint[r]
  \/ a \in {"conflict", "error"} /\ r \notin created

Answer(r) ==
  /\ answer[r] = "none"
  /\ \E a \in {"accepted", "replayed", "conflict", "error"} :
        Truthful(r, a) /\ answer' = [answer EXCEPT ![r] = a]
  /\ UNCHANGED created

Next == \E r \in Requests : Create(r) \/ Answer(r)

Spec == Init /\ [][Next]_<<created, answer>>
=============================================================================
