----------------------------- MODULE RunService ------------------------------
(***************************************************************************)
(* What the run engine promises to the people who press "Run": of the      *)
(* requests guarded by one lock at most one is running, a request is       *)
(* refused only while another one runs, and one that was accepted runs at  *)
(* most once.  Nothing is said about how a lock is queued for, about the   *)
(* subprocess or about the log.                                            *)
(***************************************************************************)
CONSTANTS
  Requests,   \* the POSTs that are made
  Guard       \* the lock that guards each of them

VARIABLE phase

Phases == {"new", "refused", "pending", "running", "over"}

Init == phase = [r \in Requests |-> "new"]

Busy(r) == \E s \in Requests : Guard[s] = Guard[r] /\ phase[s] = "running"

Become(r, p) == phase' = [phase EXCEPT ![r] = p]

Refuse(r) == phase[r] = "new" /\ Busy(r) /\ Become(r, "refused")
Accept(r) == phase[r] = "new" /\ ~Busy(r) /\ Become(r, "pending")
Start(r)  == phase[r] = "pending" /\ ~Busy(r) /\ Become(r, "running")
End(r)    == phase[r] \in {"pending", "running"} /\ Become(r, "over")

Next == \E r \in Requests : Refuse(r) \/ Accept(r) \/ Start(r) \/ End(r)

Spec == Init /\ [][Next]_phase
=============================================================================
