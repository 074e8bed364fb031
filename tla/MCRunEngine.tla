---------------------------- MODULE MCRunEngine ------------------------------
(* Three POSTs guarded by one lock: two of one key, and one of another key  *)
(* that shares the lock, as Cilium install and uninstall do.                *)
EXTENDS RunEngine

CONSTANTS r1, r2, r3

MCRequests == {r1, r2, r3}
MCKeys == {"install", "uninstall"}
MCLocks == {"helm release"}
MCKeyOf == (r1 :> "install") @@ (r2 :> "uninstall") @@ (r3 :> "install")
MCLockOf == [k \in MCKeys |-> "helm release"]
\* One run outgrows both LOG_CAP and the pipe, one prints a little, one nothing.
MCOutputLen == (r1 :> 4) @@ (r2 :> 0) @@ (r3 :> 1)
=============================================================================
