--------------------------- MODULE MCInventoryRuns ---------------------------
(* Cilium install and uninstall, whose entry only the plan requests create, *)
(* or two cluster installs, whose handlers create their entry as the plan   *)
(* does.  The slots share nothing, so each is explored by itself.           *)
EXTENDS InventoryRuns

CONSTANTS c1, c2, p1, p2, i1, i2, p3

CiliumCallers == {c1, c2, p1, p2}
InstallCallers == {i1, i2, p3}

MCRequests == {c1, c2, i1, i2}
MCPlans == {p1, p2, p3}
MCScenarios == {CiliumCallers, InstallCallers}
MCTwoPosts == {{c1, c2}}
MCSlots == {"cilium", "installation"}
MCKeys == {"install", "uninstall", "cluster"}
MCLocks == MCRequests \cup MCPlans \cup MCSlots
MCKeyOf == (c1 :> "install") @@ (c2 :> "uninstall") @@ (i1 :> "cluster") @@ (i2 :> "cluster")
MCSlotOf == [k \in MCKeys |-> IF k = "cluster" THEN "installation" ELSE "cilium"]
MCPlanSlot == [p \in MCPlans |-> IF p = p3 THEN "installation" ELSE "cilium"]
\* Only names a lock before a handler has looked one up.
MCLockOf == MCSlotOf
MCOutputLen == [r \in MCRequests |-> IF r \in {c1, i1} THEN 1 ELSE 0]
=============================================================================
