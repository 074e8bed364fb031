------------------------------ MODULE MCRunTabs ------------------------------
(* Two runs of a button, or of two buttons of one tab, and two tabs: each     *)
(* combination is explored by itself.                                         *)
EXTENDS RunTabs

CONSTANTS s1, s2, t1, r1, i1, i2, v1, v2, c1, c2

MCRuns == {s1, s2, t1, r1, i1, i2, v1, v2, c1, c2}
MCButtonOf == (s1 :> "stage") @@ (s2 :> "stage") @@ (t1 :> "transfer") @@ (r1 :> "role") @@
              (i1 :> "install") @@ (i2 :> "install") @@ (v1 :> "verify") @@ (v2 :> "verify") @@
              (c1 :> "cilium") @@ (c2 :> "uninstall")
MCInvOf == [r \in MCRuns |-> IF r \in {i2, v2} THEN "b" ELSE "a"]
MCSucceeds == {s1, t1, i1, v1, c2}
MCSays == {v1, v2}

Who(mine, others, tabs, invs, fails, acts) ==
  [own |-> mine, elsewhere |-> others, tabs |-> tabs, invs |-> invs, fails |-> fails, acts |-> acts]
MCScenarios ==
  { Who({s1}, {s2}, {"files", "offline"}, {"a"}, {"poll", "reread"}, 3),
    Who({s1}, {t1}, {"offline", "molecule"}, {"a"}, {"load", "connection"}, 2),
    Who({t1, r1}, {}, {"offline", "molecule"}, {"a"}, {"reread"}, 3),
    Who({i1, i2}, {}, {"files", "installation"}, {"a", "b"}, {"select"}, 3),
    Who({v1, v2}, {}, {"files", "installation"}, {"a", "b"}, {"connection", "run"}, 3),
    Who({i1}, {v1}, {"installation"}, {"a"}, {"poll", "run"}, 1),
    Who({c1}, {c2}, {"files", "cilium"}, {"a", "b"}, {"select", "load"}, 2) }
=============================================================================
