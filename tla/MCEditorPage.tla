----------------------------- MODULE MCEditorPage -----------------------------
(* A template, an inventory and one to come, two group_vars files of one       *)
(* variable, one value to type.  The person works on the files, on the hosts,  *)
(* on the inventories or on the operations: each is explored by itself.        *)
EXTENDS EditorPage

CONSTANTS n1, n2

MCInvNames == <<"own", "sample", "zone">>
MCExisting == {{"sample"}, {"sample", "own"}}
MCNodes == {n1, n2}
MCOnFiles == {"tab", "file", "search", "type", "save", "toggle", "inventory"}
MCOnHosts == {"tab", "file", "hosts", "typeHosts", "save", "toggle", "inventory"}
MCOnBoth == {"file", "hosts", "type", "typeHosts", "save"}
MCOnInventories == {"inventory", "create", "delete", "file", "type", "save", "tab"}
MCOnOperations == {"tab", "ops", "inventory"}
MCScenarios == {MCOnFiles, MCOnHosts, MCOnBoth, MCOnInventories, MCOnOperations}
MCMaxActs == [s \in MCScenarios |-> IF s = MCOnInventories THEN 4 ELSE 5]
=============================================================================
