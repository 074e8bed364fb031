----------------------------- MODULE OpsCommands -----------------------------
(***************************************************************************)
(* The command builder of the "Cluster Operations" tab (static/app.js):    *)
(* which playbook, which --limit and which extra variables the fields of   *)
(* each operation become.  A text of node names is the set of names in it, *)
(* which is what limitList makes of it; free texts are given or not.       *)
(* The retention and the directory of a backup schedule, appended as they  *)
(* are when given, are left out.                                           *)
(***************************************************************************)
EXTENDS Sequences

CONSTANT Nodes   \* names of hosts that a person may type; the groups are not among them

ASSUME NodesAssumption == Nodes \cap {"etcd", "kube_control_plane"} = {}

OpsModes == {"add", "remove", "reset", "scale", "backup"}

Roles == {"worker", "control_plane", "etcd"}

OpsFields ==
  [ add    |-> [role : Roles, nodeNames : SUBSET Nodes, refreshFacts : BOOLEAN, etcdRetries : BOOLEAN],
    remove |-> [nodeName : {{}} \cup {{n} : n \in Nodes}, offline : BOOLEAN],
    reset  |-> [scope : {"cluster", "specific"}, nodeNames : SUBSET Nodes, skipConfirm : BOOLEAN],
    scale  |-> [nodeNames : SUBSET Nodes, refreshFacts : BOOLEAN],
    backup |-> [preset : {"daily", "custom"}, customSchedule : BOOLEAN] ]

InitialFields ==
  [ add    |-> [role |-> "worker", nodeNames |-> {}, refreshFacts |-> TRUE, etcdRetries |-> FALSE],
    remove |-> [nodeName |-> {}, offline |-> FALSE],
    reset  |-> [scope |-> "cluster", nodeNames |-> {}, skipConfirm |-> FALSE],
    scale  |-> [nodeNames |-> {}, refreshFacts |-> TRUE],
    backup |-> [preset |-> "daily", customSchedule |-> FALSE] ]

\* The inputs that are on the form for the operation and its fields so far.
RenderOpsFields(mode, f) ==
  CASE mode = "add"    -> {"role"} \cup (CASE f.role = "worker" -> {"nodeNames", "refreshFacts"}
                                            [] f.role = "etcd" -> {"etcdRetries"}
                                            [] OTHER -> {})
    [] mode = "remove" -> {"nodeName", "offline"}
    [] mode = "reset"  -> {"scope", "skipConfirm"} \cup
                          (IF f.scope = "specific" THEN {"nodeNames"} ELSE {})
    [] mode = "scale"  -> {"nodeNames", "refreshFacts"}
    [] mode = "backup" -> {"preset"} \cup (IF f.preset = "custom" THEN {"customSchedule"} ELSE {})

Given(option, isGiven) == IF isGiven THEN {option} ELSE {}

\* One ansible-playbook line; limit = {} stands for no --limit.
Playbook(inv, name, limit, extra) ==
  [inventory |-> inv, playbook |-> name, limit |-> limit, extra |-> extra]

\* Mutant of ResetLimit: the names count wherever the scope stands.
ResetLimitByNames(f) == f.nodeNames

\* The names of a reset count while its scope is "Specific node(s)".
ResetLimit(f) == IF f.scope = "specific" THEN f.nodeNames ELSE {}

BuildOpsCommands(inv, mode, f) ==
  LET facts == Playbook(inv, "facts.yml", {}, {}) IN
  CASE mode = "add" /\ f.role = "worker" ->
         (IF f.refreshFacts THEN <<facts>> ELSE <<>>)
           \o <<Playbook(inv, "scale.yml", f.nodeNames, {})>>
    [] mode = "add" /\ f.role = "control_plane" ->
         <<Playbook(inv, "cluster.yml", {"kube_control_plane"}, {})>>
    [] mode = "add" /\ f.role = "etcd" ->
         <<Playbook(inv, "cluster.yml", {"etcd", "kube_control_plane"},
                    {"ignore_assert_errors"} \cup Given("etcd_retries", f.etcdRetries))>>
    [] mode = "remove" ->
         <<Playbook(inv, "remove-node.yml", {},
                    {"node"} \cup Given("allow_ungraceful_removal", f.offline))>>
    [] mode = "reset" ->
         <<Playbook(inv, "reset.yml", ResetLimit(f), Given("reset_confirmation", f.skipConfirm))>>
    [] mode = "scale" ->
         (IF f.nodeNames # {} /\ f.refreshFacts THEN <<facts>> ELSE <<>>)
           \o <<Playbook(inv, "scale.yml", f.nodeNames, {})>>
    [] mode = "backup" ->
         <<Playbook(inv, "etcd-backup-schedule.yml", {},
                    {IF f.preset = "custom" /\ f.customSchedule THEN "custom" ELSE "preset"})>>
=============================================================================
