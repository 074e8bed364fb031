------------------------------ MODULE EditorPage ------------------------------
(***************************************************************************)
(* The editor of static/app.js: the Files tab (group_vars forms, the hosts *)
(* form), the Cluster Operations tab, the inventory selector, and the part *)
(* of backend/main.py that answers them.                                   *)
(*                                                                         *)
(* The page is one record of `state`, plus what #content shows.  A handler *)
(* up to its await, or from the answer to its end, is a function from page *)
(* to page; the rest of the handler travels with the request it awaits.    *)
(* Several requests may be out at once: the server takes them in any order *)
(* and the page hears the answers in any order.  A person may refuse a     *)
(* "Discard them?" question, which changes nothing and is no step here.    *)
(*                                                                         *)
(* What a file holds is one value per key; what inventory.yml holds, as    *)
(* host cards or as text, is one value.  Every value on the page carries   *)
(* the file it was read from or typed for, which the program does not      *)
(* keep: the properties speak of it.                                       *)
(***************************************************************************)
EXTENDS Naturals, FiniteSets, SequencesExt, OpsCommands

CONSTANTS
  InvNames,     \* the names an inventory may have, in the order of the list
  Sample,       \* the template inventory
  Existing,     \* the sets of inventories there may be at first
  Files,        \* the canonical group_vars files
  Keys,         \* the variables of a file
  Values,       \* what can be typed
  Blank,        \* what is on disk at first
  HOSTS_VIEW,   \* the path that stands for inventory.yml
  None,
  Scenarios,    \* the sets of things a person may do in one behaviour
  MaxActs,      \* bound: how many things the person does, in each scenario
  MaxInFlight,  \* bound: requests awaited at once
  MaxLosses     \* bound: requests that the network loses

Invs == ToSet(InvNames)

ASSUME EditorAssumption ==
  /\ InvNames \in Seq(Invs) /\ Sample \in Invs
  /\ \A e \in Existing : e \subseteq Invs /\ Sample \in e
  /\ HOSTS_VIEW \notin Files /\ None \notin Files \cup {HOSTS_VIEW} \cup Invs
  /\ MaxActs \in [Scenarios -> Nat] /\ MaxInFlight \in Nat /\ MaxLosses \in Nat

VARIABLES
  disk,      \* the inventories: which exist, their files, their inventory.yml
  page,      \* state and #content
  inFlight,  \* the requests that are awaited, oldest first
  person     \* what the person may do, has done, and how

vars == <<disk, page, inFlight, person>>

Contents == Values \cup {Blank}
Paths == Files \cup {HOSTS_VIEW, None}

\* A value that was read from or typed for a file; gone once the person has
\* agreed to discard it.
Edit == [val : Contents, inv : Invs, path : Paths, gone : BOOLEAN]
Read(inv, path, val) == [val |-> val, inv |-> inv, path |-> path, gone |-> FALSE]

NoEdits == [k \in {} |-> None]
NoHosts == Read(Sample, HOSTS_VIEW, Blank)
NoEntries == [inv |-> None, path |-> None, vals |-> NoEdits]

Request(op, inv, path, body, then) ==
  [op |-> op, inv |-> inv, path |-> path, body |-> body, then |-> then,
   status |-> "sent", answer |-> None]

Load(op, inv, path, then) == Request(op, inv, path, NoEdits, then)

Loads == {"list", "files", "file", "hosts", "ops"}

-----------------------------------------------------------------------------
(* The server: on a disk d, what a request writes and what it answers. *)

\* Files refuses a path that is not canonical; "null" and HOSTS_VIEW are not.
ResolveFile(d, inv, path) == inv \in d.exists /\ path \in Files

GetFile(d, inv, path) == [inv |-> inv, path |-> path, vals |-> d.texts[inv][path]]

UpdateFile(d, inv, path, updates) ==
  [d EXCEPT !.texts[inv][path] = [k \in Keys |-> IF k \in DOMAIN updates THEN updates[k].val ELSE @[k]]]

GetHosts(d, inv) == Read(inv, HOSTS_VIEW, d.hosts[inv])

\* Cards or text: what is sent becomes what is there.
PutHosts(d, inv, hosts) == [d EXCEPT !.hosts[inv] = hosts.val]

CloneInventory(d, name, source) ==
  [exists |-> d.exists \cup {name},
   texts  |-> [d.texts EXCEPT ![name] = d.texts[source]],
   hosts  |-> [d.hosts EXCEPT ![name] = d.hosts[source]]]

RemoveInventory(d, name) == [d EXCEPT !.exists = @ \ {name}]

Accepts(d, q) ==
  CASE q.op = "list"                                   -> TRUE
    [] q.op \in {"files", "ops", "hosts", "saveHosts"} -> q.inv \in d.exists
    [] q.op \in {"file", "save"}                       -> ResolveFile(d, q.inv, q.path)
    \* ".../raw" is taken by the route of saves, which misses its updates.
    [] q.op = "raw"                                    -> FALSE
    [] q.op = "create"                                 -> q.then \notin d.exists /\ q.inv \in d.exists
    [] q.op = "delete"                                 -> q.inv \in d.exists \ {Sample}

Effect(d, q) ==
  CASE q.op = "save"      -> UpdateFile(d, q.inv, q.path, q.body)
    [] q.op = "saveHosts" -> PutHosts(d, q.inv, q.body[HOSTS_VIEW])
    [] q.op = "create"    -> CloneInventory(d, q.then, q.inv)
    [] q.op = "delete"    -> RemoveInventory(d, q.inv)
    [] OTHER              -> d

Answer(d, q) ==
  CASE q.op = "list"                  -> d.exists
    [] q.op = "ops"                   -> q.inv
    [] q.op \in {"file", "save"}      -> GetFile(d, q.inv, q.path)
    [] q.op \in {"hosts", "saveHosts"} -> GetHosts(d, q.inv)
    [] OTHER                          -> None

-----------------------------------------------------------------------------
(* Drawing: what replaces #content *)

Draw(p, view, text) == [p EXCEPT !.view = view, !.text = text]

DrawEmptyState(p) == Draw(p, "empty", NoHosts)

RenderFile(p) == Draw(p, IF p.rawMode THEN "fileRaw" ELSE "file", NoHosts)

\* In the raw view the text area starts from hostsRaw, whatever it held.
RenderHosts(p) ==
  IF p.hostsMode = "raw" THEN Draw(p, "hostsRaw", p.hostsRaw) ELSE Draw(p, "hosts", NoHosts)

RenderOps(p) == Draw(p, "ops", NoHosts)

\* The files that can be chosen: the sidebar is there on the Files tab only.
RenderSidebar(p) == IF p.topTab = "files" THEN Files ELSE {}

-----------------------------------------------------------------------------
(* The handlers *)

\* Mutant of HasUnsavedChanges: asks about the hosts form only.
HasUnsavedHosts(p) == p.currentPath = HOSTS_VIEW /\ p.hostsDirty

HasUnsavedChanges(p) ==
  IF p.currentPath = HOSTS_VIEW THEN p.hostsDirty ELSE p.pending # NoEdits

\* The person agreed to "You have unsaved changes on the current view.
\* Discard them?": the edits it was about are marked, and stay where they are.
Discarded(p) ==
  IF ~HasUnsavedChanges(p) THEN p
  ELSE IF p.currentPath = HOSTS_VIEW THEN [p EXCEPT !.hosts.gone = TRUE]
  ELSE [p EXCEPT !.pending = [k \in DOMAIN @ |-> [@[k] EXCEPT !.gone = TRUE]]]

\* What each handler does before its await, and the request it then awaits.
SwitchToFiles(p) ==
  LET shown == [p EXCEPT !.topTab = "files"] IN
  CASE p.currentPath = HOSTS_VIEW -> RenderHosts(shown)
    [] p.currentPath = None       -> DrawEmptyState(shown)
    [] OTHER                      -> RenderFile(shown)

SwitchToOps(p) == [Discarded(p) EXCEPT !.topTab = "ops"]

LoadOps(p, then) == Load("ops", p.inventory, None, then)

\* Mutant of SelectInventory: the path of the other inventory stays selected.
SelectInventoryKeepingPath(p, inv) == [p EXCEPT !.inventory = inv]

\* Asks nothing, keeps the edits.
SelectInventory(p, inv) == [p EXCEPT !.inventory = inv, !.currentPath = None]

\* Mutant of SelectFile: the edits of the previous file stay pending.
SelectFileKeepingEdits(p, path) == [Discarded(p) EXCEPT !.currentPath = path, !.rawMode = FALSE]

SelectFile(p, path) ==
  [Discarded(p) EXCEPT !.currentPath = path, !.pending = NoEdits, !.rawMode = FALSE]

SelectHosts(p) ==
  [Discarded(p) EXCEPT !.currentPath = HOSTS_VIEW, !.hostsMode = "form", !.hostsDirty = FALSE]

ToggleRawMode(p) == RenderFile([p EXCEPT !.rawMode = ~@])

ToggleHostsMode(p) == RenderHosts([p EXCEPT !.hostsMode = IF @ = "raw" THEN "form" ELSE "raw"])

OnFieldChange(p, k, v) ==
  [p EXCEPT !.pending = [j \in DOMAIN @ \cup {k} |->
     IF j = k THEN Read(p.entries.inv, p.entries.path, v) ELSE @[j]]]

\* A card of the form is one of state.hosts itself.
ChangeHostCard(p, v) == [p EXCEPT !.hosts.val = v, !.hosts.gone = FALSE, !.hostsDirty = TRUE]

AddHost(p, v) == RenderHosts(ChangeHostCard(p, v))

ChangeHostsText(p, v) == [p EXCEPT !.text.val = v, !.hostsDirty = TRUE]

SaveForm(p) == Request("save", p.inventory, p.currentPath, p.pending, None)

SaveRaw(p) == Request("raw", p.inventory, p.currentPath, NoEdits, None)

SaveHostsForm(p) ==
  Request("saveHosts", p.inventory, HOSTS_VIEW, [k \in {HOSTS_VIEW} |-> p.hosts], None)

SaveHostsRaw(p) ==
  Request("saveHosts", p.inventory, HOSTS_VIEW, [k \in {HOSTS_VIEW} |-> p.text], None)

\* The first inventory of the list that is not the template.
Preferred(listed) ==
  LET own == {i \in DOMAIN InvNames : InvNames[i] \in listed \ {Sample}}
  IN IF own = {} THEN Sample ELSE InvNames[Min(own)]

-----------------------------------------------------------------------------
(* The rest of a handler, once its await is over *)

\* What the page becomes, and the requests that the handler awaits next.
Page(p) == [page |-> p, next |-> <<>>]
Await(p, request) == [page |-> p, next |-> <<request>>]

ChooseInventory(p, inv, then) ==
  Await(SelectInventory(p, inv), Load("files", inv, None, then))

\* createInventory selects the new inventory after loadInventories has
\* selected the preferred one.
InventoryShown(p, then) == IF then = None THEN Page(p) ELSE ChooseInventory(p, then, None)

AfterList(p, q) ==
  ChooseInventory([p EXCEPT !.options = q.answer], Preferred(q.answer), q.then)

\* Mutant of AfterFiles: loadOps without await, so that createInventory goes on.
AfterFilesUnawaited(p, q) ==
  IF p.topTab = "ops"
  THEN [page |-> p, next |-> <<LoadOps(p, None), Load("files", p.inventory, None, None)>>]
  ELSE InventoryShown(DrawEmptyState(p), q.then)

AfterFiles(p, q) ==
  IF p.topTab = "ops" THEN Await(p, LoadOps(p, q.then)) ELSE InventoryShown(DrawEmptyState(p), q.then)

AfterOps(p, q) == InventoryShown(RenderOps([p EXCEPT !.opsArg = q.answer]), q.then)

AfterFile(p, q) == RenderFile([p EXCEPT !.entries = q.answer])

AfterSave(p, q) == RenderFile([p EXCEPT !.entries = q.answer, !.pending = NoEdits])

AfterHosts(p, q) == RenderHosts([p EXCEPT !.hosts = q.answer, !.hostsRaw = q.answer])

AfterSaveHosts(p, q) == AfterHosts([p EXCEPT !.hostsDirty = FALSE], q)

Heard(p, q) ==
  CASE q.op = "list"   -> AfterList(p, q)
    [] q.op = "files"  -> AfterFiles(p, q)
    [] q.op = "ops"    -> AfterOps(p, q)
    [] q.op = "file"   -> Page(AfterFile(p, q))
    [] q.op = "hosts"  -> Page(AfterHosts(p, q))
    [] q.op = "save"   -> Page(AfterSave(p, q))
    [] q.op = "saveHosts" -> Page(AfterSaveHosts(p, q))
    [] q.op \in {"create", "delete"} -> Await(p, Load("list", None, None, q.then))

-----------------------------------------------------------------------------
(* The steps *)

Init ==
  \E may \in Scenarios, exists \in Existing :
    LET first == Preferred(exists) IN
    /\ disk = [exists |-> exists,
               texts |-> [inv \in Invs |-> [f \in Files |-> [k \in Keys |-> Blank]]],
               hosts |-> [inv \in Invs |-> Blank]]
    /\ page = [topTab |-> "files", options |-> exists, inventory |-> first, currentPath |-> None,
               entries |-> NoEntries, pending |-> NoEdits, rawMode |-> FALSE,
               hosts |-> NoHosts, hostsRaw |-> NoHosts, hostsMode |-> "form", hostsDirty |-> FALSE,
               opsArg |-> None, opsMode |-> "add", opsFields |-> InitialFields,
               view |-> "empty", text |-> NoHosts]
    /\ inFlight = <<>>
    /\ person = [may |-> may, acts |-> 0, losses |-> 0, agreed |-> FALSE, kept |-> FALSE,
                 rushed |-> FALSE, strayed |-> FALSE, ordered |-> TRUE, missed |-> FALSE]

\* The person does something: the page becomes p, and requests go out.
Act(name, p, requests) ==
  /\ name \in person.may
  /\ person.acts < MaxActs[person.may]
  /\ Len(inFlight) + Len(requests) <= MaxInFlight
  /\ page' = p
  /\ inFlight' = inFlight \o requests
  /\ person' = [person EXCEPT
       !.acts = @ + 1,
       !.kept = @ \/ (name = "tab" /\ page.topTab = "files" /\ HasUnsavedChanges(page)),
       !.agreed = /\ name \in {"tab", "file", "search", "hosts"}
                  /\ HasUnsavedChanges(page) /\ (name = "tab" => page.topTab = "files"),
       !.rushed = @ \/ (inFlight # <<>> /\ name \in {"type", "typeHosts", "save"}),
       !.strayed = @ \/ (inFlight # <<>> /\ name = "tab")
                     \/ (page.topTab # "files" /\ name = "search")]
  /\ UNCHANGED disk

SwitchTab ==
  \/ /\ page.topTab = "ops"
     /\ Act("tab", SwitchToFiles(page), <<>>)
  \/ /\ page.topTab = "files"
     /\ LET p == SwitchToOps(page) IN Act("tab", p, <<LoadOps(p, None)>>)

OpenFile(name, path) ==
  Act(name, SelectFile(page, path), <<Load("file", page.inventory, path, None)>>)

ClickFile == \E path \in RenderSidebar(page) : OpenFile("file", path)

\* The search box is above every tab.
ClickSearchResult == \E path \in Files : OpenFile("search", path)

ClickHosts ==
  /\ page.topTab = "files"
  /\ Act("hosts", SelectHosts(page), <<Load("hosts", page.inventory, HOSTS_VIEW, None)>>)

PickInventory ==
  \E inv \in page.options \ {page.inventory} :
    LET c == ChooseInventory(page, inv, None) IN Act("inventory", c.page, c.next)

CreateInventory ==
  \E name \in Invs :
    Act("create", page, <<Request("create", page.inventory, None, NoEdits, name)>>)

DeleteInventory ==
  /\ page.inventory # Sample
  /\ Act("delete", page, <<Request("delete", page.inventory, None, NoEdits, None)>>)

TypeValue ==
  /\ page.view = "file"
  /\ \E k \in DOMAIN page.entries.vals, v \in Values : Act("type", OnFieldChange(page, k, v), <<>>)

TypeHosts ==
  \E v \in Values :
    \/ page.view = "hosts" /\ Act("typeHosts", ChangeHostCard(page, v), <<>>)
    \/ page.view \in {"hosts", "hostsRaw"} /\ Act("typeHosts", AddHost(page, v), <<>>)
    \/ page.view = "hostsRaw" /\ Act("typeHosts", ChangeHostsText(page, v), <<>>)

ClickSave ==
  \/ page.view = "file" /\ page.pending # NoEdits /\ Act("save", page, <<SaveForm(page)>>)
  \/ page.view = "fileRaw" /\ Act("save", page, <<SaveRaw(page)>>)
  \/ page.view = "hosts" /\ Act("save", page, <<SaveHostsForm(page)>>)
  \/ page.view = "hostsRaw" /\ Act("save", page, <<SaveHostsRaw(page)>>)

ClickToggle ==
  \/ page.view \in {"file", "fileRaw"} /\ Act("toggle", ToggleRawMode(page), <<>>)
  \/ page.view \in {"hosts", "hostsRaw"} /\ Act("toggle", ToggleHostsMode(page), <<>>)

ChooseOperation ==
  /\ page.view = "ops"
  /\ \E mode \in OpsModes \ {page.opsMode} :
       Act("ops", RenderOps([page EXCEPT !.opsMode = mode]), <<>>)

\* One input of the form; the command is built again each time.
FillOperation ==
  /\ page.view = "ops"
  /\ LET mode == page.opsMode
         f == page.opsFields[mode] IN
     \E g \in OpsFields[mode] \ {f}, x \in RenderOpsFields(mode, f) :
       /\ g = [f EXCEPT ![x] = g[x]]
       /\ Act("ops", [page EXCEPT !.opsFields[mode] = g], <<>>)

\* The server takes request i.
Serve(i) ==
  LET q == inFlight[i]
      d == IF Accepts(disk, q) THEN Effect(disk, q) ELSE disk IN
  /\ q.status = "sent"
  /\ disk' = d
  /\ inFlight' = [inFlight EXCEPT ![i] =
       IF Accepts(disk, q) THEN [q EXCEPT !.status = "answered", !.answer = Answer(d, q)]
                           ELSE [q EXCEPT !.status = "refused"]]
  /\ person' = [person EXCEPT !.ordered = @ /\ \A j \in 1..i-1 : inFlight[j].status # "sent"]
  /\ UNCHANGED page

\* The answer to request i reaches the page.
Hear(i) ==
  /\ inFlight[i].status = "answered"
  /\ LET after == Heard(page, inFlight[i]) IN
     /\ page' = after.page
     /\ inFlight' = RemoveAt(inFlight, i) \o after.next
  /\ person' = [person EXCEPT !.ordered = @ /\ i = 1]
  /\ UNCHANGED disk

\* Request i is over without its answer: refused, or lost on the way there or
\* back.  api() throws, and nothing of the handler's rest is done.
Fail(i) ==
  /\ \/ inFlight[i].status = "refused"
     \/ inFlight[i].status # "refused" /\ person.losses < MaxLosses
  /\ inFlight' = RemoveAt(inFlight, i)
  /\ person' = [person EXCEPT
       !.losses = IF inFlight[i].status = "refused" THEN @ ELSE @ + 1,
       !.missed = @ \/ inFlight[i].op \in Loads \/ inFlight[i].status = "answered"]
  /\ UNCHANGED <<disk, page>>

PersonActs ==
  \/ SwitchTab \/ ClickFile \/ ClickSearchResult \/ ClickHosts \/ PickInventory
  \/ CreateInventory \/ DeleteInventory \/ TypeValue \/ TypeHosts \/ ClickSave \/ ClickToggle
  \/ ChooseOperation \/ FillOperation

Next ==
  \/ PersonActs
  \/ \E i \in DOMAIN inFlight : Serve(i) \/ Hear(i) \/ Fail(i)

Spec == Init /\ [][Next]_vars

-----------------------------------------------------------------------------
(* Properties *)

TypeOK ==
  /\ disk.exists \subseteq Invs /\ Sample \in disk.exists
  /\ disk.texts \in [Invs -> [Files -> [Keys -> Contents]]]
  /\ disk.hosts \in [Invs -> Contents]
  /\ page.topTab \in {"files", "ops"} /\ page.inventory \in Invs /\ page.options \subseteq Invs
  /\ page.currentPath \in Paths
  /\ DOMAIN page.pending \subseteq Keys /\ \A k \in DOMAIN page.pending : page.pending[k] \in Edit
  /\ {page.hosts, page.hostsRaw, page.text} \subseteq Edit
  /\ page.view \in {"empty", "file", "fileRaw", "hosts", "hostsRaw", "ops"}
  /\ page.opsMode \in OpsModes
  /\ \A mode \in OpsModes : page.opsFields[mode] \in OpsFields[mode]
  /\ Len(inFlight) <= MaxInFlight

\* What the page, which never waits for its own requests, needs of the person
\* and of the network: typing and saving happen with nothing awaited, answers
\* come in the order of the requests, none is missed but a refusal to save, and
\* the tab is changed with nothing awaited, a search result opened on the Files
\* tab.  Files, hosts and inventories may be clicked as fast as one likes.
AsExpected == ~person.rushed /\ ~person.missed /\ ~person.strayed /\ person.ordered

\* A save carries the values of the file it is addressed to and of no other,
\* though selectFile, selectHosts and selectInventory change the address at once
\* and the form only later.
SavesCarryTheirOwnEdits ==
  AsExpected =>
    \A i \in DOMAIN inFlight : \A k \in DOMAIN inFlight[i].body :
      LET e == inFlight[i].body[k] IN e.inv = inFlight[i].inv /\ e.path = inFlight[i].path

\* The person has asked to delete the inventory, and the page waits for it.
DeletionAwaited(inv) ==
  \E i \in DOMAIN inFlight : inFlight[i].op = "delete" /\ inFlight[i].inv = inv

\* An edit of a form leaves `pending` only when it is on disk, when the person
\* was asked and agreed, or with the inventory it was for: hasUnsavedChanges
\* looks at one of two kinds of edits.
EditsLeaveSavedOrDiscarded ==
  [][AsExpected =>
       \A k \in DOMAIN page.pending \ DOMAIN page'.pending :
         LET e == page.pending[k] IN
         \/ e.gone \/ person'.agreed
         \/ disk.texts[e.inv][e.path][k] = e.val
         \/ DeletionAwaited(e.inv)]_vars

\* Once nothing is awaited, what is on the screen belongs to what is selected
\* and is what is on disk.
SelectionIsShown ==
  AsExpected /\ inFlight = <<>> =>
    /\ page.inventory \in disk.exists
    /\ page.topTab = "ops" => page.view = "ops" /\ page.opsArg = page.inventory
    /\ page.topTab = "files" =>
         CASE page.currentPath = None -> page.view = "empty"
           [] page.currentPath = HOSTS_VIEW ->
                page.view \in {"hosts", "hostsRaw"} /\ page.hostsRaw = GetHosts(disk, page.inventory)
           [] OTHER ->
                /\ page.view \in {"file", "fileRaw"}
                /\ page.entries = GetFile(disk, page.inventory, page.currentPath)

\* The command on the Operations tab is limited to the names on the form, and
\* to no names of an input that the form no longer shows.
OpsReachIsWhatTheFormShows ==
  page.view = "ops" =>
    LET mode == page.opsMode
        f == page.opsFields[mode]
        commands == BuildOpsCommands(page.opsArg, mode, f) IN
    commands[Len(commands)].limit \cap Nodes =
      IF "nodeNames" \in RenderOpsFields(mode, f) THEN f.nodeNames ELSE {}

\* What the person agreed to discard is sent by no later save, except after
\* agreeing on the way to another tab: switchTab keeps the edits, and a save on
\* the way back sends them.
DiscardedStaysDiscarded ==
  AsExpected /\ ~person.kept =>
    \A i \in DOMAIN inFlight : \A k \in DOMAIN inFlight[i].body : ~inFlight[i].body[k].gone
=============================================================================
