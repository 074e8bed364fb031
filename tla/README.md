# A TLA+ model of the Kubespray web UI

The web UI edits kubespray's `group_vars`, and runs long commands (offline
stages, cluster installs, Cilium, Molecule, transfer) whose output it streams to
the browser. This directory holds TLA+ modules translated from its source, TLC
configurations that check them on small instances, and proofs checked by TLAPS.

    tlc -workers 2 -config MCRunEngine.cfg MCRunEngine
    tlc -workers 2 -config MCEditorPage.cfg MCEditorPage
    tlapm RunEngineProofs.tla

`PROJECT.json` lists the runs, maps each definition to the lines it stands for,
and lists the hazards, mutants, findings and theorems.

## 1. Inventory of the system

| component | source | state | operations |
|---|---|---|---|
| run engine | `backend/main.py` 450-515 | a lock and a log per stage or role; the subprocess | check, acquire, spawn, mirror and stream output, release; client disconnects |
| per-inventory runs | `backend/main.py` 667-941, 1022-1079 | lock and log tables by inventory, filled on first use; the active Cilium action | plan, run, verify, connectivity, offline apt, Cilium install, uninstall, test |
| group_vars parser | `backend/parser.py` | none: text in, text out | parse, render, apply_updates, upsert |
| group_vars files | `backend/main.py` 94-240, 652-664; `backend/offline.py` 412-453 | files on disk | read, save form, save raw, configure, search |
| editor page | `static/app.js` 1-835, 2903-3063 | current tab, inventory, file or hosts, pending edits, what is drawn | select tab, inventory, file, hosts, search result; edit, save, toggle raw; create and delete inventories; build a command |
| run tabs of the page | `static/app.js` 1004-2900 | the open tab, the local log of each button, labelled buttons, polls under way | open a tab, press one of ten buttons, read and judge output, poll, redraw |
| inventory store | `backend/main.py` 84-91, 131-168 | directories under `inventory/` | list, create (clone), delete |
| hosts editor | `backend/hosts_inventory.py`, `backend/main.py` 280-316 | `inventory.yml` | form save, raw save |
| version switcher | `backend/main.py` 319-402 | the kubespray checkout | fetch, list, checkout |
| offline pipeline | `backend/offline.py` | lists, archives, registry, mirrors under `contrib/offline` | six stages, plan, readiness |
| Cilium commands | `backend/cilium.py`, `backend/main.py` 889-1020 | the cluster, over SSH | versions, node status, install, uninstall |
| Molecule | `backend/molecule_runner.py`, `molecule/` | containers | a command per role |
| transfer | `scripts/transfer.sh` | images, volumes and files on another host | check, copy, verify, start |
| backups | `backup-sync/` | staging directory, bucket | pull, upload, repeat |
| playbooks | `playbooks/` | apt sources of the nodes | enable, restore, verify |

**How they interact.** The page calls the handlers over HTTP. Handlers declared
`def` run on a pool of threads; the generator behind a streamed answer runs on
the event loop. The handlers share the lock and log tables with the generators
and the files with each other, and nothing else synchronises them. The runs are
subprocesses that read the same files and change the same checkout. Within the
page nothing waits for anything: every handler is an `async` function that other
clicks, answers and timers overtake at each `await`, and all of them share the one
`state` object and the one `#content` element.

**What is hard.** Check and acquire on different threads; a client that leaves at
any `await`; locks that are made when first asked for; files that are read,
emptied and written while others read them; a server that dies between two of
those; an editor that rewrites ranges of lines by number; a page that renders
answers in the order they happen to arrive.

**What makes each correct.** Run engine: one run per lock, no lost wake-up, logs and
verdicts that are one run's, every accepted request answered. Per-inventory runs: the same
with tables that are filled on the way. Parser: what is saved reads back, nothing else
changes, repeating changes nothing. Files: a text on disk is one that somebody saved.
Editor page: a save carries the edits of the file it goes to, an edit is lost only where
the person agreed, what is discarded is gone, what is on the screen at rest is what is
selected. Run tabs: a verdict is that of the run it stands under, a tab is drawn on its
own tab only, a run goes to the inventory that is shown, labels go away, polls do not
multiply. Store: no operation works on a half-made or deleted inventory. Pipeline: no
stage reports success over what is missing.

## 2. Modules

| module | what it is |
|---|---|
| `RunService` | abstract: at most one running request per lock, a refusal only while one runs, no second start |
| `RunEngine` | `_stream_shell`, `_check_not_running`, `asyncio.Lock`, subprocess and pipe; its properties; `RunService` as `Service` |
| `SequenceFacts` | lemmas on sequences: what is left after a removal, in a concatenation, after a replacement; least and greatest numbers; that a recursive function over an interval exists |
| `RunEngineProofs` | exclusion, wake-ups and refinement of `RunEngine`, its logs and verdicts, proved |
| `InventoryRuns` | extends `RunEngine` with the tables that handlers fill, and the Cilium label |
| `InventoryRunsProofs` | the types, overlaps, labels and logs of `InventoryRuns`, proved on the lemmas of `RunEngineProofs` |
| `GroupVars` | the parser as pure operators on sequences of lines |
| `GroupVarsFacts` | what the parser's operations return, and that entries they are not to update stand as they stood |
| `GroupVarsEditing` | one file under a sequence of form saves and configures, each one step |
| `GroupVarsEditingProofs` | all invariants of `GroupVarsEditing` proved: types, what a save does to the keys it names and to the others, what configuring does once and twice, switching there and back |
| `GroupVarsFile` | one file under concurrent handlers, a save being three steps, and crashes |
| `GroupVarsFileProofs` | types, whole texts, readers and the atomicity of lone saves, proved |
| `OpsCommands` | the command builder of the Cluster Operations tab as pure operators |
| `EditorPage` | the editor of the page with the handlers that answer it |
| `EditorPageProofs` | what each handler does to the page and to the requests awaited; types, which file a save goes to, what stays discarded, what the commands reach, what is on the screen at rest and where edits go, proved |
| `RunTabs` | the four tabs that run things, composed with `RunService` as the server |
| `RunTabsProofs` | types, views, targets, polls and verdicts of `RunTabs`, proved |
| `MC...` | values for the constants |

### RunEngine

A request is one POST. `pc` says where its handler or generator stands; `ref` the
lock object its handler got; `locked`, `queue`, `granted` are `Lock._locked`,
`Lock._waiters` and "the future of the oldest waiter is resolved"; `proc`,
`written`, `taken` the subprocess and its pipe; `logs` the server-side log.

| action | code |
|---|---|
| `Post` | a run handler with `_check_not_running`: 409, or a response is returned and nothing is reserved |
| `AcquireFree`, `AcquireWait`, `AcquireTurn` | `lock.acquire()` at once, by queueing, on being woken; then the log is reset without an await in between |
| `Spawn`, `SpawnFails` | `create_subprocess_shell` |
| `ReadChunk`, `Sent` | `read`, mirror, `yield` |
| `ReadEnd`, `Finish` | end of output, `wait`, the exit line, `finally` |
| `DropUnstarted`, `CancelWaiting`, `CancelRunning`, `AbandonSend`, `Finalize` | the client leaves: before the generator starts, in `acquire`, in spawn or read, while sending; in the last case the event loop closes the suspended generator later |
| `Write`, `ProcExit` | the subprocess: it can print as long as buffer and pipe have room |

What the model takes from the libraries: `acquire` returns at once only if the
lock is free *and* nobody waits; `release` resolves the oldest waiter's future,
and until that waiter resumes `locked()` is False; a cancelled waiter passes its
wake-up on if the lock is free; a disconnect cancels the task that sends the
response; a subprocess survives its reader, except that
`create_subprocess_shell` kills what it started when it is cancelled itself.

### InventoryRuns

Each handler thread walks through `enter`, `storing`, `resetting` (for Cilium's
install and uninstall also `resettingOther` and `unlabelling`), `lookup`,
`labelling`: the statements of `_xxx_lock(inv)` and of the handlers, between which
other threads run. A slot is one table entry for one inventory; a lock object is
named after its creator. `table`, `logMade` and `active` are the tables;
`stored` is a history variable, the locks ever put into a slot. The Cilium
handlers start at `lookup`: they rely on the plan having made the entry.

### GroupVars, GroupVarsEditing, GroupVarsFile

A line is a record: number of comment marks, indented or not, key or `None`, an
opaque text. That is what `ACTIVE_RE`, `DISABLED_RE` and `DISABLED_CONT_RE` tell
apart. A value is the sequence of its lines; a one-line entry given a longer value
is rendered as the code does it, the comment mark reaching the first line only.
The rewriting from bottom to top is a recursive function of the line number
(`Rewritten`), as recursive functions can be reasoned about.
`Rejoin` is the round trip through text, which drops a blank last line. `Loads`
stands for PyYAML as far as saves can violate it. `GroupVarsEditing` lets the form
send what its rows allow (`renderValueInput`, `onFieldChange`): one line of text for
an entry of one line, and for a block any lines at all, as its input is a textarea
that holds the key line too (app.js 2934-2938). `Blocks` are the texts typed there;
what the properties then have to exempt is stated in `OfKey` and `Clean`:

- A line at column 0 is a setting of its own: `b: 2` typed in the block of `a` adds
  an entry of `b`. A first line with an indent reads as part of the entry above.
- A blank line ends the entry (parser.py:77): what is below it stays live and belongs
  to none. Switched off, the blank line becomes `#`, which ends the entry as well.
- An empty text leaves `a:`, an entry of one line.

`GroupVarsFile` splits a save into the read, the opening that empties the file and the
write from its start, which leaves the tail of a longer text written meanwhile. `written`
and `readAt` are history: who wrote, in which order, and after how many writes each
handler read, so that `WholeTexts` can say whose text is on disk and which text that was
computed from; an update between the two is lost. `alone` stands for one person who waits
for every answer; `torn` is history: the file was read or opened again while open, or left
open by a crash. Routing is part of it: the first route that matches wins, so
`update_file_raw` is never reached, and no action stands for its body.

### EditorPage, OpsCommands

`page` is the part of `state` (app.js 3-24) that the editor uses, plus `view` and
`text`, which stand for what `#content` shows. Every handler is cut at its `await`:
the part before it is an operator from page to page (`SelectFile`, `SwitchToOps`,
`OnFieldChange`, `SaveForm`, ...) used by an action of the person, the part after
it an operator (`AfterFile`, `AfterSave`, `AfterList`, ...) applied by `Hear` when
the answer comes. A handler that awaits several requests one after the other
(`loadInventories`, then `selectInventory`, then `loadOps`) hands its rest on from
request to request in `then`. `Serve` is the server taking a request, one step per
handler; the steps within a save are `GroupVarsFile`. `Fail` is a refusal, or a
request or answer that is lost: `api()` throws and the rest of the handler is not
done.

Every value carries the inventory and the path it was read from or typed for, and
whether the person has agreed to discard it. The program has no such marks; the
properties are about them. `person` records how the page is used: `rushed` (typed or
saved with something awaited), `strayed` (left the tab, or opened a search result
from another tab, with something awaited), `ordered` (answers in the order of the
requests), `missed` (an answer that did not come), `kept` (went to another tab over
unsaved changes). `AsExpected` is the use the page is safe under.

What it takes to make the properties true is part of the result. TLC refutes them,
one at a time, without their conditions:

- Saying "discard" on the way to another tab discards nothing: the edits stay in
  `state.pending` (129-130) and a save after coming back sends them (`kept`).
- `selectFile` changes the path at once and the form when the answer is there; a
  load that fails leaves the old form under the new selection, and saving it
  writes the old file's edits into the new file (278; `missed`, `rushed`).
- `selectInventory` (220-223) asks nothing: hosts edits are dropped without a
  question, and the edits of a file stay pending until another file is chosen.
- Creating and deleting an inventory in quick succession can end with the deleted
  one selected (`ordered`).
- The Form/Raw button of the hosts (`ToggleHostsMode`) draws the text area from what
  was loaded: text typed there is gone.
- A raw save of a group_vars file is refused with 422 whatever it holds (see
  `group_vars_raw`).

Two details of what is left as the code has it: a reset of "Specific node(s)" with
no name is a command without `--limit`, that is the whole cluster (582-585); the
values of the Cilium form are one text for all inventories.

### RunTabs

A run is one press of one button for one inventory; there are ten buttons on four
tabs, each described by the record its handler comes down to (`Handlers`): is its
lock per inventory, which lock is it, does it read the plan again at its end, does
it judge by exit code or by words. `own[r].at` is where the handler of a press
stands: posted, reading the stream, rereading the plan, over; `clear` is history: at
its end, its button was still on the screen. `asked` holds the
requests for plans (`load`, `poll`, `reread`, `select`) and the timers of polls
that have not gone out. `page.local` are the logs kept per button
(`state.*Logs`), `page.view` is the plan that was drawn, with the buttons that say
"Running...". `attached` says whether the button that was pressed is still the one
on the screen: every drawing replaces it.

| action | code |
|---|---|
| `SwitchTab`, `SelectInventory` | `switchTab`, `selectInventory` up to their await |
| `Press`, `Accepted`, `Refused`, `Receive`, `StreamIsOver` | `runOfflineStage`, `runInstallation`, ...: before the POST, its answer, the loop over `reader.read()`, the end |
| `LoadTab`, `PollTab`, `Fire`, `RereadTab`, `ShowSelection` | `loadOffline` and its three sisters, `pollOfflineRunning` and its three, their `setTimeout`, the reread in the run handlers, the rest of `selectInventory` |
| `LoadFails`, `PollFails`, `RereadFails`, `SelectFails`, `StreamIsCut`, `ConnectionLost` | `api()`, `fetch` or `reader.read()` throws: the `catch` of the load, of the poll, of the run handler, and none in `selectInventory` |
| `Start`, `Emit`, `End`, `Break`, `StartElsewhere` | the server, as `RunService` allows: a run ends with its exit line, or without where it cannot be started or its client leaves; and another page |

The server is an instance of `RunService`, which `RunEngine` was proved to implement.
That covers the buttons whose locks exist from the start (offline stages, transfer,
Molecule). The locks of the others are made when first asked for, and two handlers
that race there make two (`InventoryRuns`): the server is then not `RunService`, and
`RunTabs` speaks of scoped buttons only where that race did not happen. The outputs
are cut in two pieces, the first of which may have the words of success (`Says`), the
second the exit line (`Succeeds`: with code 0). Which of the failures may happen is
part of a scenario.

Facts the conditions of the properties stand for, each found as a counterexample
without them:

- A run that rereads its plan at the end draws its tab over whatever tab is open
  by then (1072, 1664, 2016), and so does a load or poll whose answer is late
  (`strayed` in `ViewMatchesTab`).
- A press while an inventory is being selected runs on the inventory chosen, not
  on the one whose plan is still shown (1985). If the request for its files fails,
  `selectInventory` throws with `state.inventory` set (221-223), and the old plan stays
  with its buttons until something is drawn (`outdated` in `RunGoesWhereShown`).
- The log of a button is one per page. A plan with an empty log leaves the log of
  the other inventory standing (2171), and two runs of one button share it: the
  verdict of each may be the other's (the premise of `VerdictOfALoneRun`).
- `runInstallation` judges after the await of the plan (2010), from a log that a
  redraw may have replaced by an older one: a run that succeeded is then reported
  as failed (`clear` in `VerdictOfALoneRun`).
- `runVerifyCluster` goes by the words in the log (1905), not by the exit code that
  the comment at 49-55 speaks of. A run may print them and end with another code, or
  without one; the property holds each handler to what it goes by (`Passes`).
- A poll that fails is the last one (1131, 1632, 1814, 2344): the label of a run that
  is over then stays, on a tab that stays open, though its title says "this will update
  on its own once it finishes" (1552). `RunningLabelGoes` exempts a tab on which that
  happened (`unpolled`).
- Nothing polls the transfer (1594): its label goes when the tab is opened again
  (`Polled` in `RunningLabelGoes`).

## 3. Runs

| run | states | shows |
|---|---|---|
| `run_engine` | 11,584 | with fairness: type, `OneRunPerLock`, `NoLostWakeup`, `LogIsOneRunsOutput`, `VerdictIsTrue`, `VerdictStays`, `EventuallySettles`, `ImplementsService` |
| `inventory_runs` | 335,970 | `OverlapBoundedByCreations`, `LogCoherentWithoutRace`, `LabelOfALoneRun`, `NoKeyErrorAfterPlan`, `EveryPostAnswered` |
| `group_vars_editing` | 9,435 | `OtherKeysUntouched`, `UpdatesReadBack`, `SwitchingBackRestores`, `ConfigureIsIdempotent`, `ConfigureEnables`, each for every update the form can send in every file reached |
| `group_vars_file` | 732,122 | `WholeTexts`, `ReadersSeeOneText`, `SavesAloneAreAtomic` |
| `editor_page` | 1,175,451 | `SavesCarryTheirOwnEdits`, `EditsLeaveSavedOrDiscarded`, `DiscardedStaysDiscarded`, `SelectionIsShown`, `OpsReachIsWhatTheFormShows` |
| `run_tabs` | 165,475 | `VerdictOfALoneRun`, `ViewMatchesTab`, `RunGoesWhereShown`, `PollsDoNotMultiply`, and with fairness `RunningLabelGoes` |

Six runs end in a violation, each of something the repository says:

| run | property | what happens |
|---|---|---|
| `run_engine_overlap` | `NoTwoProcesses` | the client of a running stage leaves in mid-read, `finally` frees the lock, the process lives on, a second run starts beside it |
| `run_engine_stall` | `ProcessKeepsGoing` | the same process fills the buffer and the pipe and stands still for ever |
| `cilium_label` | `ActiveIsHolder` | two posts pass the check, the second labels the run of the first |
| `group_vars_remarks` | `RemarksUntouched` | `a:` with `#   words` below, switched off and on, ends as `a:` with `  words` |
| `group_vars_file_overlap` | `OtherLinesStay` | a save reads while another one has the file open, and writes back an empty text with its own keys; both answer 200 |
| `group_vars_raw` | `RawSavesAreTaken` | a raw save reaches `update_file` and is refused with 422 |

**Bounds, and why they are enough.** `run_engine`: three requests of two keys that
share one lock (one holds, two queue, any of them leaves; a fourth adds only a
longer queue, which the proofs cover); outputs of 4, 0 and 1 chunks against
`LogCap` = `PipeCap` = 2, so that both overflow. `inventory_runs`: two posts and
two plans of a slot that only plans fill, or two posts and a plan of one that
everybody fills: slots share nothing, so each is explored by itself.
`group_vars_editing`: every loadable file of up to three lines over nine kinds of
line, saves of up to two keys, files up to six lines: three lines hold an entry,
what continues it, and what must not; the shift of line numbers needs two. Into a
textarea go a block, nothing, a line without its key, a block with a blank line in
between, and a block of another key (`MCBlocks`).
Starting files have no live line outside a setting and no key in two kinds; what is
saved may make such files.
`group_vars_file`: two saves of different length, one that is refused, a
configure, a raw save and a reader, once each, and one crash: three writers are what
it takes for a text to be computed from neither the first nor the last.
`editor_page`: the template, one more inventory or none, and one to create; two
files of one variable; one value to type. A person does five things, four where
inventories come and go, of one of five kinds of work (`MCScenarios`); two requests
may be awaited and one lost. Five acts hold every sequence open, edit, leave, come
back, save, with one more that overtakes; two requests are what it takes to
overtake, and each further one repeats a race of a pair. `run_tabs`: seven
scenarios, each two runs that share a button, a lock, a tab or nothing, from this
page or one from elsewhere, on the inventories and tabs where they can meet, with
up to three changes of tab or inventory, and with two kinds of failure that may happen,
every kind in some scenario. Two pieces of output are the fewest with a
log that is behind and one that ends with its verdict.

**Fairness.** Weak fairness per request of the event loop's steps and of the
subprocess's (`LoopStep`, `ProcStep`), and of every handler thread's next
statement: asyncio runs each ready coroutine, the operating system each thread and
process that can go on. Nobody owes a post, a disconnect or a failed spawn. `Sent`
is among the fair steps: a client that stays connected takes what it is sent. One
that does not holds the lock of its stage, and the code has no limit for it.
In `run_tabs`: weak fairness of each run's steps (what is accepted runs, prints, ends
and is read to its end: the server's promise, proved of the engine except for its
liveness, which is checked) and of the oldest request or timer: it is answered in the
end, unless it fails, which `fetch` reports as well. Failures may come at any moment a
scenario has them; none has to. A request that neither is answered nor fails is not
assumed away by the code, which sets no timeout, but by the browser and the network.
Nobody owes a press or a change of tab, so `RunningLabelGoes` holds of a page that is
left alone, with no failed poll. The safety
properties of `EditorPage` need no fairness and its specification states none.

**Deadlock** is not checked: in most runs requests are made once each and the system
may come to rest. In `group_vars_editing` a session may end, and does where each
further save would pass `MaxLines` or nothing is left to switch.

Each property of a passing run is also run against a mutant of the code's
definitions (they stand above the definition they change, marked "Mutant of"):
a `release` outside `finally`, an `acquire` inside the `try`, a wake-up that dies
with its waiter, top-down instead of bottom-up rewriting, edits that stay pending
when another file is opened, a missing `await`, a poll that goes on after its tab
was left or sets up its successor twice, and the like.

## 4. Proofs

All of it holds for every value of the constants that the named assumptions allow:
any number of runs, requests, keys, locks, inventories, any mapping of runs to keys
and locks, any output lengths, any `LogCap`. TLC evaluates the assumptions in the
runs.

| module | theorem | statement | assumes |
|---|---|---|---|
| `RunEngineProofs` | `TypeCorrect` | `Spec => []TypeOK` | `EngineAssumption` |
| | `WakeupsAreNotLost` | `Spec => []NoLostWakeup` | |
| | `MutualExclusion` | `Spec => []OneRunPerLock` | |
| | `Refinement` | `Spec => ImplementsService` | |
| | `LogsAreWhole` | `Spec => []LogIsOneRunsOutput` | |
| | `VerdictsAreTrue` | `Spec => []VerdictIsTrue` | |
| | `VerdictsStay` | `Spec => VerdictStays` | |
| `InventoryRunsProofs` | `RegistryTypeCorrect` | `RegistrySpec => []RegistryTypeOK` | `EngineAssumption`, `RegistryAssumption` |
| | `NoKeyErrors` | `RegistrySpec => NoKeyErrorAfterPlan` | |
| | `OverlapsAreBounded` | `RegistrySpec => []OverlapBoundedByCreations` | |
| | `LoneRunsAreNamed` | `RegistrySpec => []LabelOfALoneRun` | |
| | `LogsOfOneLock` | `RegistrySpec => []LogCoherentWithoutRace` | |
| `GroupVarsEditingProofs` | `EditingTypeCorrect` | `Spec => []TypeOK` | `GroupVarsAssumption`, `EditingAssumption` |
| | `OthersUntouched` | `Spec => []OtherKeysUntouched` | |
| | `UpdatesAreRead` | `Spec => []UpdatesReadBack` | |
| | `ConfigureTurnsOn` | `Spec => []ConfigureEnables` | |
| | `ConfigureOnce` | `Spec => []ConfigureIsIdempotent` | |
| | `SwitchingBack` | `Spec => []SwitchingBackRestores` | |
| `GroupVarsFileProofs` | `FileTypeCorrect` | `Spec => []TypeOK` | `GroupVarsAssumption`, `FileAssumption`, `UpdatesAssumption` |
| | `ReadersSeeTexts` | `Spec => []ReadersSeeOneText` | |
| | `TextsAreWhole` | `Spec => []WholeTexts` | |
| | `SavesOfOnePerson` | `Spec => SavesAloneAreAtomic` | |
| `RunTabsProofs` | `TypeCorrect` | `Spec => []TypeOK` | `TabsAssumption` |
| | `ViewsMatch` | `Spec => []ViewMatchesTab` | |
| | `RunsGoWhereShown` | `Spec => RunGoesWhereShown` | |
| | `PollsAreBounded` | `Spec => []PollsDoNotMultiply` | |
| | `VerdictsOfLoneRuns` | `Spec => []VerdictOfALoneRun` | also `VerdictAssumption` |
| `EditorPageProofs` | `SavesOwnEdits` | `Spec => []SavesCarryTheirOwnEdits` | `EditorAssumption` |
| | `DiscardsStay` | `Spec => []DiscardedStaysDiscarded` | |
| | `OpsReach` | `Spec => []OpsReachIsWhatTheFormShows` | also `NodesAssumption` |
| | `EditorTypeCorrect` | `Spec => []TypeOK` | |
| | `SelectionsShown` | `Spec => []SelectionIsShown` | |
| | `EditsLeave` | `Spec => EditsLeaveSavedOrDiscarded` | |

**The engine.** `OneRunPerLock` is not inductive by itself: `AcquireTurn` takes the
lock without looking at `locked`, so one must know that a resolved future means a
free lock. That is `GrantIsDue`, a part of `NoLostWakeup`, which in turn needs the
queue to hold exactly the waiters, once each (`WaitersAreQueued`, `QueuedOnce`),
because a cancelled waiter is found in the queue by its name. So the order is:
types, then wake-ups (by `RemoveAtProperties` and one case per way a step may
touch a queue), then mutual exclusion, each used in the step of the next. For the
refinement, mutual exclusion is what makes an acquire an abstract `Start` (nobody
else of that lock runs) and a 409 an abstract `Refuse` (somebody does).

**The logs.** `LogInv` has three parts. `Progress` bounds what a run has taken by
what its process has written, and says that one that is done has taken all.
`OwnersLog`: the log of a key that somebody holds is a `Stretch` of the holder's
output up to where it stands: its last pieces, consecutive, cut by nothing but
`LogCap`. `LogIsStretch`: any other log is such a stretch of some run, or one that
is `Closed` by its exit line. A step touches at most one log, by a reset, an append
that may cut the front, or an exit line; mutual exclusion is what tells that the
one who appends is the one whose stretch it is.

**The inventories.** The engine's lemmas speak of a step with *any* lock object, so
they hold of the registry as they are (`LocksWork`): exclusion per object is not in
question, which objects there are is. `EntryIsMade` says how far a handler that is to
find an entry, or has made one, has got; no table entry ever goes, hence no
`KeyError`. `Kept`: the lock a request holds, and the one a table holds, were stored
in that slot. So of *k* stored objects each has at most one holder, and an injection
from holders to objects bounds the overlap. `LabelIsOfAccepted` follows the Cilium
label: it names the action of a request that got past the check, which on a slot with
one accepted run is that run. For the logs, a slot with one object has one holder at
a time; `CoherentLogs` says of each of its logs that its chunks are of one run,
consecutive, and end where the holder stands, unless the creator's late reset has
emptied it, after which they start in mid-output. `Requests` and `Plans` must be
disjoint: a proof attempt found that the model let one caller be both.

**The file.** `WholeTexts` speaks of the file at rest; the invariant must also say what
was read and what is to be written. `TextsInv`: as long as nobody met the file while it
was open (`~torn`), one handler at most has it open and it is empty then, otherwise it is
the template or what somebody reported (`OpenInv`); and every text that was read for a
save or computed by one is `Whole`: each entry of the template that no request updates
stands in it line for line (`WholeInv`). What makes that inductive is a fact about the
parser, for any text and any updates: `ApplyUpdates`, `Upsert` and `Rejoin` keep the
entries of all other keys (`Keeps`, in `GroupVarsFacts`). An entry ends where a line does
not continue it, so it must neither lose lines to nor gain lines from its neighbours; it
cannot as long as each replaced block begins with a line that is not indented (`IsBlock`,
`AgreesReplaced`). Rewriting from the bottom keeps the lines above the current one as they
were (`Agrees`), which is what top-down rewriting loses. The recursion is over line
numbers, not over data: the function exists by `Countdown` (well-founded recursion, in
`SequenceFacts`), and a greatest line at which it goes wrong is refuted
(`UnrolledAgrees`). `UpdatesAssumption` is needed: a block whose first line was typed with
an indent would be taken for a continuation of the entry above it. The docstring of
`upsert` excludes it; the form's text area does not, and this module leaves such input out
(`GroupVarsEditing` has it). The history says more: each text written is `Result` of the
text after the first `readAt` writes, because with nobody meeting an open file a read sees
exactly the last text written. For one person at work, `AloneInv`: one request at most is
on its way, and what it has read is still what is on disk.

**Editing.** `OthersUntouched` says more of the parser than `Keeps`: no entry of
another key is lost, added, or moved past another, in a file with any number of twins.
`Seen(lines, k)` reads the entries of a key off from top to bottom and is written as a
function of the line to begin at, because the proof goes by that: what is seen from a
line on depends on the lines from there on only (`SeenBelow`, `SeenMoved`), so text that
has moved as a whole shows what it showed. The block that replaces an entry begins
without an indent and names no other key at column 0 (`OfKey`, of what is sent;
`IsOfKey`, of what is rendered), so to another key it shows nothing
(`ShowsSameReplaced`), whatever it swallows of the remarks below, and wherever a blank
line in it ends the entry. `ShowsSame`
is carried upwards along the rewriting (`BottomUp`, the induction that the three theorems
share: what holds below the last line and is handed from each entry to the one above
holds of the result), and the end of the file, where `Rejoin` takes a
blank line away or puts one there, shows nothing (`PrefixShowsSame`). Without `OfKey`
the theorem is false: a line `b:` typed in the block of `a` is a new entry of `b`.

`UpdatesAreRead` is the same argument for the keys that are updated. What an input is
rendered as reads back as that input (`EntryTextShows`), provided the line below does not
go on with it, and that is what `Clean` is for: no stray line follows a setting that is
switched on, no remark one that is switched off (`NotFollowed`), and what is sent for a
block is one entry (`IsBlockOf`), not two with a blank line in between. `ConfigureTurnsOn`
goes by single lines instead of what is seen: where an entry begins and whether it is
active its first line says alone. Lines that carry no comment mark stay without one
(`RenderedLive`), so of a repository key no inactive entry is left (`AllActive`). A block
that gets a one-line value is no entry any more, and `upsert`, which looks for what is
missing after the rewriting, appends it (`AppendedHas`); a URL's entry gets its own value
and remains (`SwitchedFrom`).

`ConfigureOnce` needs to know the whole of what the first pass leaves. `Shows(text)` is the
set of what its entries show, without their places; `JoinedEntries` takes it through the
appending, and `ConfiguredIsSettled` says of each entry that it is a repository's with the
value that was sent, or switched on, or one that was there before. So the second pass finds
every entry it is to update switched on with the value it will give it, and an entry
rendered from what it shows is its own lines (`EntryRendersItself`, which takes that marks
are all or none in an entry): nothing is rewritten (`NothingToRewrite`), nothing is missing,
and only the joining acts, on the blank lines at the end.

`SwitchingBack` goes by the lines themselves. With one entry of its key the rewriting is one
splice (`RewrittenOnce`), and the text after it shows the value that was sent, of the same
kind, in one entry that ends where the spliced block does (`SwitchedShows`): this is where
`Clean` is needed, as a remark or stray line drawn in would make the block longer.
`EntryRendersItself` makes the second splice put back exactly the lines that the first one
took (`SplicedBack`), and what the joining in between cut off was a blank last line of the
file, never one of the block (`SplicedHolds`).

Looking for a proof of `ConfigureIsIdempotent` corrected the property: it said that a
second pass leaves the file the same to the last line, and of a file that has all keys and
ends with three blank lines that is false. `apply_updates` joins the lines and adds a
newline only if none is at the end, so each joining takes one blank line off. No template
of the run ended so; one does now (`MCEndsBlank`), and the property exempts the blank
lines at the end.

**The tabs.** What is drawn when an answer comes was decided when the question was asked,
so the invariants speak of every request in `asked`: `Types` of its plan and of the
buttons it will label, `StraightInv` of where it belongs (with nobody having strayed, a
request that will draw is for the tab that is open and the inventory that is selected, or
that one's files are awaited or did not come). They follow the list through removal,
append and replacement by what it can contain (`SequenceFacts`). For the verdicts,
`VerdictInv` says of a run that shares its button's log with no other: every text that can
still reach that log (the log, the server's, those in answers on their way) is of this run
alone (`TextsAreOf`), which makes a "success" true of what the handler goes by, and until
something is drawn over its button the log is exactly what it has received
(`TextIsWhole`), which makes a "failure" true where the button is still on the screen
(`clear`). A stream that is cut, or a request that fails, concludes without either. For
the polls, `ChainsInv` counts: the requests and timers that will draw a tab are at most as
many as the choices of the person and the runs that have drawn their tab; a poll has one
successor, in its own place. The runs that ever drew are finitely many though `Runs` may
be infinite, and the invariant has to say so.

**The editor.** A click changes the selection at once, the form only when the answer
is heard, so "the form is of the selection" is no invariant. `Agree` is: `Underway`,
what holds at any moment (a save is the oldest request and carries values of the file
it is addressed to; what is typed into a file's form is of that file), and `Settles`,
what follows once the loads are through. Its heart is that the last load on its way is
the one the selection asked for (`AskedFor`), so that when answers come in order and
none is missed, the last to be heard makes form and selection one again
(`HeardAgrees`). Typing and saving then happen only when they are (`TypedAgrees`,
`SaveAgrees`). Without the condition on `rushed`, on `missed` or on `ordered` the
model has saves of another file's values; the one on `strayed` is there for
`SelectionIsShown`. Both theorems on saves are parts of `Underway`.
`OpsReach` needs none of it: the fields keep their types (`OpsInv`), and `LastCommand`
goes through the operations one by one; it takes that no host has the name of one of
the two groups that the commands themselves limit to.

**The editor and the disk.** `SelectionIsShown` compares the page with a disk that other
requests change. `CurrentInv` follows every answer on its way: it is still true of the
disk when it is heard, or something will be loaded after it (`AnswersStand`); the last
load of files or commands is of the selected inventory (`LoadsTheInventory`); and with
nothing on its way that would be shown, the screen is the disk (`Rests`). What was served
later and changed the disk is a save, never behind a load, or has created or deleted an
inventory, after which the page loads its list anew (`Renews`). For the edits,
`FollowedInv`: a save that is awaited carries all that is pending and was not discarded,
and what an answered one wrote is on disk until it is heard or the inventory is
deleted. The proof corrected the property: type, save, delete the inventory, pick
another and create one of the same name, all before the save's answer is heard, and the
edit leaves with a file that is gone; `EditsLeaveSavedOrDiscarded` now exempts it by the
deletion that was awaited, not by whether the inventory exists.

**Only model-checked.** Liveness (`EventuallySettles`, `EveryPostAnswered`,
`RunningLabelGoes`), which the provers do not reach. Every invariant and every action
property of a passing run is proved.

## 5. Not modelled

Characters, wording and layout; `infer_type` and descriptions; authentication flags and
command texts (except which nodes and extra variables a command of the Operations tab
has); what the commands do on other machines; `Dockerfile`, compose and nginx
configuration. A group_vars file that is missing (404), and writes so long that the
operating system splits them. Of the page: the first load (it is the initial state), the
input fields of the run tabs, the readiness and configure cards. Of the streams: the 64 KB
chunks that cut a character in two (`main.py` 497). Of the inventory store: the steps
within `copytree` and `rmtree`, linked `group_vars`, and runs or saves that meet a
deletion. Of the hosts editor: what `hosts_inventory.py` makes of a text and drops of it.
The version switcher, the offline pipeline's artifacts, the transfer script, backups and
playbooks: their behaviour is that of git, ssh, docker and ansible, and the code here is
the order in which those are called.

## 6. Plan

1. Done: `RunEngine` with `RunService`, `InventoryRuns`, `GroupVars`,
   `GroupVarsEditing`, `GroupVarsFile`; the page in `OpsCommands`, `EditorPage` and
   `RunTabs`, the latter on `RunService`; the theorems of section 4.
2. Proofs: those of section 4 are kept with the modules they are about; what is added to
   a module below gets its theorems with it.
3. `InventoryStore`: create, clone, delete, list with `copytree` and `rmtree` in
   several steps, symlinked `group_vars`, checkout of a version, and runs and
   saves going on meanwhile.
4. `OfflinePipeline`: artifacts per stage, versions and inventories, partial
   failures, re-runs and readiness; `transfer.sh` as a resumable copy and the apt
   playbook's enable and restore per node.
