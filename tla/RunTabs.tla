------------------------------- MODULE RunTabs -------------------------------
(***************************************************************************)
(* The tabs of static/app.js that run things on the server: Offline        *)
(* Install, Ansible Molecule, Installation and Cilium.                     *)
(*                                                                         *)
(* A run is started by a button, which reads its output as it comes and    *)
(* judges it at the end; the same run may have been started elsewhere, by  *)
(* another page.  A tab is drawn from its plan (what runs, and the logs)   *)
(* when it is opened, when one of its polls sees a change and, for some    *)
(* buttons, when a run of theirs is over.  All of this goes on while the   *)
(* person changes tabs and inventories.                                    *)
(*                                                                         *)
(* The server is the service that the run engine was shown to implement:   *)
(* RunService, with the output of the latest run of each button.  What a   *)
(* run prints is cut into two pieces, the second of which ends with the    *)
(* line of the exit code; a run may also end without it.  What happens on  *)
(* the connections of the page comes in any order, and any of them may     *)
(* fail.                                                                   *)
(***************************************************************************)
EXTENDS Naturals, FiniteSets, SequencesExt

CONSTANTS
  Invs,         \* the inventories
  Runs,         \* the runs there may be
  ButtonOf,     \* the button, and the inventory, each of them is for
  InvOf,
  Succeeds,     \* the runs that end with exit code 0, if they are let end,
  Says,         \* and those that print the words of success before
  Scenarios,    \* the runs of this page, those from elsewhere, the tabs, the
                \* inventories, what may fail and, a bound, how often the
                \* person changes tabs or inventories
  None

-----------------------------------------------------------------------------
(* The buttons: each is described as its handler is written.               *)
(* scoped: the lock and the log are those of the selected inventory;       *)
(* lock: runs of one lock exclude each other;                              *)
(* rereads: when the output is over the plan is asked for again, the       *)
(*   verdict given then and the tab drawn; the others give the verdict and *)
(*   free the button;                                                      *)
(* by: what the verdict goes by, the exit code or the words of success.    *)

Handler(scoped, lock, rereads) ==
  [scoped |-> scoped, lock |-> lock, rereads |-> rereads, by |-> "code"]

RunOfflineStage == Handler(FALSE, "generate-lists", TRUE)
RunTransfer == Handler(FALSE, "transfer", FALSE)
RunMoleculeRole == Handler(FALSE, "role", TRUE)
RunConnectivityCheck == Handler(TRUE, "connectivity", FALSE)
RunVerifyCluster == [Handler(TRUE, "verify", FALSE) EXCEPT !.by = "words"]
RunOfflineApt == Handler(TRUE, "offline_apt", FALSE)
RunInstallation == Handler(TRUE, "installation", TRUE)
RunCiliumInstall == Handler(TRUE, "cilium_install", FALSE)
RunCiliumUninstall == Handler(TRUE, "cilium_install", FALSE)
RunCiliumConnectivityTest == Handler(TRUE, "cilium_connectivity", FALSE)

Handlers ==
  [stage |-> RunOfflineStage, transfer |-> RunTransfer, role |-> RunMoleculeRole,
   check |-> RunConnectivityCheck, verify |-> RunVerifyCluster, apt |-> RunOfflineApt,
   install |-> RunInstallation, cilium |-> RunCiliumInstall, uninstall |-> RunCiliumUninstall,
   test |-> RunCiliumConnectivityTest]

\* The tabs: the buttons that are drawn on them, and those that a poll looks at.
OfflineTab == [buttons |-> {"stage", "transfer"}, polled |-> {"stage"}]
MoleculeTab == [buttons |-> {"role"}, polled |-> {"role"}]
InstallationTab == LET all == {"check", "apt", "install", "verify"} IN [buttons |-> all, polled |-> all]
CiliumTab == LET all == {"cilium", "uninstall", "test"} IN [buttons |-> all, polled |-> all]

RunTab ==
  [offline |-> OfflineTab, molecule |-> MoleculeTab, installation |-> InstallationTab, cilium |-> CiliumTab]

RunTabNames == DOMAIN RunTab
Tabs == {"files"} \cup RunTabNames

\* The buttons that some run is of: the others stay as they are.
Buttons == {ButtonOf[r] : r \in Runs}
OnTab(tab) == RunTab[tab].buttons \cap Buttons
Polled(tab) == RunTab[tab].polled \cap Buttons
TabOf(b) == CHOOSE tab \in RunTabNames : b \in RunTab[tab].buttons

Key(b, inv) == <<b, IF Handlers[b].scoped THEN inv ELSE None>>
KeyOf(r) == Key(ButtonOf[r], InvOf[r])
Keys == {KeyOf(r) : r \in Runs}
GuardOf == [r \in Runs |-> <<Handlers[ButtonOf[r]].lock, KeyOf(r)[2]>>]

\* What may fail: the requests of each kind, the connections that a run is
\* started and read on, the runs.
Failures == {"load", "select", "poll", "reread", "connection", "run"}

ASSUME TabsAssumption ==
  /\ ButtonOf \in [Runs -> DOMAIN Handlers] /\ InvOf \in [Runs -> Invs]
  /\ Succeeds \cup Says \subseteq Runs /\ None \notin Runs \cup Invs
  /\ \A s \in Scenarios :
       /\ s.own \cup s.elsewhere \subseteq Runs /\ s.tabs \subseteq Tabs /\ s.invs \subseteq Invs
       /\ s.fails \subseteq Failures /\ s.acts \in Nat

Verdicts == {"refused", "error", "success", "failure"}

ASSUME VerdictAssumption == None \notin Verdicts

VARIABLES
  phase,    \* the server: where each run is,
  printed,  \* how many pieces of output it has printed,
  latest,   \* the run whose output is the log of a button and inventory
  page,     \* state and #content
  own,      \* what each run's handler in this page is at
  asked,    \* the requests for plans, and the timers of polls, oldest first
  person    \* what the person may do and has done

server == <<phase, printed, latest>>
vars == <<server, page, own, asked, person>>

S == INSTANCE RunService WITH Requests <- Runs, Guard <- GuardOf

-----------------------------------------------------------------------------
(* The plans *)

Output(r) == [n \in 1..printed[r] |-> <<r, n>>]

LogOf(b, inv) ==
  IF Key(b, inv) \in Keys /\ latest[Key(b, inv)] # None THEN Output(latest[Key(b, inv)]) ELSE <<>>

Plan(tab, inv) ==
  [inv |-> inv,
   running |-> {b \in OnTab(tab) : \E r \in Runs : phase[r] = "running" /\ KeyOf(r) = Key(b, inv)},
   logs |-> [b \in OnTab(tab) |-> LogOf(b, inv)]]

\* What a poll compares: not the inventory, and nothing of the transfer.
Snapshot(tab, plan) ==
  [running |-> plan.running \cap Polled(tab), logs |-> [b \in Polled(tab) |-> plan.logs[b]]]

\* A request, for the inventory that is selected when it is made.
Ask(kind, tab, snap, run) ==
  [kind |-> kind, tab |-> tab, snap |-> snap, run |-> run,
   at |-> "sent", inv |-> page.inventory, plan |-> None]

Timer(tab, snap) ==
  [kind |-> "poll", tab |-> tab, snap |-> snap, run |-> None,
   at |-> "timer", inv |-> None, plan |-> None]

-----------------------------------------------------------------------------
(* Drawing: #content is replaced, and a run that one of its buttons had    *)
(* started goes on with a button that is nowhere to be seen.               *)

\* The last field is history: the files of an inventory selected since this was
\* drawn did not come.
View(tab, inv, labelled) == [tab |-> tab, inv |-> inv, labelled |-> labelled, outdated |-> FALSE]

\* "Select a file...", "Checking status...", an editor, or nothing at all.
NoRuns(tab) == View(tab, None, {})

\* Mutant of Draw: the buttons that were blocked stay so.
DrawKeepingLabels(p, view) == [p EXCEPT !.view = [view EXCEPT !.labelled = @ \cup p.view.labelled]]

Draw(p, view) == [p EXCEPT !.view = view]

Detached(runs) == [r \in Runs |-> [runs[r] EXCEPT !.attached = FALSE]]

\* A button is labelled and blocked while a run of it goes on; the log is the
\* server's or, where that is empty, the one the page had.
RenderTab(p, tab, plan) ==
  [Draw(p, View(tab, plan.inv, plan.running)) EXCEPT !.local =
     [b \in Buttons |-> IF b \in OnTab(tab) /\ plan.logs[b] # <<>> THEN plan.logs[b] ELSE @[b]]]

\* A tab on which something runs is polled from then on.
PollsOf(tab, plan) ==
  IF plan.running \cap Polled(tab) # {} THEN <<Timer(tab, Snapshot(tab, plan))>> ELSE <<>>

-----------------------------------------------------------------------------
(* The steps *)

Init ==
  \E s \in Scenarios : \E inv \in s.invs :
    /\ S!Init
    /\ printed = [r \in Runs |-> 0]
    /\ latest = [k \in Keys |-> None]
    /\ page = [topTab |-> "files", inventory |-> inv, view |-> View("files", None, {}),
               local |-> [b \in Buttons |-> <<>>]]
    /\ own = [r \in Runs |-> [at |-> "idle", got |-> 0, attached |-> FALSE, verdict |-> None, clear |-> FALSE]]
    /\ asked = <<>>
    /\ person = [may |-> s, acts |-> 0, strayed |-> FALSE, unpolled |-> {}]

\* What the server does by itself.
Start(r) ==
  /\ S!Start(r)
  /\ latest' = [latest EXCEPT ![KeyOf(r)] = r]
  /\ UNCHANGED <<printed, page, own, asked, person>>

Emit(r) ==
  /\ phase[r] = "running" /\ printed[r] < 2
  /\ printed' = [printed EXCEPT ![r] = @ + 1]
  /\ UNCHANGED <<phase, latest, page, own, asked, person>>

End(r) ==
  /\ phase[r] = "running" /\ printed[r] = 2
  /\ S!End(r)
  /\ UNCHANGED <<printed, latest, page, own, asked, person>>

\* Its process cannot be started, or the client that reads it leaves.
Break(r) ==
  /\ "run" \in person.may.fails /\ printed[r] < 2
  /\ S!End(r)
  /\ UNCHANGED <<printed, latest, page, own, asked, person>>

StartElsewhere(r) ==
  /\ r \in person.may.elsewhere
  /\ S!Accept(r)
  /\ UNCHANGED <<printed, latest, page, own, asked, person>>

\* The person.  A tab or an inventory chosen while the page is to draw a tab is
\* what it has no guard against.
ToBeDrawn ==
  \/ \E i \in DOMAIN asked : asked[i].at # "timer"
  \/ \E r \in Runs : own[r].at \in {"posted", "reading"} /\ Handlers[ButtonOf[r]].rereads

Choose(p, requests) ==
  /\ person.acts < person.may.acts
  /\ page' = p
  /\ asked' = asked \o requests
  /\ person' = [person EXCEPT !.acts = @ + 1, !.strayed = @ \/ ToBeDrawn]
  /\ UNCHANGED server

SwitchTab(tab) ==
  /\ tab \in person.may.tabs \ {page.topTab}
  /\ LET p == [page EXCEPT !.topTab = tab] IN
     IF tab = "files" THEN Choose(Draw(p, NoRuns("files")), <<>>)
                      ELSE Choose(Draw(p, NoRuns("none")), <<Ask("load", tab, None, None)>>)
  /\ own' = Detached(own)

\* The tab stays as it is until the files of the inventory are there.
SelectInventory(inv) ==
  /\ inv \in person.may.invs \ {page.inventory}
  /\ LET p == [page EXCEPT !.inventory = inv] IN
     Choose(p, <<[Ask("select", "none", None, None) EXCEPT !.inv = inv]>>)
  /\ UNCHANGED own

\* The part of a button's handler before its POST.
Press(r) ==
  LET b == ButtonOf[r] IN
  /\ r \in person.may.own /\ own[r].at = "idle"
  /\ page.view.tab \in RunTabNames /\ b \in OnTab(page.view.tab) \ page.view.labelled
  /\ Handlers[b].scoped => InvOf[r] = page.inventory
  /\ page' = [page EXCEPT !.local[b] = <<>>, !.view.labelled = @ \cup {b}]
  /\ own' = [own EXCEPT ![r].at = "posted", ![r].attached = TRUE]
  /\ UNCHANGED <<server, asked, person>>

\* The button of r can be pressed again, where it is still on the screen.
Freed(r) ==
  IF own[r].attached THEN [page EXCEPT !.view.labelled = @ \ {ButtonOf[r]}] ELSE page

\* The last field is history: whether the button was still on the screen.
Conclude(r, verdict) ==
  [own EXCEPT ![r].at = "over", ![r].verdict = verdict, ![r].clear = own[r].attached]

Accepted(r) ==
  /\ own[r].at = "posted" /\ S!Accept(r)
  /\ own' = [own EXCEPT ![r].at = "reading"]
  /\ UNCHANGED <<printed, latest, page, asked, person>>

Refused(r) ==
  /\ own[r].at = "posted" /\ S!Refuse(r)
  /\ page' = Freed(r) /\ own' = Conclude(r, "refused")
  /\ UNCHANGED <<printed, latest, asked, person>>

Receive(r) ==
  /\ own[r].at = "reading" /\ own[r].got < printed[r]
  /\ own' = [own EXCEPT ![r].got = @ + 1]
  /\ page' = [page EXCEPT !.local[ButtonOf[r]] = Append(@, <<r, own[r].got + 1>>)]
  /\ UNCHANGED <<server, asked, person>>

\* Mutant of ParseExitCode: a stream that ends without an error is a success.
StreamEnded(log) == TRUE

\* The exit code that the log ends with is 0.
ParseExitCode(log) == log # <<>> /\ Last(log)[2] = 2 /\ Last(log)[1] \in Succeeds

\* The words are somewhere in it, whatever the exit code.
SaysPassed(log) == \E i \in DOMAIN log : log[i][2] = 1 /\ log[i][1] \in Says

Verdict(b) ==
  LET log == page.local[b]
      passed == IF Handlers[b].by = "words" THEN SaysPassed(log) ELSE ParseExitCode(log)
  IN IF passed THEN "success" ELSE "failure"

StreamIsOver(r) ==
  /\ own[r].at = "reading" /\ own[r].got = 2 /\ phase[r] = "over"
  /\ IF Handlers[ButtonOf[r]].rereads
     THEN /\ own' = [own EXCEPT ![r].at = "rereading"]
          /\ asked' = Append(asked, Ask("reread", TabOf(ButtonOf[r]), None, r))
          /\ UNCHANGED page
     ELSE /\ page' = Freed(r) /\ own' = Conclude(r, Verdict(ButtonOf[r]))
          /\ UNCHANGED asked
  /\ UNCHANGED <<server, person>>

\* The fetch or a read of it throws: no verdict, and the button is freed.
GiveUp(r) ==
  /\ page' = Freed(r) /\ own' = Conclude(r, "error")
  /\ UNCHANGED <<printed, latest, asked, person>>

\* The response is cut off where the run ended without an exit code.
StreamIsCut(r) ==
  /\ own[r].at = "reading" /\ phase[r] = "over" /\ printed[r] < 2
  /\ GiveUp(r) /\ UNCHANGED phase

\* The connection fails by itself; a POST may have been accepted all the same.
ConnectionLost(r) ==
  /\ "connection" \in person.may.fails /\ own[r].at \in {"posted", "reading"}
  /\ UNCHANGED phase \/ (own[r].at = "posted" /\ S!Accept(r))
  /\ GiveUp(r)

\* Mutant of Fire: a poll goes on whatever tab is open.
FireAnywhere(i) ==
  /\ asked[i].at = "timer"
  /\ asked' = [asked EXCEPT ![i] = Ask("poll", @.tab, @.snap, None)]
  /\ UNCHANGED <<server, page, own, person>>

\* A poll whose time has come, on another tab, is the last one.
Fire(i) ==
  /\ asked[i].at = "timer"
  /\ asked' = IF page.topTab = asked[i].tab
              THEN [asked EXCEPT ![i] = Ask("poll", @.tab, @.snap, None)]
              ELSE RemoveAt(asked, i)
  /\ UNCHANGED <<server, page, own, person>>

Serve(i) ==
  /\ asked[i].at = "sent"
  /\ asked' = [asked EXCEPT ![i].at = "answered", ![i].plan =
       IF asked[i].kind = "select" THEN None ELSE Plan(asked[i].tab, asked[i].inv)]
  /\ UNCHANGED <<server, page, own, person>>

Answered(i, kind) == asked[i].kind = kind /\ asked[i].at = "answered"

\* The answer to request i: what the page and the runs of this page become, and
\* what is asked next.
Heard(i, p, runs, next) ==
  /\ page' = p /\ own' = runs
  /\ asked' = RemoveAt(asked, i) \o next
  /\ UNCHANGED <<server, person>>

LoadTab(i) ==
  /\ Answered(i, "load")
  /\ Heard(i, RenderTab(page, asked[i].tab, asked[i].plan), Detached(own), PollsOf(asked[i].tab, asked[i].plan))

\* Mutant of PollTab: the next poll is set up whether or not the tab was drawn,
\* which sets one up as well.
PollTabTwice(i) ==
  LET q == asked[i]
      snap == Snapshot(q.tab, q.plan)
      again == IF snap.running # {} THEN <<Timer(q.tab, snap)>> ELSE <<>> IN
  /\ Answered(i, "poll")
  /\ IF snap # q.snap
     THEN Heard(i, RenderTab(page, q.tab, q.plan), Detached(own), PollsOf(q.tab, q.plan) \o again)
     ELSE Heard(i, page, own, again)

\* Mutant of PollTab: a poll that sees no change is the last.
PollTabOnce(i) ==
  LET q == asked[i] IN
  /\ Answered(i, "poll")
  /\ IF Snapshot(q.tab, q.plan) # q.snap
     THEN Heard(i, RenderTab(page, q.tab, q.plan), Detached(own), PollsOf(q.tab, q.plan))
     ELSE Heard(i, page, own, <<>>)

PollTab(i) ==
  LET q == asked[i]
      snap == Snapshot(q.tab, q.plan) IN
  /\ Answered(i, "poll")
  /\ IF snap # q.snap
     THEN Heard(i, RenderTab(page, q.tab, q.plan), Detached(own), PollsOf(q.tab, q.plan))
     ELSE Heard(i, page, own, IF snap.running # {} THEN <<Timer(q.tab, snap)>> ELSE <<>>)

\* The plan is read before the log is judged, and drawn whatever tab is open.
RereadTab(i) ==
  LET q == asked[i] IN
  /\ Answered(i, "reread")
  /\ Heard(i, RenderTab(page, q.tab, q.plan), Detached(Conclude(q.run, Verdict(ButtonOf[q.run]))),
           PollsOf(q.tab, q.plan))

\* Mutant of ShowSelection: the tab stays on the screen.
ShowNothing(i) == Answered(i, "select") /\ Heard(i, page, own, <<>>)

ShowSelection(i) ==
  /\ Answered(i, "select")
  /\ Heard(i, Draw(page, NoRuns("none")), Detached(own), <<>>)

\* A request that fails, on its way or at the server.
Misses(i, kind, p, runs) ==
  /\ asked[i].kind = kind /\ asked[i].at = "sent" /\ kind \in person.may.fails
  /\ page' = p /\ own' = runs
  /\ asked' = RemoveAt(asked, i)
  /\ UNCHANGED server

LoadFails(i) == Misses(i, "load", Draw(page, NoRuns("none")), Detached(own)) /\ UNCHANGED person

\* Nothing is shown of it, and no other poll follows.
PollFails(i) ==
  /\ Misses(i, "poll", page, own)
  /\ person' = [person EXCEPT !.unpolled = @ \cup {asked[i].tab}]

\* The run is over, and no verdict is given on it.
RereadFails(i) ==
  /\ Misses(i, "reread", Freed(asked[i].run), Conclude(asked[i].run, "error"))
  /\ UNCHANGED person

\* The inventory is the new one already; what is on the screen stays there.
SelectFails(i) == Misses(i, "select", [page EXCEPT !.view.outdated = TRUE], own) /\ UNCHANGED person

Request(i) == Fire(i) \/ Serve(i) \/ LoadTab(i) \/ PollTab(i) \/ RereadTab(i) \/ ShowSelection(i)

RequestFails(i) == LoadFails(i) \/ PollFails(i) \/ RereadFails(i) \/ SelectFails(i)

RunSteps(r) ==
  \/ Start(r) \/ Emit(r) \/ End(r) \/ Accepted(r) \/ Refused(r)
  \/ Receive(r) \/ StreamIsOver(r) \/ StreamIsCut(r)

Next ==
  \/ \E tab \in Tabs : SwitchTab(tab)
  \/ \E inv \in Invs : SelectInventory(inv)
  \/ \E r \in Runs : StartElsewhere(r) \/ Press(r) \/ RunSteps(r) \/ Break(r) \/ ConnectionLost(r)
  \/ \E i \in DOMAIN asked : Request(i) \/ RequestFails(i)

\* What is accepted runs, and is read to its end; the oldest request is answered
\* sooner or later, unless it fails.  Nobody has to press or choose anything, and
\* nothing has to fail.
Fairness ==
  /\ \A r \in Runs : WF_vars(RunSteps(r))
  /\ WF_vars(asked # <<>> /\ Request(1))

Spec == Init /\ [][Next]_vars /\ Fairness

-----------------------------------------------------------------------------
(* Properties *)

Pieces == Runs \X {1, 2}

TypeOK ==
  /\ phase \in [Runs -> S!Phases] /\ printed \in [Runs -> 0..2] /\ latest \in [Keys -> Runs \cup {None}]
  /\ page.topTab \in Tabs /\ page.inventory \in Invs
  /\ page.view.tab \in Tabs \cup {"none"} /\ page.view.inv \in Invs \cup {None}
  /\ page.view.labelled \subseteq (IF page.view.tab \in RunTabNames THEN OnTab(page.view.tab) ELSE {})
  /\ \A b \in Buttons : \A i \in DOMAIN page.local[b] : page.local[b][i] \in Pieces
  /\ own \in [Runs -> [at : {"idle", "posted", "reading", "rereading", "over"}, got : 0..2,
                       attached : BOOLEAN, verdict : Verdicts \cup {None}, clear : BOOLEAN]]
  /\ \A i \in DOMAIN asked : asked[i].at \in {"timer", "sent", "answered"}
  /\ person.unpolled \subseteq Tabs

\* What the verdict of its button goes by says that r succeeded.
Passes(r) == r \in (IF Handlers[ButtonOf[r]].by = "words" THEN Says ELSE Succeeds)

\* A run is said to have succeeded only if it did, unless another run of its
\* button, here or elsewhere, has touched the log they share.  It is said to
\* have failed only if it did not, if moreover its button was still on the screen
\* when that was said: what is drawn over it replaces the log by one that may be
\* behind.
VerdictOfALoneRun ==
  \A r \in Runs :
    (\A s \in Runs \ {r} : ButtonOf[s] = ButtonOf[r] => phase[s] = "new" /\ own[s].at = "idle") =>
      /\ own[r].verdict = "success" => Passes(r)
      /\ own[r].verdict = "failure" /\ own[r].clear => ~Passes(r)

\* What is drawn belongs to the open tab, as long as no tab or inventory was
\* chosen while the page had a tab to draw.
ViewMatchesTab == ~person.strayed => page.view.tab \in {page.topTab, "none"}

\* A run goes to the inventory whose plan is on the screen, under the same
\* condition, unless the files of the inventory selected last are still awaited
\* or were asked for in vain, and nothing was drawn since.
RunGoesWhereShown ==
  [][\A r \in Runs :
       /\ own[r].at = "idle" /\ own'[r].at = "posted" /\ Handlers[ButtonOf[r]].scoped
       /\ ~person.strayed /\ ~page.view.outdated /\ ~\E i \in DOMAIN asked : asked[i].kind = "select"
       => page.view.inv = InvOf[r]]_vars

\* However tabs are changed, there is at most one chain of polls for every time
\* that one was opened and for every run that drew its tab at its end.
PollsDoNotMultiply ==
  LET Of(kinds) == {i \in DOMAIN asked : asked[i].kind \in kinds}
      Drew == {r \in Runs : own[r].at \in {"rereading", "over"} /\ Handlers[ButtonOf[r]].rereads} IN
  Cardinality(Of({"load", "poll", "reread"})) <= person.acts + Cardinality(Drew)

\* A label "Running... (started elsewhere)" goes by itself once the run is over,
\* as long as no poll fails: a polled button of a tab that stays open is labelled
\* for ever only if a poll of that tab got no answer.
RunningLabelGoes ==
  \A b \in Buttons : \A tab \in RunTabNames :
    b \in Polled(tab) =>
      []<>(\/ ~(page.topTab = tab /\ page.view.tab = tab /\ b \in page.view.labelled)
          \/ tab \in person.unpolled)
=============================================================================
