---------------------------- MODULE RunTabsProofs ----------------------------
(***************************************************************************)
(* Theorems about the run tabs of the page, for any runs, inventories and  *)
(* ways to change between them, and any number of requests on their way.   *)
(*                                                                         *)
(* The state that matters is spread over the requests that are awaited:    *)
(* what is drawn when an answer comes was decided when the question was    *)
(* asked.  The invariants therefore speak of every request, and follow     *)
(* them through the list by what can be in it (SequenceFacts).             *)
(***************************************************************************)
EXTENDS RunTabs, SequenceFacts, FiniteSetTheorems

USE TabsAssumption

-----------------------------------------------------------------------------
(* The tabs.                                                               *)

\* No button is on two tabs, and every button is on one.
LEMMA ButtonsOfTabs ==
  /\ RunTabNames = {"offline", "molecule", "installation", "cilium"}
  /\ \A b \in DOMAIN Handlers : \E tab \in RunTabNames : b \in RunTab[tab].buttons
  /\ \A s, t \in RunTabNames : \A b : b \in RunTab[s].buttons /\ b \in RunTab[t].buttons => s = t
  /\ \A tab \in RunTabNames : RunTab[tab].polled \subseteq RunTab[tab].buttons
<1>1. RunTabNames = {"offline", "molecule", "installation", "cilium"}
  BY DEF RunTabNames, RunTab
<1>2. /\ RunTab["offline"].buttons = {"stage", "transfer"}
      /\ RunTab["molecule"].buttons = {"role"}
      /\ RunTab["installation"].buttons = {"check", "apt", "install", "verify"}
      /\ RunTab["cilium"].buttons = {"cilium", "uninstall", "test"}
  BY DEF RunTab, OfflineTab, MoleculeTab, InstallationTab, CiliumTab
<1>3. /\ RunTab["offline"].polled = {"stage"}
      /\ RunTab["molecule"].polled = {"role"}
      /\ RunTab["installation"].polled = {"check", "apt", "install", "verify"}
      /\ RunTab["cilium"].polled = {"cilium", "uninstall", "test"}
  BY DEF RunTab, OfflineTab, MoleculeTab, InstallationTab, CiliumTab
<1>4. DOMAIN Handlers =
        {"stage", "transfer", "role", "check", "verify", "apt", "install", "cilium", "uninstall", "test"}
  BY DEF Handlers
<1>5. \A b \in DOMAIN Handlers : \E tab \in RunTabNames : b \in RunTab[tab].buttons
  BY <1>1, <1>2, <1>4
<1>6. ASSUME NEW s \in RunTabNames, NEW t \in RunTabNames,
             NEW b, b \in RunTab[s].buttons, b \in RunTab[t].buttons
      PROVE  s = t
  BY <1>1, <1>2, <1>6
<1>7. \A tab \in RunTabNames : RunTab[tab].polled \subseteq RunTab[tab].buttons
  BY <1>1, <1>2, <1>3
<1>8. QED
  BY <1>1, <1>5, <1>6, <1>7

\* The tab of a button is the one it is drawn on.
LEMMA TabOfButton ==
  ASSUME NEW b \in DOMAIN Handlers
  PROVE  /\ TabOf(b) \in RunTabNames
         /\ \A tab \in RunTabNames : b \in OnTab(tab) => tab = TabOf(b)
<1>1. TabOf(b) \in RunTabNames /\ b \in RunTab[TabOf(b)].buttons
  BY ButtonsOfTabs DEF TabOf
<1>2. QED
  BY <1>1, ButtonsOfTabs DEF OnTab

-----------------------------------------------------------------------------
(* Type correctness.                                                       *)

Log == Seq(Pieces)

PlansOf(tab) == [inv : Invs, running : SUBSET OnTab(tab), logs : [OnTab(tab) -> Log]]
Plans == UNION {PlansOf(tab) : tab \in RunTabNames}
Snapshots == {Snapshot(tab, plan) : tab \in RunTabNames, plan \in Plans}

\* A request asks for the plan of a tab, or for the files of an inventory; a
\* timer is one of a poll; an answer is the plan of the tab it was asked for
\* and of the inventory it was asked for.
IsRequest(q) ==
  /\ q.kind # "select" => q.tab \in RunTabNames
  /\ q.at = "timer" => q.kind = "poll"
  /\ q.at # "timer" => q.inv \in Invs
  /\ q.at = "answered" /\ q.kind # "select" => q.plan \in PlansOf(q.tab) /\ q.plan.inv = q.inv
  /\ q.kind = "reread" => q.run \in Runs

Asked ==
  { q \in [kind : {"load", "select", "poll", "reread"}, tab : Tabs \cup {"none"},
           snap : Snapshots \cup {None}, run : Runs \cup {None},
           at : {"timer", "sent", "answered"}, inv : Invs \cup {None}, plan : Plans \cup {None}] :
    IsRequest(q) }

Views == [tab : Tabs \cup {"none"}, inv : Invs \cup {None}, labelled : SUBSET Buttons, outdated : BOOLEAN]
Pages == [topTab : Tabs, inventory : Invs, view : Views, local : [Buttons -> Log]]
OwnRuns ==
  [at : {"idle", "posted", "reading", "rereading", "over"}, got : 0..2,
   attached : BOOLEAN, verdict : Verdicts \cup {None}, clear : BOOLEAN]
Persons == [may : Scenarios, acts : Nat, strayed : BOOLEAN, unpolled : SUBSET Tabs]

Shown(tab) == IF tab \in RunTabNames THEN OnTab(tab) ELSE {}

ServerOK ==
  /\ phase \in [Runs -> S!Phases] /\ printed \in [Runs -> 0..2] /\ latest \in [Keys -> Runs \cup {None}]

PageOK == page \in Pages /\ page.view.labelled \subseteq Shown(page.view.tab)

Types == ServerOK /\ PageOK /\ own \in [Runs -> OwnRuns] /\ asked \in Seq(Asked) /\ person \in Persons

LEMMA TypesImplyTypeOK == Types => TypeOK
<1> SUFFICES ASSUME Types PROVE TypeOK
  OBVIOUS
<1>1. /\ page.topTab \in Tabs /\ page.inventory \in Invs
      /\ page.view.tab \in Tabs \cup {"none"} /\ page.view.inv \in Invs \cup {None}
      /\ page.view.labelled \subseteq (IF page.view.tab \in RunTabNames THEN OnTab(page.view.tab) ELSE {})
  BY DEF Types, PageOK, Pages, Views, Shown
<1>2. \A b \in Buttons : \A i \in DOMAIN page.local[b] : page.local[b][i] \in Pieces
  BY DEF Types, PageOK, Pages, Log
<1>3. \A i \in DOMAIN asked : asked[i].at \in {"timer", "sent", "answered"}
  BY DEF Types, Asked
<1>4. person.unpolled \subseteq Tabs
  BY DEF Types, Persons
<1>5. QED
  BY <1>1, <1>2, <1>3, <1>4 DEF Types, ServerOK, OwnRuns, TypeOK

\* What the server answers is a plan of the tab.
LEMMA PlanIsPlan ==
  ASSUME ServerOK, NEW tab \in RunTabNames, NEW inv \in Invs
  PROVE  Plan(tab, inv) \in PlansOf(tab) /\ Plan(tab, inv).inv = inv
<1>1. ASSUME NEW r \in Runs PROVE Output(r) \in Log
  <2>1. printed[r] \in Nat /\ printed[r] <= 2
    BY DEF ServerOK
  <2>2. \A n \in 1..printed[r] : <<r, n>> \in Pieces
    BY <2>1 DEF Pieces
  <2>3. QED
    BY <2>1, <2>2 DEF Output, Log
<1>2. ASSUME NEW b PROVE LogOf(b, inv) \in Log
  BY <1>1 DEF LogOf, Log, ServerOK
<1>3. QED
  BY <1>2 DEF Plan, PlansOf

\* Drawing a tab from its plan leaves the page a page of that tab.
LEMMA RenderTabOK ==
  ASSUME page \in Pages, NEW tab \in RunTabNames, NEW plan \in PlansOf(tab)
  PROVE  LET p == RenderTab(page, tab, plan) IN
         /\ p \in Pages /\ p.view = View(tab, plan.inv, plan.running)
         /\ p.view.labelled \subseteq Shown(p.view.tab)
         /\ p.topTab = page.topTab /\ p.inventory = page.inventory
<1> DEFINE local == [b \in Buttons |-> IF b \in OnTab(tab) /\ plan.logs[b] # <<>> THEN plan.logs[b]
                                                                             ELSE page.local[b]]
           v == View(tab, plan.inv, plan.running)
<1>1. plan.inv \in Invs /\ plan.running \subseteq OnTab(tab) /\ plan.logs \in [OnTab(tab) -> Log]
  BY DEF PlansOf
<1>2. v \in Views /\ v.tab = tab /\ v.labelled = plan.running
  BY <1>1 DEF View, Views, Tabs, OnTab
<1>3. local \in [Buttons -> Log]
  BY <1>1 DEF Pages
<1>4. RenderTab(page, tab, plan) = [topTab |-> page.topTab, inventory |-> page.inventory,
                                    view |-> v, local |-> local]
  <2>1. page = [topTab |-> page.topTab, inventory |-> page.inventory,
                view |-> page.view, local |-> page.local]
    BY DEF Pages
  <2>2. Draw(page, v) = [topTab |-> page.topTab, inventory |-> page.inventory,
                         view |-> v, local |-> page.local]
    BY <2>1 DEF Draw
  <2>3. Draw(page, v).local = page.local
    BY <2>2
  <2>4. RenderTab(page, tab, plan) = [Draw(page, v) EXCEPT !.local = local]
    BY <2>3 DEF RenderTab
  <2>5. QED
    BY <2>2, <2>4
<1> HIDE DEF local, v
<1>5. QED
  BY <1>1, <1>2, <1>3, <1>4 DEF Pages, Shown, v

\* The polls of a tab are timers of that tab.
LEMMA PollsOK ==
  ASSUME NEW tab \in RunTabNames, NEW plan \in PlansOf(tab)
  PROVE  /\ Timer(tab, Snapshot(tab, plan)) \in Asked
         /\ <<>> \in Seq(Asked) /\ ToSet(<<>>) = {}
         /\ <<Timer(tab, Snapshot(tab, plan))>> \in Seq(Asked)
         /\ PollsOf(tab, plan) \in Seq(Asked)
         /\ \A q \in ToSet(<<Timer(tab, Snapshot(tab, plan))>>) : q.at = "timer"
         /\ \A q \in ToSet(PollsOf(tab, plan)) : q.at = "timer"
<1> DEFINE timer == Timer(tab, Snapshot(tab, plan))
<1>1. Snapshot(tab, plan) \in Snapshots
  BY DEF Snapshots, Plans
<1>2. timer \in Asked /\ timer.at = "timer"
  BY <1>1 DEF Timer, Asked, IsRequest, Tabs
<1> HIDE DEF timer
<1>3. <<timer>> \in Seq(Asked) /\ ToSet(<<timer>>) = {timer} /\ <<>> \in Seq(Asked) /\ ToSet(<<>>) = {}
  BY <1>2 DEF ToSet
<1>4. PollsOf(tab, plan) = <<timer>> \/ PollsOf(tab, plan) = <<>>
  BY DEF PollsOf, timer
<1>5. QED
  BY <1>2, <1>3, <1>4 DEF timer

\* What a drawing and a verdict make of the runs of this page.
LEMMA DetachedOK ==
  ASSUME NEW runs \in [Runs -> OwnRuns]
  PROVE  /\ Detached(runs) \in [Runs -> OwnRuns]
         /\ \A s \in Runs : Detached(runs)[s].at = runs[s].at
<1> DEFINE freed(o) == [o EXCEPT !.attached = FALSE]
<1>1. \A o \in OwnRuns : freed(o) \in OwnRuns /\ freed(o).at = o.at
  BY Zenon DEF OwnRuns
<1>2. \A r \in Runs : Detached(runs)[r] = freed(runs[r]) /\ runs[r] \in OwnRuns
  BY DEF Detached
<1> HIDE DEF freed
<1>3. \A r \in Runs : Detached(runs)[r] \in OwnRuns /\ Detached(runs)[r].at = runs[r].at
  BY <1>1, <1>2
<1> USE DEF freed
<1>4. Detached(runs) = [r \in Runs |-> Detached(runs)[r]]
  BY DEF Detached
<1>5. QED
  BY <1>3, <1>4

\* What a step of one run makes of it.
LEMMA OwnFields ==
  ASSUME own \in [Runs -> OwnRuns], NEW r \in Runs
  PROVE  /\ \A at \in {"idle", "posted", "reading", "rereading", "over"} :
              [own EXCEPT ![r].at = at] \in [Runs -> OwnRuns]
         /\ \A n \in 0..2 : [own EXCEPT ![r].got = n] \in [Runs -> OwnRuns]
<1>1. \A o \in OwnRuns, at \in {"idle", "posted", "reading", "rereading", "over"} :
        [o EXCEPT !.at = at] \in OwnRuns
  BY Zenon DEF OwnRuns
<1>2. \A o \in OwnRuns, n \in 0..2 : [o EXCEPT !.got = n] \in OwnRuns
  BY Zenon DEF OwnRuns
<1>3. /\ \A at : [own EXCEPT ![r].at = at] = [own EXCEPT ![r] = [own[r] EXCEPT !.at = at]]
      /\ \A n : [own EXCEPT ![r].got = n] = [own EXCEPT ![r] = [own[r] EXCEPT !.got = n]]
  OBVIOUS
<1>4. \A o \in OwnRuns : [own EXCEPT ![r] = o] \in [Runs -> OwnRuns]
  OBVIOUS
<1>5. own[r] \in OwnRuns
  OBVIOUS
<1>6. QED
  BY <1>1, <1>2, <1>3, <1>4, <1>5

LEMMA ConcludeOK ==
  ASSUME own \in [Runs -> OwnRuns], NEW r \in Runs, NEW v \in Verdicts
  PROVE  /\ Conclude(r, v) \in [Runs -> OwnRuns]
         /\ \A s \in Runs : Conclude(r, v)[s].at = IF s = r THEN "over" ELSE own[s].at
<1> DEFINE o == [own[r] EXCEPT !.at = "over", !.verdict = v, !.clear = own[r].attached]
<1>1. own[r] \in OwnRuns /\ own[r].attached \in BOOLEAN /\ v \in Verdicts \cup {None}
  BY DEF OwnRuns
<1>2. o \in OwnRuns /\ o.at = "over"
  <2> DEFINE concluded(e, w, c) == [e EXCEPT !.at = "over", !.verdict = w, !.clear = c]
  <2>1. \A e \in OwnRuns, w \in Verdicts \cup {None}, c \in BOOLEAN :
          concluded(e, w, c) \in OwnRuns /\ concluded(e, w, c).at = "over"
    BY Zenon DEF OwnRuns
  <2>2. o = concluded(own[r], v, own[r].attached)
    OBVIOUS
  <2> HIDE DEF o, concluded
  <2>3. QED
    BY <1>1, <2>1, <2>2
<1>3. Conclude(r, v) = [own EXCEPT ![r] = o]
  BY DEF Conclude
<1> HIDE DEF o
<1>4. QED
  BY <1>2, <1>3

LEMMA VerdictOK == \A b : Verdict(b) \in {"success", "failure"}
BY DEF Verdict

\* A run that is judged, and what its tab is drawn from then.
LEMMA JudgedOK ==
  ASSUME own \in [Runs -> OwnRuns], NEW r \in Runs, NEW b
  PROVE  /\ Conclude(r, Verdict(b)) \in [Runs -> OwnRuns]
         /\ Detached(Conclude(r, Verdict(b))) \in [Runs -> OwnRuns]
         /\ \A s \in Runs :
              /\ Conclude(r, Verdict(b))[s].at = IF s = r THEN "over" ELSE own[s].at
              /\ Detached(Conclude(r, Verdict(b)))[s].at = IF s = r THEN "over" ELSE own[s].at
<1>1. Verdict(b) \in Verdicts
  BY VerdictOK DEF Verdicts
<1>2. /\ Conclude(r, Verdict(b)) \in [Runs -> OwnRuns]
      /\ \A s \in Runs : Conclude(r, Verdict(b))[s].at = IF s = r THEN "over" ELSE own[s].at
  BY <1>1, ConcludeOK
<1>3. QED
  BY <1>2, DetachedOK

LEMMA FreedOK ==
  ASSUME PageOK, NEW r \in Runs
  PROVE  /\ Freed(r) \in Pages /\ Freed(r).topTab = page.topTab /\ Freed(r).inventory = page.inventory
         /\ Freed(r).view.tab = page.view.tab /\ Freed(r).view.inv = page.view.inv
         /\ Freed(r).view.outdated = page.view.outdated
         /\ Freed(r).view.labelled \subseteq page.view.labelled
         /\ Freed(r).local = page.local
<1> DEFINE view == [page.view EXCEPT !.labelled = page.view.labelled \ {ButtonOf[r]}]
<1>1. page.view \in Views /\ page.view.labelled \subseteq Buttons
  BY DEF PageOK, Pages, Views
<1>2. \A v \in Views, l \in SUBSET Buttons :
        /\ [v EXCEPT !.labelled = l] \in Views /\ [v EXCEPT !.labelled = l].labelled = l
        /\ [v EXCEPT !.labelled = l].tab = v.tab /\ [v EXCEPT !.labelled = l].inv = v.inv
        /\ [v EXCEPT !.labelled = l].outdated = v.outdated
  BY Zenon DEF Views
<1>3. /\ view \in Views /\ view.labelled = page.view.labelled \ {ButtonOf[r]}
      /\ view.tab = page.view.tab /\ view.inv = page.view.inv /\ view.outdated = page.view.outdated
  <2>1. page.view.labelled \ {ButtonOf[r]} \in SUBSET Buttons
    BY <1>1
  <2>2. QED
    BY Zenon, <1>1, <1>2, <2>1
<1> DEFINE showing(v) == [page EXCEPT !.view = v]
<1>4. Freed(r) = page \/ Freed(r) = showing(view)
  BY DEF Freed, PageOK, Pages
<1> HIDE DEF view
<1>5. page \in Pages
  BY DEF PageOK
<1>6. \A v \in Views :
        /\ showing(v) \in Pages /\ showing(v).topTab = page.topTab
        /\ showing(v).inventory = page.inventory /\ showing(v).view = v
        /\ showing(v).local = page.local
  BY Zenon, <1>5 DEF Pages
<1>7. CASE Freed(r) = page
  BY <1>5, <1>7
<1> HIDE DEF showing
<1>8. CASE Freed(r) = showing(view)
  <2>1. /\ Freed(r) \in Pages /\ Freed(r).topTab = page.topTab /\ Freed(r).inventory = page.inventory
        /\ Freed(r).view = view /\ Freed(r).local = page.local
    BY <1>3, <1>6, <1>8
  <2>2. view.labelled \subseteq page.view.labelled
    BY <1>3
  <2>3. QED
    BY Zenon, <1>3, <2>1, <2>2
<1>9. QED
  BY <1>4, <1>7, <1>8

\* A question to the server.
LEMMA AskOK ==
  ASSUME page \in Pages, NEW kind \in {"load", "poll", "reread"}, NEW tab \in RunTabNames,
         NEW snap \in Snapshots \cup {None}, NEW run \in Runs \cup {None},
         kind = "reread" => run \in Runs
  PROVE  /\ Ask(kind, tab, snap, run) \in Asked
         /\ Ask(kind, tab, snap, run).kind = kind /\ Ask(kind, tab, snap, run).tab = tab
         /\ Ask(kind, tab, snap, run).at = "sent" /\ Ask(kind, tab, snap, run).inv = page.inventory
BY DEF Ask, Asked, IsRequest, Pages, Tabs

LEMMA AskSelectOK ==
  ASSUME page \in Pages, NEW inv \in Invs
  PROVE  /\ [Ask("select", "none", None, None) EXCEPT !.inv = inv] \in Asked
         /\ [Ask("select", "none", None, None) EXCEPT !.inv = inv].kind = "select"
BY DEF Ask, Asked, IsRequest, Pages

\* The answer to a request that was sent.
AnswerTo(q) ==
  [q EXCEPT !.at = "answered", !.plan = IF q.kind = "select" THEN None ELSE Plan(q.tab, q.inv)]

LEMMA AnswerOK ==
  ASSUME ServerOK, NEW q \in Asked, q.at = "sent"
  PROVE  /\ AnswerTo(q) \in Asked
         /\ AnswerTo(q).kind = q.kind /\ AnswerTo(q).tab = q.tab /\ AnswerTo(q).inv = q.inv
         /\ AnswerTo(q).at = "answered"
<1> DEFINE plan == IF q.kind = "select" THEN None ELSE Plan(q.tab, q.inv)
<1>1. AnswerTo(q) = [q EXCEPT !.at = "answered", !.plan = plan]
  BY DEF AnswerTo
<1>2. IsRequest(q) /\ q.inv \in Invs
  BY DEF Asked, IsRequest
<1>3. q.kind # "select" => q.tab \in RunTabNames /\ plan \in PlansOf(q.tab) /\ plan.inv = q.inv
  BY <1>2, PlanIsPlan DEF IsRequest
<1>4. plan \in Plans \cup {None}
  BY <1>3 DEF Plans
<1> HIDE DEF plan
<1>5. QED
  BY <1>1, <1>2, <1>3, <1>4 DEF Asked, IsRequest

LEMMA ServeAnswers ==
  ASSUME asked \in Seq(Asked), NEW i \in DOMAIN asked, Serve(i)
  PROVE  asked' = [asked EXCEPT ![i] = AnswerTo(asked[i])]
BY DEF Serve, AnswerTo

\* An element of the list is a request.
LEMMA RequestsAreAsked ==
  ASSUME asked \in Seq(Asked)
  PROVE  /\ \A i \in DOMAIN asked : asked[i] \in Asked /\ asked[i] \in ToSet(asked)
         /\ \A q \in ToSet(asked) : q \in Asked /\ \E i \in DOMAIN asked : q = asked[i]
<1>1. DOMAIN asked = 1..Len(asked) /\ \A i \in 1..Len(asked) : asked[i] \in Asked
  BY LenProperties, ElementOfSeq
<1>2. QED
  BY <1>1 DEF ToSet

\* The steps of a run that this page does not see.
OnServer(r) == Start(r) \/ Emit(r) \/ End(r) \/ Break(r) \/ StartElsewhere(r)

\* A run given up because its connection fails.
GivenUp(r) == StreamIsCut(r) \/ ConnectionLost(r)

\* The steps of the system.
LEMMA StepsOfNext ==
  ASSUME Next
  PROVE  \/ \E tab \in Tabs : SwitchTab(tab)
         \/ \E inv \in Invs : SelectInventory(inv)
         \/ \E r \in Runs : OnServer(r) \/ Press(r) \/ Accepted(r) \/ Refused(r) \/ Receive(r)
                            \/ StreamIsOver(r) \/ GivenUp(r)
         \/ \E i \in DOMAIN asked : \/ Fire(i) \/ Serve(i) \/ LoadTab(i) \/ PollTab(i) \/ RereadTab(i)
                                   \/ ShowSelection(i) \/ RequestFails(i)
BY Zenon DEF Next, RunSteps, Request, OnServer, GivenUp

LEMMA GivenUpOK ==
  ASSUME Types, NEW r \in Runs, GivenUp(r)
  PROVE  /\ own[r].at \in {"posted", "reading"}
         /\ page' = Freed(r) /\ own' = Conclude(r, "error")
         /\ own' \in [Runs -> OwnRuns]
         /\ \A s \in Runs : own'[s].at = IF s = r THEN "over" ELSE own[s].at
         /\ phase' \in [Runs -> S!Phases] /\ UNCHANGED <<printed, latest, asked, person>>
<1>1. /\ own[r].at \in {"posted", "reading"}
      /\ page' = Freed(r) /\ own' = Conclude(r, "error") /\ UNCHANGED <<printed, latest, asked, person>>
  BY DEF GivenUp, StreamIsCut, ConnectionLost, GiveUp
<1>2. phase' \in [Runs -> S!Phases]
  BY DEF Types, ServerOK, GivenUp, StreamIsCut, ConnectionLost, S!Accept, S!Become, S!Phases
<1>3. /\ Conclude(r, "error") \in [Runs -> OwnRuns]
      /\ \A s \in Runs : Conclude(r, "error")[s].at = IF s = r THEN "over" ELSE own[s].at
  <2>1. "error" \in Verdicts
    BY DEF Verdicts
  <2>2. QED
    BY <2>1, ConcludeOK DEF Types
<1>4. QED
  BY <1>1, <1>2, <1>3

\* A request that fails is gone; only what it was for is touched.
LEMMA RequestFailsOK ==
  ASSUME Types, NEW i \in DOMAIN asked, RequestFails(i)
  PROVE  /\ asked[i].at = "sent" /\ asked' = RemoveAt(asked, i) /\ UNCHANGED server
         /\ page'.topTab = page.topTab /\ page'.inventory = page.inventory /\ page'.local = page.local
         /\ \/ page'.view = NoRuns("none")
            \/ /\ page'.view.tab = page.view.tab /\ page'.view.inv = page.view.inv
               /\ page'.view.outdated \/ (asked[i].kind # "select" /\ page'.view.outdated = page.view.outdated)
         /\ person' \in Persons /\ person'.acts = person.acts /\ person'.strayed = person.strayed
         /\ own' \in [Runs -> OwnRuns]
         /\ \A s \in Runs : own'[s].at = IF asked[i].kind = "reread" /\ s = asked[i].run THEN "over" ELSE own[s].at
         /\ \/ own' = own \/ own' = Detached(own)
            \/ \E s \in Runs : own' = Conclude(s, "error")
         /\ PageOK'
<1>0. /\ ServerOK /\ PageOK /\ page \in Pages /\ own \in [Runs -> OwnRuns]
      /\ asked \in Seq(Asked) /\ person \in Persons
  BY DEF Types, PageOK
<1>1. asked[i] \in Asked
  BY <1>0, RequestsAreAsked
<1>2. asked[i].at = "sent" /\ asked' = RemoveAt(asked, i) /\ UNCHANGED server
  BY DEF RequestFails, LoadFails, PollFails, RereadFails, SelectFails, Misses
<1>3. CASE LoadFails(i)
  <2> DEFINE view == NoRuns("none")
  <2>1. /\ asked[i].kind = "load" /\ page' = Draw(page, view) /\ own' = Detached(own) /\ person' = person
    BY <1>3 DEF LoadFails, Misses
  <2>2. view \in Views /\ view.labelled = {}
    BY DEF NoRuns, View, Views
  <2> HIDE DEF view
  <2>3. /\ Draw(page, view) \in Pages /\ Draw(page, view).view = view
        /\ Draw(page, view).topTab = page.topTab /\ Draw(page, view).inventory = page.inventory
        /\ Draw(page, view).local = page.local
    BY <1>0, <2>2 DEF Draw, Pages
  <2>4. PageOK'
    BY <2>1, <2>2, <2>3 DEF PageOK
  <2>5. own' \in [Runs -> OwnRuns] /\ \A s \in Runs : own'[s].at = own[s].at
    BY <1>0, <2>1, DetachedOK
  <2>6. QED
    BY <1>0, <1>2, <2>1, <2>3, <2>4, <2>5 DEF view
<1>4. CASE PollFails(i)
  <2>1. /\ asked[i].kind = "poll" /\ page' = page /\ own' = own
        /\ person' = [person EXCEPT !.unpolled = person.unpolled \cup {asked[i].tab}]
    BY <1>0, <1>4 DEF PollFails, Misses, Persons
  <2>2. person.unpolled \cup {asked[i].tab} \in SUBSET Tabs
    BY <1>0, <1>1, <2>1 DEF Persons, Asked, IsRequest, Tabs
  <2>3. \A t \in SUBSET Tabs : LET e == [person EXCEPT !.unpolled = t] IN
          e \in Persons /\ e.acts = person.acts /\ e.strayed = person.strayed
    BY Zenon, <1>0 DEF Persons
  <2>4. person' \in Persons /\ person'.acts = person.acts /\ person'.strayed = person.strayed
    BY Zenon, <2>1, <2>2, <2>3
  <2>5. PageOK'
    BY <1>0, <2>1 DEF PageOK
  <2>6. QED
    BY <1>0, <1>2, <2>1, <2>4, <2>5
<1>5. CASE RereadFails(i)
  <2>1. /\ asked[i].kind = "reread" /\ page' = Freed(asked[i].run) /\ own' = Conclude(asked[i].run, "error")
        /\ person' = person
    BY <1>5 DEF RereadFails, Misses
  <2>2. asked[i].run \in Runs /\ "error" \in Verdicts
    BY <1>1, <2>1 DEF Asked, IsRequest, Verdicts
  <2>3. /\ own' \in [Runs -> OwnRuns]
        /\ \A s \in Runs : own'[s].at = IF s = asked[i].run THEN "over" ELSE own[s].at
    BY <1>0, <2>1, <2>2, ConcludeOK
  <2>4. /\ Freed(asked[i].run) \in Pages
        /\ Freed(asked[i].run).topTab = page.topTab /\ Freed(asked[i].run).inventory = page.inventory
        /\ Freed(asked[i].run).view.tab = page.view.tab /\ Freed(asked[i].run).view.inv = page.view.inv
        /\ Freed(asked[i].run).view.outdated = page.view.outdated
        /\ Freed(asked[i].run).view.labelled \subseteq page.view.labelled
        /\ Freed(asked[i].run).local = page.local
    BY <1>0, <2>2, FreedOK
  <2>5. PageOK'
    BY <1>0, <2>1, <2>4 DEF PageOK
  <2>6. \E s \in Runs : own' = Conclude(s, "error")
    BY <2>1, <2>2
  <2>7. QED
    BY <1>0, <1>2, <2>1, <2>3, <2>4, <2>5, <2>6
<1>6. CASE SelectFails(i)
  <2> DEFINE view == [page.view EXCEPT !.outdated = TRUE]
  <2>1. /\ asked[i].kind = "select" /\ page' = [page EXCEPT !.view = view] /\ own' = own /\ person' = person
    BY <1>0, <1>6 DEF SelectFails, Misses, Pages
  <2>2. page.view \in Views
    BY <1>0 DEF Pages
  <2>3. /\ view \in Views /\ view.labelled = page.view.labelled /\ view.tab = page.view.tab
        /\ view.inv = page.view.inv /\ view.outdated = TRUE
    BY Zenon, <2>2 DEF Views
  <2> HIDE DEF view
  <2>4. /\ page' \in Pages /\ page'.view = view /\ page'.topTab = page.topTab
        /\ page'.inventory = page.inventory /\ page'.local = page.local
    BY <1>0, <2>1, <2>3 DEF Pages
  <2>5. PageOK'
    BY <1>0, <2>3, <2>4 DEF PageOK
  <2>6. QED
    BY <1>0, <1>2, <2>1, <2>3, <2>4, <2>5
<1>7. QED
  BY <1>3, <1>4, <1>5, <1>6 DEF RequestFails

LEMMA TypesStep == Types /\ [Next]_vars => Types'
<1> SUFFICES ASSUME Types, [Next]_vars PROVE Types'
  OBVIOUS
<1>0. /\ ServerOK /\ PageOK /\ page \in Pages /\ own \in [Runs -> OwnRuns]
      /\ asked \in Seq(Asked) /\ person \in Persons
  BY DEF Types, PageOK
<1>1. CASE UNCHANGED vars
  BY <1>0, <1>1 DEF vars, server, Types, ServerOK, PageOK
<1>2. ASSUME NEW p \in Pages, p.view.labelled \subseteq Shown(p.view.tab), page' = p,
             NEW requests \in Seq(Asked), asked' = asked \o requests,
             person' = [person EXCEPT !.acts = @ + 1, !.strayed = @ \/ ToBeDrawn],
             own' = own \/ own' = Detached(own), UNCHANGED server
      PROVE  Types'
  <2>1. asked' \in Seq(Asked)
    BY <1>0, <1>2, ConcatElements
  <2>2. person' \in Persons
    <3> DEFINE strayed == person.strayed \/ ToBeDrawn
    <3>1. strayed \in BOOLEAN /\ person.may \in Scenarios /\ person.acts + 1 \in Nat
          /\ person.unpolled \in SUBSET Tabs
      BY <1>0 DEF Persons
    <3>2. person' = [may |-> person.may, acts |-> person.acts + 1, strayed |-> strayed,
                     unpolled |-> person.unpolled]
      BY <1>0, <1>2 DEF Persons
    <3> HIDE DEF strayed
    <3>3. QED
      BY <3>1, <3>2 DEF Persons
  <2>3. own' \in [Runs -> OwnRuns]
    <3>1. Detached(own) \in [Runs -> OwnRuns]
      BY <1>0, DetachedOK
    <3>2. QED
      BY <1>0, <1>2, <3>1
  <2>4. QED
    BY <1>0, <1>2, <2>1, <2>2, <2>3 DEF Types, ServerOK, PageOK, server
<1>3. ASSUME NEW tab \in Tabs, SwitchTab(tab) PROVE Types'
  <2> DEFINE p == [page EXCEPT !.topTab = tab]
             view == IF tab = "files" THEN NoRuns("files") ELSE NoRuns("none")
             requests == IF tab = "files" THEN <<>> ELSE <<Ask("load", tab, None, None)>>
  <2>1. p \in Pages /\ p.inventory = page.inventory
    BY <1>0 DEF Pages
  <2>2. view \in Views /\ view.labelled = {}
    BY DEF NoRuns, View, Views, Tabs
  <2>3. Draw(p, view) \in Pages /\ Draw(p, view).view = view
    BY <2>1, <2>2 DEF Draw, Pages
  <2>4. requests \in Seq(Asked)
    <3>1. tab # "files" => tab \in RunTabNames
      BY DEF Tabs
    <3>2. tab # "files" => Ask("load", tab, None, None) \in Asked
      BY <1>0, <3>1, AskOK
    <3>3. QED
      BY <3>2
  <2>5. /\ page' = Draw(p, view) /\ asked' = asked \o requests /\ own' = Detached(own)
        /\ person' = [person EXCEPT !.acts = @ + 1, !.strayed = @ \/ ToBeDrawn] /\ UNCHANGED server
    BY <1>3 DEF SwitchTab, Choose
  <2> HIDE DEF p, view, requests
  <2>6. QED
    BY <2>2, <2>3, <2>4, <2>5, <1>2
<1>4. ASSUME NEW inv \in Invs, SelectInventory(inv) PROVE Types'
  <2> DEFINE p == [page EXCEPT !.inventory = inv]
             requests == <<[Ask("select", "none", None, None) EXCEPT !.inv = inv]>>
  <2>1. p \in Pages /\ p.view = page.view
    BY <1>0 DEF Pages
  <2>2. requests \in Seq(Asked)
    BY <1>0, AskSelectOK
  <2>3. /\ page' = p /\ asked' = asked \o requests /\ own' = own
        /\ person' = [person EXCEPT !.acts = @ + 1, !.strayed = @ \/ ToBeDrawn] /\ UNCHANGED server
    BY <1>4 DEF SelectInventory, Choose
  <2> HIDE DEF p, requests
  <2>4. p.view.labelled \subseteq Shown(p.view.tab)
    BY <1>0, <2>1 DEF PageOK
  <2>5. QED
    BY <2>1, <2>2, <2>3, <2>4, <1>2
<1>5. ASSUME NEW r \in Runs, OnServer(r) PROVE Types'
  <2>1. phase' \in [Runs -> S!Phases]
    BY <1>0, <1>5 DEF ServerOK, OnServer, Start, Emit, End, Break, StartElsewhere, S!Start, S!End, S!Accept,
       S!Become, S!Phases
  <2>2. printed' \in [Runs -> 0..2]
    BY <1>0, <1>5 DEF ServerOK, OnServer, Start, Emit, End, Break, StartElsewhere
  <2>3. latest' \in [Keys -> Runs \cup {None}]
    BY <1>0, <1>5 DEF ServerOK, OnServer, Start, Emit, End, Break, StartElsewhere
  <2>4. UNCHANGED <<page, own, asked, person>>
    BY <1>5 DEF OnServer, Start, Emit, End, Break, StartElsewhere
  <2>5. QED
    BY <1>0, <2>1, <2>2, <2>3, <2>4 DEF Types, ServerOK, PageOK
<1>6. ASSUME NEW r \in Runs, Press(r) PROVE Types'
  <2> DEFINE b == ButtonOf[r]
  <2>1. b \in Buttons /\ page.view.tab \in RunTabNames /\ b \in OnTab(page.view.tab)
    BY <1>6 DEF Press, Buttons
  <2>2. page' = [page EXCEPT !.local[b] = <<>>, !.view.labelled = @ \cup {b}]
    BY <1>6 DEF Press
  <2>3. page' \in Pages /\ page'.view.labelled = page.view.labelled \cup {b}
        /\ page'.view.tab = page.view.tab
    <3> DEFINE local == [page.local EXCEPT ![b] = <<>>]
               view == [page.view EXCEPT !.labelled = page.view.labelled \cup {b}]
    <3>1. page' = [page EXCEPT !.local = local, !.view = view]
      BY <1>0, <2>2 DEF Pages
    <3>2. local \in [Buttons -> Log]
      <4>1. <<>> \in Log
        BY DEF Log
      <4>2. QED
        BY <1>0, <4>1 DEF Pages
    <3>3. view \in Views /\ view.labelled = page.view.labelled \cup {b} /\ view.tab = page.view.tab
      BY <1>0, <2>1 DEF Pages, Views
    <3> HIDE DEF local, view
    <3>4. QED
      BY <1>0, <3>1, <3>2, <3>3 DEF Pages
  <2>4. own' \in [Runs -> OwnRuns]
    <3>1. [own[r] EXCEPT !.at = "posted", !.attached = TRUE] \in OwnRuns
      <4>1. \A o \in OwnRuns : [o EXCEPT !.at = "posted", !.attached = TRUE] \in OwnRuns
        BY Zenon DEF OwnRuns
      <4>2. QED
        BY <1>0, <4>1
    <3>2. own' = [own EXCEPT ![r] = [own[r] EXCEPT !.at = "posted", !.attached = TRUE]]
      BY <1>0, <1>6 DEF Press
    <3>3. QED
      BY <1>0, <3>1, <3>2
  <2>5. UNCHANGED <<server, asked, person>>
    BY <1>6 DEF Press
  <2>6. page'.view.labelled \subseteq Shown(page'.view.tab)
    BY <1>0, <2>1, <2>3 DEF PageOK, Shown
  <2>7. QED
    BY <1>0, <2>3, <2>4, <2>5, <2>6 DEF Types, ServerOK, PageOK, server
<1>7. ASSUME NEW r \in Runs, Accepted(r) \/ Refused(r) PROVE Types'
  <2>1. phase' \in [Runs -> S!Phases] /\ UNCHANGED <<printed, latest, asked, person>>
    BY <1>0, <1>7 DEF ServerOK, Accepted, Refused, S!Accept, S!Refuse, S!Become, S!Phases
  <2>2. own' \in [Runs -> OwnRuns]
    <3>1. CASE Accepted(r)
      BY <3>1, <1>0, OwnFields DEF Accepted
    <3>2. CASE Refused(r)
      BY <3>2, <1>0, ConcludeOK DEF Refused, Verdicts
    <3>3. QED
      BY <3>1, <3>2, <1>7
  <2>3. PageOK'
    <3>1. page' = page \/ page' = Freed(r)
      BY <1>7 DEF Accepted, Refused
    <3>2. QED
      BY <3>1, <1>0, FreedOK DEF PageOK
  <2>4. QED
    BY <1>0, <2>1, <2>2, <2>3 DEF Types, ServerOK
<1>8. ASSUME NEW r \in Runs, Receive(r) PROVE Types'
  <2> DEFINE b == ButtonOf[r]
             piece == <<r, own[r].got + 1>>
  <2>1. b \in Buttons /\ own[r].got + 1 \in {1, 2}
    <3>1. own[r].got \in 0..2
      BY <1>0 DEF OwnRuns
    <3>2. printed[r] \in 0..2 /\ own[r].got < printed[r]
      BY <1>0, <1>8 DEF Receive, ServerOK
    <3>3. own[r].got + 1 \in {1, 2}
      BY <3>1, <3>2
    <3>4. QED
      BY <3>3 DEF Buttons
  <2>2. piece \in Pieces
    BY <2>1 DEF Pieces
  <2> HIDE DEF piece
  <2>3. Append(page.local[b], piece) \in Log
    BY <1>0, <2>1, <2>2 DEF Pages, Log
  <2>4. page' = [page EXCEPT !.local[b] = Append(page.local[b], piece)]
    BY <1>0, <1>8 DEF Receive, Pages, piece
  <2>5. page' \in Pages /\ page'.view = page.view
    BY <1>0, <2>1, <2>3, <2>4 DEF Pages
  <2>6. own' \in [Runs -> OwnRuns]
    <3>1. own' = [own EXCEPT ![r].got = own[r].got + 1] /\ own[r].got + 1 \in 0..2
      BY <1>8, <2>1 DEF Receive
    <3>2. QED
      BY <1>0, <3>1, OwnFields
  <2>7. UNCHANGED <<server, asked, person>>
    BY <1>8 DEF Receive
  <2>8. QED
    BY <1>0, <2>5, <2>6, <2>7 DEF Types, ServerOK, PageOK, server
<1>9. ASSUME NEW r \in Runs, StreamIsOver(r) PROVE Types'
  <2>0. UNCHANGED <<server, person>>
    BY <1>9 DEF StreamIsOver
  <2>1. CASE Handlers[ButtonOf[r]].rereads
    <3> DEFINE tab == TabOf(ButtonOf[r])
               q == Ask("reread", tab, None, r)
    <3>1. own' \in [Runs -> OwnRuns]
      <4>1. own' = [own EXCEPT ![r].at = "rereading"]
        BY <2>1, <1>9 DEF StreamIsOver
      <4>2. QED
        BY <1>0, <4>1, OwnFields
    <3>2. q \in Asked
      <4>1. tab \in RunTabNames /\ page \in Pages /\ r \in Runs \cup {None} /\ None \in Snapshots \cup {None}
        <5>1. ButtonOf[r] \in DOMAIN Handlers
          OBVIOUS
        <5>2. QED
          BY <5>1, <1>0, TabOfButton DEF PageOK
      <4> HIDE DEF tab
      <4>2. QED
        BY <4>1, AskOK
    <3>3. asked' = Append(asked, q) /\ page' = page
      BY <2>1, <1>9 DEF StreamIsOver
    <3> HIDE DEF q
    <3>4. asked' \in Seq(Asked)
      BY <1>0, <3>2, <3>3
    <3>5. QED
      BY <1>0, <2>0, <3>1, <3>3, <3>4 DEF Types, ServerOK, PageOK, server
  <2>2. CASE ~Handlers[ButtonOf[r]].rereads
    <3>1. page' = Freed(r) /\ own' = Conclude(r, Verdict(ButtonOf[r])) /\ asked' = asked
      BY <2>2, <1>9 DEF StreamIsOver
    <3>2. own' \in [Runs -> OwnRuns]
      BY <1>0, <3>1, JudgedOK
    <3>3. PageOK'
      BY <1>0, <3>1, FreedOK DEF PageOK
    <3>4. QED
      BY <1>0, <2>0, <3>1, <3>2, <3>3 DEF Types, ServerOK, server
  <2>3. QED
    BY <2>1, <2>2
<1>10. ASSUME NEW i \in DOMAIN asked, Fire(i) \/ Serve(i) PROVE Types'
  <2> DEFINE q == asked[i]
  <2>1. q \in Asked
    BY <1>0, RequestsAreAsked
  <2>2. asked' \in Seq(Asked)
    <3>1. CASE Serve(i)
      <4>1. AnswerTo(q) \in Asked
        BY <1>0, <3>1, <2>1, AnswerOK DEF Serve
      <4>2. asked' = [asked EXCEPT ![i] = AnswerTo(q)]
        BY <1>0, <3>1, ServeAnswers
      <4>3. QED
        BY <1>0, <4>1, <4>2, ReplacedElements
    <3>2. CASE Fire(i)
      <4>1. q.tab \in RunTabNames /\ q.snap \in Snapshots \cup {None}
        BY <2>1, <3>2 DEF Fire, Asked, IsRequest
      <4>2. \A tab \in RunTabNames, snap \in Snapshots \cup {None} : Ask("poll", tab, snap, None) \in Asked
        BY <1>0, AskOK
      <4>5. Ask("poll", q.tab, q.snap, None) \in Asked
        BY <4>1, <4>2
      <4>3. \/ asked' = [asked EXCEPT ![i] = Ask("poll", q.tab, q.snap, None)]
            \/ asked' = RemoveAt(asked, i)
        BY <3>2 DEF Fire
      <4>4. RemoveAt(asked, i) \in Seq(Asked)
        BY <1>0, RemovedElements
      <4>6. \A e \in Asked : [asked EXCEPT ![i] = e] \in Seq(Asked)
        BY <1>0, ReplacedElements
      <4>7. QED
        BY <4>5, <4>3, <4>4, <4>6
    <3>3. QED
      BY <1>10, <3>1, <3>2
  <2>3. UNCHANGED <<server, page, own, person>>
    BY <1>10 DEF Fire, Serve
  <2>4. QED
    BY <1>0, <2>2, <2>3 DEF Types, ServerOK, PageOK, server
<1>11. ASSUME NEW i \in DOMAIN asked, NEW p, NEW runs \in [Runs -> OwnRuns], NEW next \in Seq(Asked),
              p \in Pages, p.view.labelled \subseteq Shown(p.view.tab), Heard(i, p, runs, next)
       PROVE  Types'
  <2>1. asked' \in Seq(Asked)
    BY <1>0, <1>11, RemovedElements, ConcatElements DEF Heard
  <2>2. QED
    BY <1>0, <1>11, <2>1 DEF Heard, Types, ServerOK, PageOK, server
<1>12. ASSUME NEW i \in DOMAIN asked, LoadTab(i) \/ PollTab(i) \/ RereadTab(i) PROVE Types'
  <2> DEFINE q == asked[i]
  <2>1. q \in Asked /\ q.at = "answered" /\ q.kind # "select"
    BY <1>0, <1>12, RequestsAreAsked DEF LoadTab, PollTab, RereadTab, Answered
  <2>2. q.tab \in RunTabNames /\ q.plan \in PlansOf(q.tab) /\ (q.kind = "reread" => q.run \in Runs)
    BY <2>1 DEF Asked, IsRequest
  <2>3. LET p == RenderTab(page, q.tab, q.plan) IN p \in Pages /\ p.view.labelled \subseteq Shown(p.view.tab)
    BY <1>0, <2>2, RenderTabOK
  <2>4. page.view.labelled \subseteq Shown(page.view.tab)
    BY <1>0 DEF PageOK
  <2>5. Detached(own) \in [Runs -> OwnRuns]
    BY <1>0, DetachedOK
  <2>6. CASE LoadTab(i)
    BY <1>11, <2>2, <2>3, <2>5, <2>6, PollsOK DEF LoadTab
  <2>7. CASE PollTab(i)
    <3> DEFINE snap == Snapshot(q.tab, q.plan)
               again == IF snap.running # {} THEN <<Timer(q.tab, snap)>> ELSE <<>>
    <3>1. again \in Seq(Asked) /\ PollsOf(q.tab, q.plan) \in Seq(Asked)
      BY <2>2, PollsOK
    <3>2. \/ Heard(i, RenderTab(page, q.tab, q.plan), Detached(own), PollsOf(q.tab, q.plan))
          \/ Heard(i, page, own, again)
      BY <2>7 DEF PollTab
    <3> HIDE DEF snap, again
    <3>3. QED
      BY <1>0, <1>11, <2>3, <2>4, <2>5, <3>1, <3>2
  <2>8. CASE RereadTab(i)
    <3>1. q.run \in Runs
      BY <2>2, <2>8 DEF RereadTab, Answered
    <3>2. Detached(Conclude(q.run, Verdict(ButtonOf[q.run]))) \in [Runs -> OwnRuns]
      BY <1>0, <3>1, JudgedOK
    <3>3. PollsOf(q.tab, q.plan) \in Seq(Asked)
      BY <2>2, PollsOK
    <3>4. QED
      BY <1>11, <2>3, <2>8, <3>2, <3>3 DEF RereadTab
  <2>9. QED
    BY <1>12, <2>6, <2>7, <2>8
<1>13. ASSUME NEW i \in DOMAIN asked, ShowSelection(i) PROVE Types'
  <2> DEFINE view == NoRuns("none")
  <2>1. view \in Views /\ view.labelled = {}
    BY DEF NoRuns, View, Views
  <2> HIDE DEF view
  <2>2. Draw(page, view) \in Pages /\ Draw(page, view).view = view
    BY <1>0, <2>1 DEF Draw, Pages
  <2>3. Detached(own) \in [Runs -> OwnRuns]
    BY <1>0, DetachedOK
  <2>6. <<>> \in Seq(Asked)
    OBVIOUS
  <2>4. Heard(i, Draw(page, view), Detached(own), <<>>)
    BY <1>13 DEF ShowSelection, view
  <2>5. QED
    BY <1>11, <2>1, <2>2, <2>3, <2>4, <2>6
<1>14. ASSUME NEW r \in Runs, GivenUp(r) PROVE Types'
  <2>1. PageOK'
    BY <1>0, <1>14, GivenUpOK, FreedOK DEF PageOK
  <2>2. QED
    BY <1>0, <1>14, <2>1, GivenUpOK DEF Types, ServerOK
<1>15. ASSUME NEW i \in DOMAIN asked, RequestFails(i) PROVE Types'
  <2>1. asked' \in Seq(Asked)
    BY <1>0, <1>15, RequestFailsOK, RemovedElements
  <2>2. QED
    BY <1>0, <1>15, <2>1, RequestFailsOK DEF Types, ServerOK, server
<1>16. QED
  BY <1>1, <1>3, <1>4, <1>5, <1>6, <1>7, <1>8, <1>9, <1>10, <1>12, <1>13, <1>14, <1>15, StepsOfNext

LEMMA InitTypes == Init => Types
<1> SUFFICES ASSUME Init PROVE Types
  OBVIOUS
<1>0. PICK s \in Scenarios : \E inv \in s.invs :
        /\ page = [topTab |-> "files", inventory |-> inv, view |-> View("files", None, {}),
                   local |-> [b \in Buttons |-> <<>>]]
        /\ person = [may |-> s, acts |-> 0, strayed |-> FALSE, unpolled |-> {}]
  BY DEF Init
<1>1. PICK inv \in s.invs :
        /\ page = [topTab |-> "files", inventory |-> inv, view |-> View("files", None, {}),
                   local |-> [b \in Buttons |-> <<>>]]
        /\ person = [may |-> s, acts |-> 0, strayed |-> FALSE, unpolled |-> {}]
  BY <1>0
<1>2. inv \in Invs /\ <<>> \in Log
  BY DEF Log
<1>3. PageOK
  BY <1>1, <1>2 DEF PageOK, Pages, Views, View, Tabs
<1>4. person \in Persons
  BY <1>1 DEF Persons
<1>5. ServerOK
  BY DEF Init, ServerOK, S!Init, S!Phases
<1>6. own \in [Runs -> OwnRuns] /\ asked \in Seq(Asked)
  BY DEF Init, OwnRuns
<1>7. QED
  BY <1>3, <1>4, <1>5, <1>6 DEF Types

LEMMA TypesInvariant == Spec => []Types
BY InitTypes, TypesStep, PTL DEF Spec

\* The page, the runs of this page and the requests stay of their shapes; a
\* blocked button is always one that the tab on the screen has.
THEOREM TypeCorrect == Spec => []TypeOK
BY TypesInvariant, TypesImplyTypeOK, PTL

-----------------------------------------------------------------------------
(* What is drawn belongs to the open tab.                                  *)

Draws(q) == q.kind # "select" /\ q.at # "timer"

WillReread(r) == own[r].at \in {"posted", "reading"} /\ Handlers[ButtonOf[r]].rereads

\* As long as nothing was chosen while the page had a tab to draw, every
\* request that will draw one, and every run that will ask for one, is of the
\* open tab and of the selected inventory; and so is what is on the screen,
\* but for an inventory whose files are awaited or were asked for in vain.
Straight ==
  /\ \A q \in ToSet(asked) : Draws(q) => q.tab = page.topTab /\ q.inv = page.inventory
  /\ \A r \in Runs : WillReread(r) => TabOf(ButtonOf[r]) = page.topTab
  /\ page.view.tab \in {page.topTab, "none"}
  /\ \/ page.view.tab \notin RunTabNames
     \/ page.view.inv = page.inventory
     \/ page.view.outdated
     \/ \E q \in ToSet(asked) : q.kind = "select"

StraightInv == ~person.strayed => Straight

\* A choice with nothing to be drawn leaves timers and selections only.
LEMMA NothingToBeDrawn ==
  ASSUME Types, ~ToBeDrawn
  PROVE  /\ \A q \in ToSet(asked) : q.at = "timer" /\ ~Draws(q)
         /\ \A r \in Runs : ~WillReread(r)
BY RequestsAreAsked DEF Types, ToBeDrawn, Draws, WillReread

LEMMA StraightStep == Types /\ StraightInv /\ [Next]_vars => StraightInv'
<1> SUFFICES ASSUME Types, StraightInv, [Next]_vars, ~person'.strayed PROVE Straight'
  BY DEF StraightInv
<1>0. /\ ServerOK /\ PageOK /\ page \in Pages /\ own \in [Runs -> OwnRuns]
      /\ asked \in Seq(Asked) /\ person \in Persons
  BY DEF Types, PageOK
<1>1. CASE UNCHANGED vars
  BY <1>1 DEF vars, server, StraightInv, Straight, WillReread
<1>2. ASSUME UNCHANGED <<page, person>>, NEW runs, own' = runs,
             \A r \in Runs : runs[r].at \in {"posted", "reading"} => own[r].at \in {"posted", "reading"},
             asked' = asked
      PROVE  Straight'
  BY <1>2 DEF StraightInv, Straight, WillReread
<1>3. ASSUME NEW tab \in Tabs, SwitchTab(tab) PROVE Straight'
  <2> DEFINE p == [page EXCEPT !.topTab = tab]
             view == IF tab = "files" THEN NoRuns("files") ELSE NoRuns("none")
             requests == IF tab = "files" THEN <<>> ELSE <<Ask("load", tab, None, None)>>
  <2>1. /\ page' = Draw(p, view) /\ asked' = asked \o requests /\ own' = Detached(own)
        /\ person' = [person EXCEPT !.acts = @ + 1, !.strayed = @ \/ ToBeDrawn]
    BY <1>3 DEF SwitchTab, Choose
  <2>2. ~ToBeDrawn
    BY <1>0, <2>1 DEF Persons
  <2>3. page'.topTab = tab /\ page'.inventory = page.inventory /\ page'.view = view
    BY <1>0, <2>1 DEF Draw, Pages
  <2>4. requests \in Seq(Asked) /\ \A q \in ToSet(requests) : q.tab = tab /\ q.inv = page.inventory
    <3>1. CASE tab = "files"
      BY <3>1 DEF ToSet
    <3>2. CASE tab # "files"
      <4> DEFINE q == Ask("load", tab, None, None)
      <4>1. q \in Asked /\ q.tab = tab /\ q.inv = page.inventory
        <5>1. tab \in RunTabNames
          BY <3>2 DEF Tabs
        <5>2. q \in Asked
          BY <1>0, <5>1, AskOK
        <5>3. QED
          BY <5>2 DEF Ask
      <4> HIDE DEF q
      <4>2. requests = <<q>>
        BY <3>2 DEF q
      <4>3. QED
        BY <4>1, <4>2 DEF ToSet
    <3>3. QED
      BY <3>1, <3>2
  <2>5. view.tab \in {tab, "none"} /\ view.tab \notin RunTabNames
    BY ButtonsOfTabs DEF NoRuns, View
  <2> HIDE DEF view, requests
  <2>6. \A q \in ToSet(asked') : Draws(q) => q.tab = tab /\ q.inv = page.inventory
    BY <1>0, <2>1, <2>2, <2>4, NothingToBeDrawn, ConcatElements
  <2>7. \A r \in Runs : own'[r].at = own[r].at
    BY <1>0, <2>1, DetachedOK
  <2>8. \A r \in Runs : ~WillReread(r)'
    BY <2>2, <2>7, NothingToBeDrawn DEF WillReread
  <2>9. QED
    BY <2>3, <2>5, <2>6, <2>8 DEF Straight
<1>4. ASSUME NEW inv \in Invs, SelectInventory(inv) PROVE Straight'
  <2> DEFINE p == [page EXCEPT !.inventory = inv]
             q == [Ask("select", "none", None, None) EXCEPT !.inv = inv]
  <2>1. /\ page' = p /\ asked' = asked \o <<q>> /\ own' = own
        /\ person' = [person EXCEPT !.acts = @ + 1, !.strayed = @ \/ ToBeDrawn]
    BY <1>4 DEF SelectInventory, Choose
  <2>2. ~ToBeDrawn /\ ~person.strayed
    BY <1>0, <2>1 DEF Persons
  <2>3. page'.topTab = page.topTab /\ page'.inventory = inv /\ page'.view = page.view
    BY <1>0, <2>1 DEF Pages
  <2>4. q \in Asked /\ q.kind = "select"
    BY <1>0, AskSelectOK
  <2> HIDE DEF p, q
  <2>5. <<q>> \in Seq(Asked) /\ ToSet(<<q>>) = {q}
    BY <2>4 DEF ToSet
  <2>6. ToSet(asked') = ToSet(asked) \cup {q}
    <3> DEFINE one == <<q>>
    <3>1. one \in Seq(Asked) /\ ToSet(one) = {q} /\ asked' = asked \o one
      BY <2>1, <2>5
    <3> HIDE DEF one
    <3>2. QED
      BY <1>0, <3>1, ConcatElements
  <2>7. \A e \in ToSet(asked') : ~Draws(e)
    BY <2>2, <2>4, <2>6, NothingToBeDrawn DEF Draws
  <2>8. \A r \in Runs : ~WillReread(r)'
    BY <2>1, <2>2, NothingToBeDrawn DEF WillReread
  <2>9. page.view.tab \in {page.topTab, "none"}
    BY <2>2 DEF StraightInv, Straight
  <2>10. QED
    BY <2>3, <2>4, <2>6, <2>7, <2>8, <2>9 DEF Straight
<1>5. ASSUME NEW r \in Runs, OnServer(r) PROVE Straight'
  BY <1>5, <1>2 DEF OnServer, Start, Emit, End, Break, StartElsewhere
<1>6. ASSUME NEW r \in Runs, Press(r) PROVE Straight'
  <2> DEFINE b == ButtonOf[r]
  <2>1. Straight /\ UNCHANGED <<asked, person>>
    BY <1>6 DEF Press, StraightInv
  <2>2. page.view.tab \in RunTabNames /\ b \in OnTab(page.view.tab)
    BY <1>6 DEF Press
  <2>3. page.view.tab = TabOf(b) /\ page.view.tab # "none"
    BY <2>2, TabOfButton, ButtonsOfTabs
  <2>4. TabOf(b) = page.topTab
    BY <2>1, <2>3 DEF Straight
  <2>5. /\ page'.topTab = page.topTab /\ page'.inventory = page.inventory
        /\ page'.view.tab = page.view.tab /\ page'.view.inv = page.view.inv
        /\ page'.view.outdated = page.view.outdated
    BY <1>0, <1>6 DEF Press, Pages, Views
  <2>6. \A s \in Runs : s # r => own'[s] = own[s]
    BY <1>0, <1>6 DEF Press
  <2>7. \A s \in Runs : WillReread(s)' => s = r \/ WillReread(s)
    BY <2>6 DEF WillReread
  <2>8. QED
    BY <2>1, <2>4, <2>5, <2>7 DEF Straight
<1>7. ASSUME NEW p, p.topTab = page.topTab, p.inventory = page.inventory,
             p.view.tab = page.view.tab, p.view.inv = page.view.inv,
             p.view.outdated = page.view.outdated, page' = p,
             \A s \in Runs : WillReread(s)' => WillReread(s),
             UNCHANGED <<asked, person>>
      PROVE  Straight'
  BY <1>7 DEF StraightInv, Straight
<1>8. ASSUME NEW r \in Runs, Accepted(r) \/ Refused(r) PROVE Straight'
  <2>1. CASE Accepted(r)
    <3>1. \A s \in Runs : WillReread(s)' => WillReread(s)
      BY <1>0, <2>1 DEF Accepted, WillReread
    <3>2. QED
      BY <2>1, <3>1, <1>7 DEF Accepted
  <2>2. CASE Refused(r)
    <3>1. \A s \in Runs : own'[s].at = IF s = r THEN "over" ELSE own[s].at
      BY <1>0, <2>2, ConcludeOK DEF Refused, Verdicts
    <3>2. \A s \in Runs : WillReread(s)' => WillReread(s)
      BY <3>1 DEF WillReread
    <3>3. QED
      BY <1>0, <2>2, <3>2, <1>7, FreedOK DEF Refused
  <2>3. QED
    BY <1>8, <2>1, <2>2
<1>9. ASSUME NEW r \in Runs, Receive(r) PROVE Straight'
  <2>1. \A s \in Runs : WillReread(s)' => WillReread(s)
    BY <1>0, <1>9 DEF Receive, WillReread
  <2>2. page'.topTab = page.topTab /\ page'.inventory = page.inventory /\ page'.view = page.view
    BY <1>0, <1>9 DEF Receive, Pages
  <2>3. QED
    BY <1>9, <2>1, <2>2, <1>7 DEF Receive
<1>10. ASSUME NEW r \in Runs, StreamIsOver(r) PROVE Straight'
  <2>1. CASE Handlers[ButtonOf[r]].rereads
    <3> DEFINE q == Ask("reread", TabOf(ButtonOf[r]), None, r)
    <3>1. Straight /\ WillReread(r) /\ UNCHANGED <<page, person>> /\ asked' = Append(asked, q)
      BY <2>1, <1>10 DEF StreamIsOver, StraightInv, WillReread
    <3>2. q \in Asked /\ q.tab = page.topTab /\ q.inv = page.inventory
      <4>1. TabOf(ButtonOf[r]) \in RunTabNames /\ TabOf(ButtonOf[r]) = page.topTab
        BY <3>1, TabOfButton DEF Straight
      <4>2. q \in Asked
        BY <1>0, <4>1, AskOK
      <4>3. QED
        BY <4>1, <4>2 DEF Ask
    <3> HIDE DEF q
    <3>3. <<q>> \in Seq(Asked) /\ ToSet(<<q>>) = {q}
      BY <3>2 DEF ToSet
    <3>4. ToSet(asked') = ToSet(asked) \cup {q}
      <4>1. Append(asked, q) = asked \o <<q>>
        BY <1>0, <3>2, AppendIsConcat
      <4> DEFINE one == <<q>>
      <4>2. one \in Seq(Asked) /\ ToSet(one) = {q} /\ asked' = asked \o one
        BY <3>1, <3>3, <4>1
      <4> HIDE DEF one
      <4>3. QED
        BY <1>0, <4>2, ConcatElements
    <3>5. \A s \in Runs : WillReread(s)' => WillReread(s)
      BY <1>0, <2>1, <1>10 DEF StreamIsOver, WillReread
    <3>6. QED
      BY <3>1, <3>2, <3>4, <3>5 DEF Straight
  <2>2. CASE ~Handlers[ButtonOf[r]].rereads
    <3>1. /\ page' = Freed(r) /\ own' = Conclude(r, Verdict(ButtonOf[r]))
          /\ UNCHANGED <<asked, person>>
      BY <2>2, <1>10 DEF StreamIsOver
    <3>2. \A s \in Runs : own'[s].at = IF s = r THEN "over" ELSE own[s].at
      BY <1>0, <3>1, JudgedOK
    <3>3. \A s \in Runs : WillReread(s)' => WillReread(s)
      BY <3>2 DEF WillReread
    <3>4. QED
      BY <1>0, <3>1, <3>3, <1>7, FreedOK
  <2>3. QED
    BY <2>1, <2>2
<1>11. ASSUME NEW i \in DOMAIN asked, Fire(i) \/ Serve(i) PROVE Straight'
  <2> DEFINE q == asked[i]
  <2>1. Straight /\ UNCHANGED <<page, own, person>>
    BY <1>11 DEF Fire, Serve, StraightInv
  <2>2. q \in Asked /\ q \in ToSet(asked)
    BY <1>0, RequestsAreAsked
  \* A list in which the select requests are those of before, and what draws
  \* is of the open tab.
  <2>3. ASSUME NEW list, asked' = list,
               \A e \in ToSet(list) : Draws(e) => e.tab = page.topTab /\ e.inv = page.inventory,
               \A e \in ToSet(asked) : e.kind = "select" => \E f \in ToSet(list) : f.kind = "select"
        PROVE  Straight'
    BY <2>1, <2>3 DEF Straight, WillReread
  <2>4. CASE Serve(i)
    <3> DEFINE a == AnswerTo(q)
    <3>1. a \in Asked /\ a.kind = q.kind /\ a.tab = q.tab /\ a.inv = q.inv
      BY <1>0, <2>2, <2>4, AnswerOK DEF Serve
    <3>2. asked' = [asked EXCEPT ![i] = a]
      BY <1>0, <2>4, ServeAnswers
    <3>3. q.at = "sent"
      BY <2>4 DEF Serve
    <3> HIDE DEF a
    <3>4. /\ ToSet(asked') \subseteq ToSet(asked) \cup {a} /\ a \in ToSet(asked')
          /\ \A e \in ToSet(asked) : e # q => e \in ToSet(asked')
      BY <1>0, <3>1, <3>2, ReplacedElements
    <3>5. Draws(a) => a.tab = page.topTab /\ a.inv = page.inventory
      BY <2>1, <2>2, <3>1, <3>3 DEF Draws, Straight
    <3>6. \A e \in ToSet(asked') : Draws(e) => e.tab = page.topTab /\ e.inv = page.inventory
      BY <2>1, <3>4, <3>5 DEF Straight
    <3>7. \A e \in ToSet(asked) : e.kind = "select" => \E f \in ToSet(asked') : f.kind = "select"
      BY <3>1, <3>4
    <3>8. QED
      BY <2>3, <3>6, <3>7
  <2>5. CASE Fire(i)
    <3> DEFINE a == Ask("poll", q.tab, q.snap, None)
    <3>1. q.kind = "poll" /\ q.tab \in RunTabNames /\ q.snap \in Snapshots \cup {None}
      BY <2>2, <2>5 DEF Fire, Asked, IsRequest
    <3>2. \A tab \in RunTabNames, snap \in Snapshots \cup {None} : Ask("poll", tab, snap, None) \in Asked
      BY <1>0, AskOK
    <3>3. a \in Asked /\ a.tab = q.tab /\ a.inv = page.inventory
      <4>1. a \in Asked
        BY <3>1, <3>2
      <4>2. QED
        BY <4>1 DEF Ask
    <3>4. \/ page.topTab = q.tab /\ asked' = [asked EXCEPT ![i] = a]
          \/ asked' = RemoveAt(asked, i)
      BY <2>5 DEF Fire
    <3> HIDE DEF a
    <3>5. /\ \A e \in ToSet(asked') : e \in ToSet(asked) \/ (e = a /\ page.topTab = q.tab)
          /\ \A e \in ToSet(asked) : e # q => e \in ToSet(asked')
      <4>1. CASE page.topTab = q.tab /\ asked' = [asked EXCEPT ![i] = a]
        <5>1. asked \in Seq(Asked) /\ i \in DOMAIN asked /\ a \in Asked /\ q = asked[i]
          BY <1>0, <3>3
        <5>2. /\ ToSet([asked EXCEPT ![i] = a]) \subseteq ToSet(asked) \cup {a}
              /\ \A e \in ToSet(asked) : e # asked[i] => e \in ToSet([asked EXCEPT ![i] = a])
          BY <5>1, ReplacedElements
        <5>3. QED
          BY <4>1, <5>1, <5>2
      <4>2. CASE asked' = RemoveAt(asked, i)
        BY <1>0, <4>2, RemovedElements
      <4>3. QED
        BY <3>4, <4>1, <4>2
    <3>6. \A e \in ToSet(asked') : Draws(e) => e.tab = page.topTab /\ e.inv = page.inventory
      BY <2>1, <3>3, <3>5 DEF Straight
    <3>7. \A e \in ToSet(asked) : e.kind = "select" => \E f \in ToSet(asked') : f.kind = "select"
      BY <3>1, <3>5
    <3>8. QED
      BY <2>3, <3>6, <3>7
  <2>6. QED
    BY <1>11, <2>4, <2>5
<1>12. ASSUME NEW i \in DOMAIN asked, NEW p, NEW runs, NEW next \in Seq(Asked), Heard(i, p, runs, next),
              p.topTab = page.topTab, p.inventory = page.inventory,
              \A r \in Runs : runs[r].at \in {"posted", "reading"} => own[r].at \in {"posted", "reading"},
              \A e \in ToSet(next) : e.at = "timer",
              \/ p = page /\ asked[i].kind # "select"
              \/ p.view.tab = page.topTab /\ p.view.inv = page.inventory
              \/ p.view.tab = "none"
       PROVE  Straight'
  <2>1. Straight /\ page' = p /\ own' = runs /\ asked' = RemoveAt(asked, i) \o next
    BY <1>12 DEF Heard, StraightInv
  <2>2. /\ RemoveAt(asked, i) \in Seq(Asked) /\ ToSet(RemoveAt(asked, i)) \subseteq ToSet(asked)
        /\ \A e \in ToSet(asked) : e # asked[i] => e \in ToSet(RemoveAt(asked, i))
    BY <1>0, RemovedElements
  <2>3. ToSet(asked') = ToSet(RemoveAt(asked, i)) \cup ToSet(next)
    BY <1>12, <2>1, <2>2, ConcatElements
  <2>4. \A e \in ToSet(asked') : Draws(e) => e.tab = page.topTab /\ e.inv = page.inventory
    BY <1>12, <2>1, <2>2, <2>3 DEF Straight, Draws
  <2>5. \A r \in Runs : WillReread(r)' => WillReread(r)
    BY <1>12, <2>1 DEF WillReread
  <2>6. "none" \notin RunTabNames
    BY ButtonsOfTabs
  <2>7. p = page /\ asked[i].kind # "select" =>
          \/ page.view.tab \notin RunTabNames
          \/ page.view.inv = page.inventory
          \/ page.view.outdated
          \/ \E e \in ToSet(asked') : e.kind = "select"
    BY <2>1, <2>2, <2>3 DEF Straight
  <2>8. QED
    BY <1>12, <2>1, <2>4, <2>5, <2>6, <2>7 DEF Straight
<1>13. ASSUME NEW i \in DOMAIN asked, LoadTab(i) \/ PollTab(i) \/ RereadTab(i) PROVE Straight'
  <2> DEFINE q == asked[i]
             p == RenderTab(page, q.tab, q.plan)
  <2>1. q \in Asked /\ q \in ToSet(asked) /\ q.at = "answered" /\ q.kind # "select"
    BY <1>0, <1>13, RequestsAreAsked DEF LoadTab, PollTab, RereadTab, Answered
  <2>2. /\ q.tab \in RunTabNames /\ q.plan \in PlansOf(q.tab) /\ q.plan.inv = q.inv
        /\ q.kind = "reread" => q.run \in Runs
    BY <2>1 DEF Asked, IsRequest
  <2>3. ~person.strayed
    BY <1>13 DEF LoadTab, PollTab, RereadTab, Heard
  <2>4. q.tab = page.topTab /\ q.inv = page.inventory
    BY <2>1, <2>3 DEF StraightInv, Straight, Draws
  <2>5. p.topTab = page.topTab /\ p.inventory = page.inventory /\ p.view = View(q.tab, q.plan.inv, q.plan.running)
    BY <1>0, <2>2, RenderTabOK
  <2>6. p.view.tab = page.topTab /\ p.view.inv = page.inventory
    BY <2>2, <2>4, <2>5 DEF View
  <2>7. \A r \in Runs : Detached(own)[r].at = own[r].at
    BY <1>0, DetachedOK
  <2>8. /\ PollsOf(q.tab, q.plan) \in Seq(Asked) /\ \A e \in ToSet(PollsOf(q.tab, q.plan)) : e.at = "timer"
    BY <2>2, PollsOK
  <2> HIDE DEF p
  <2>9. CASE LoadTab(i)
    <3>1. Heard(i, p, Detached(own), PollsOf(q.tab, q.plan))
      BY <2>9 DEF LoadTab, p
    <3>2. QED
      BY <1>12, <2>5, <2>6, <2>7, <2>8, <3>1
  <2>10. CASE PollTab(i)
    <3> DEFINE snap == Snapshot(q.tab, q.plan)
               again == IF snap.running # {} THEN <<Timer(q.tab, snap)>> ELSE <<>>
    <3>1. again \in Seq(Asked) /\ \A e \in ToSet(again) : e.at = "timer"
      BY <2>2, PollsOK
    <3>2. \/ Heard(i, p, Detached(own), PollsOf(q.tab, q.plan))
          \/ Heard(i, page, own, again)
      BY <2>10 DEF PollTab, p
    <3> HIDE DEF snap, again
    <3>3. QED
      BY <1>12, <2>1, <2>5, <2>6, <2>7, <2>8, <3>1, <3>2
  <2>11. CASE RereadTab(i)
    <3> DEFINE runs == Detached(Conclude(q.run, Verdict(ButtonOf[q.run])))
    <3>1. q.run \in Runs
      BY <2>2, <2>11 DEF RereadTab, Answered
    <3>2. \A r \in Runs : runs[r].at = IF r = q.run THEN "over" ELSE own[r].at
      BY <1>0, <3>1, JudgedOK
    <3>3. Heard(i, p, runs, PollsOf(q.tab, q.plan))
      BY <2>11 DEF RereadTab, p
    <3> HIDE DEF runs
    <3>4. QED
      BY <1>12, <2>5, <2>6, <2>8, <3>2, <3>3
  <2>12. QED
    BY <1>13, <2>9, <2>10, <2>11
<1>14. ASSUME NEW i \in DOMAIN asked, ShowSelection(i) PROVE Straight'
  <2> DEFINE p == Draw(page, NoRuns("none"))
  <2>1. p.topTab = page.topTab /\ p.inventory = page.inventory /\ p.view.tab = "none"
    BY <1>0 DEF Draw, NoRuns, View, Pages
  <2>2. \A r \in Runs : Detached(own)[r].at = own[r].at
    BY <1>0, DetachedOK
  <2>3. <<>> \in Seq(Asked) /\ ToSet(<<>>) = {}
    BY DEF ToSet
  <2>4. Heard(i, p, Detached(own), <<>>)
    BY <1>14 DEF ShowSelection
  <2> HIDE DEF p
  <2>5. QED
    BY <1>12, <2>1, <2>2, <2>3, <2>4
<1>15. ASSUME NEW r \in Runs, GivenUp(r) PROVE Straight'
  <2>1. \A s \in Runs : WillReread(s)' => WillReread(s)
    BY <1>15, GivenUpOK DEF WillReread
  <2>2. QED
    BY <1>0, <1>15, <2>1, <1>7, GivenUpOK, FreedOK
<1>16. ASSUME NEW i \in DOMAIN asked, RequestFails(i) PROVE Straight'
  <2>1. /\ asked' = RemoveAt(asked, i) /\ person'.strayed = person.strayed
        /\ page'.topTab = page.topTab /\ page'.inventory = page.inventory
        /\ \/ page'.view = NoRuns("none")
           \/ /\ page'.view.tab = page.view.tab /\ page'.view.inv = page.view.inv
              /\ page'.view.outdated \/ (asked[i].kind # "select" /\ page'.view.outdated = page.view.outdated)
        /\ \A s \in Runs : own'[s].at = IF asked[i].kind = "reread" /\ s = asked[i].run THEN "over" ELSE own[s].at
    BY <1>16, RequestFailsOK
  <2>2. Straight
    BY <2>1 DEF StraightInv
  <2>3. /\ ToSet(asked') \subseteq ToSet(asked)
        /\ \A e \in ToSet(asked) : e # asked[i] => e \in ToSet(asked')
    BY <1>0, <2>1, RemovedElements
  <2>4. /\ \A q \in ToSet(asked') : Draws(q) => q.tab = page'.topTab /\ q.inv = page'.inventory
        /\ \A s \in Runs : WillReread(s)' => TabOf(ButtonOf[s]) = page'.topTab
    BY <2>1, <2>2, <2>3 DEF Straight, WillReread
  <2>5. page'.view.tab \in {page'.topTab, "none"}
    BY <2>1, <2>2 DEF Straight, NoRuns, View
  <2>6. CASE page'.view = NoRuns("none")
    <3>1. page'.view.tab \notin RunTabNames
      BY <2>6, ButtonsOfTabs DEF NoRuns, View
    <3>2. QED
      BY <2>4, <2>5, <3>1 DEF Straight
  <2>7. CASE page'.view.outdated
    BY <2>4, <2>5, <2>7 DEF Straight
  <2>8. CASE /\ page'.view.tab = page.view.tab /\ page'.view.inv = page.view.inv
             /\ asked[i].kind # "select" /\ page'.view.outdated = page.view.outdated
    <3>1. \A e \in ToSet(asked) : e.kind = "select" => e \in ToSet(asked')
      BY <2>3, <2>8
    <3>2. QED
      BY <2>1, <2>2, <2>4, <2>5, <2>8, <3>1 DEF Straight
  <2>9. QED
    BY <2>1, <2>6, <2>7, <2>8
<1>17. QED
  BY <1>1, <1>3, <1>4, <1>5, <1>6, <1>8, <1>9, <1>10, <1>11, <1>13, <1>14, <1>15, <1>16, StepsOfNext

LEMMA StraightInvariant == Spec => []StraightInv
<1>1. Init => StraightInv
  <2> SUFFICES ASSUME Init PROVE Straight
    BY DEF StraightInv
  <2>1. asked = <<>> /\ \A r \in Runs : own[r].at = "idle"
    BY DEF Init
  <2>2. page.view.tab = "files" /\ page.topTab = "files"
    BY DEF Init, View
  <2>3. ToSet(asked) = {}
    BY <2>1 DEF ToSet
  <2>4. QED
    BY <2>1, <2>2, <2>3, ButtonsOfTabs DEF Straight, WillReread
<1>2. QED
  BY <1>1, StraightStep, TypesInvariant, PTL DEF Spec

\* Until a tab or an inventory is chosen while the page has a tab to draw, no
\* answer, poll or run that is over draws a tab that is not the open one.
THEOREM ViewsMatch == Spec => []ViewMatchesTab
<1>1. StraightInv => ViewMatchesTab
  BY DEF StraightInv, Straight, ViewMatchesTab
<1>2. QED
  BY <1>1, StraightInvariant, PTL

\* Nor does a button that is pressed act on an inventory other than the one
\* whose plan is on the screen, unless the files of an inventory chosen since it
\* was drawn are awaited, or did not come.
THEOREM RunsGoWhereShown == Spec => RunGoesWhereShown
<1> DEFINE Goes(r) ==
      /\ own[r].at = "idle" /\ own'[r].at = "posted" /\ Handlers[ButtonOf[r]].scoped
      /\ ~person.strayed /\ ~page.view.outdated /\ ~\E i \in DOMAIN asked : asked[i].kind = "select"
      => page.view.inv = InvOf[r]
<1>1. ASSUME Types, StraightInv, [Next]_vars, NEW r \in Runs PROVE Goes(r)
  <2> SUFFICES ASSUME own[r].at = "idle", own'[r].at = "posted", Handlers[ButtonOf[r]].scoped,
                      ~person.strayed, ~page.view.outdated, ~\E i \in DOMAIN asked : asked[i].kind = "select"
               PROVE  page.view.inv = InvOf[r]
    OBVIOUS
  <2>1. Press(r)
    <3>1. own \in [Runs -> OwnRuns] /\ asked \in Seq(Asked)
      BY <1>1 DEF Types
    <3>2. \A s \in Runs : Detached(own)[s].at = own[s].at
      BY <3>1, DetachedOK
    <3>3. ~UNCHANGED own /\ own' # Detached(own)
      BY <3>2
    <3>4. \A s \in Runs : ~Refused(s) /\ ~StreamIsOver(s)
      <4> SUFFICES ASSUME NEW s \in Runs, Refused(s) \/ StreamIsOver(s) PROVE FALSE
        OBVIOUS
      <4>1. \/ own' = [own EXCEPT ![s].at = "rereading"]
            \/ \E v \in Verdicts : own' = Conclude(s, v)
        BY VerdictOK DEF Refused, StreamIsOver, Verdicts
      <4>2. own'[r].at \in {"over", "rereading", own[r].at}
        <5>1. CASE own' = [own EXCEPT ![s].at = "rereading"]
          BY <3>1, <5>1 DEF OwnRuns
        <5>2. ASSUME NEW v \in Verdicts, own' = Conclude(s, v)
              PROVE  own'[r].at \in {"over", own[r].at}
          <6>1. Conclude(s, v)[r].at = IF r = s THEN "over" ELSE own[r].at
            BY <3>1, ConcludeOK
          <6>2. QED
            BY <5>2, <6>1
        <5>3. QED
          BY <4>1, <5>1, <5>2
      <4>3. QED
        BY <4>2
    <3>5. \A s \in Runs : ~Accepted(s) /\ ~Receive(s)
      BY <3>1 DEF Accepted, Receive
    <3>6. \A i \in DOMAIN asked : ~Request(i)
      <4> SUFFICES ASSUME NEW i \in DOMAIN asked, Request(i) PROVE FALSE
        OBVIOUS
      <4>1. RereadTab(i)
        BY <3>3 DEF Request, Fire, Serve, LoadTab, PollTab, ShowSelection, Heard
      <4>2. asked[i].run \in Runs
        BY <3>1, <4>1, RequestsAreAsked DEF RereadTab, Answered, Asked, IsRequest
      <4>3. own'[r].at \in {"over", own[r].at}
        <5> DEFINE runs == Detached(Conclude(asked[i].run, Verdict(ButtonOf[asked[i].run])))
        <5>1. own' = runs
          BY <4>1 DEF RereadTab, Heard
        <5>2. runs[r].at = IF r = asked[i].run THEN "over" ELSE own[r].at
          BY <3>1, <4>2, JudgedOK
        <5> HIDE DEF runs
        <5>3. QED
          BY <5>1, <5>2
      <4>4. QED
        BY <4>3
    <3>7. /\ \A s \in Runs : ~GivenUp(s)
          /\ \A i \in DOMAIN asked : ~RequestFails(i)
      BY <1>1, GivenUpOK, RequestFailsOK
    <3>8. \A s \in Runs : ~OnServer(s)
      BY <3>3 DEF OnServer, Start, Emit, End, Break, StartElsewhere
    <3>9. /\ \A tab \in Tabs : ~SwitchTab(tab)
          /\ \A inv \in Invs : ~SelectInventory(inv)
          /\ Next
      BY <1>1, <3>3 DEF SwitchTab, SelectInventory, vars
    <3>10. PICK s \in Runs : Press(s)
      BY Zenon, <3>4, <3>5, <3>6, <3>7, <3>8, <3>9, StepsOfNext DEF Request
    <3>11. s = r
      BY <3>1, <3>10 DEF Press
    <3>12. QED
      BY <3>10, <3>11
  <2>2. page.view.tab \in RunTabNames /\ InvOf[r] = page.inventory
    BY <2>1 DEF Press
  <2>3. ~\E q \in ToSet(asked) : q.kind = "select"
    BY <1>1, RequestsAreAsked DEF Types
  <2>4. QED
    BY <1>1, <2>2, <2>3 DEF StraightInv, Straight
<1>2. Types /\ StraightInv /\ [Next]_vars => [\A r \in Runs : Goes(r)]_vars
  BY <1>1
<1>3. QED
  BY <1>2, TypesInvariant, StraightInvariant, PTL DEF Spec, RunGoesWhereShown

-----------------------------------------------------------------------------
(* The chains of polls.                                                    *)

Drawing == {"load", "poll", "reread"}
DrawingIn(s) == {i \in DOMAIN s : s[i].kind \in Drawing}
HowMany(s) == Cardinality(DrawingIn(s))
Drew(runs) == {r \in Runs : runs[r].at \in {"rereading", "over"} /\ Handlers[ButtonOf[r]].rereads}

\* One request that draws a tab for every choice and for every run that drew its
\* tab: of the runs there are perhaps infinitely many, of those that did never.
ChainsInv ==
  IsFiniteSet(Drew(own)) /\ HowMany(asked) <= person.acts + Cardinality(Drew(own))

LEMMA Positions ==
  ASSUME NEW s \in Seq(Asked)
  PROVE  /\ DOMAIN s = 1..Len(s) /\ Len(s) \in Nat
         /\ IsFiniteSet(DrawingIn(s)) /\ HowMany(s) \in Nat
<1>1. DOMAIN s = 1..Len(s) /\ Len(s) \in Nat
  BY LenProperties
<1>2. IsFiniteSet(1..Len(s))
  BY <1>1, FS_Interval
<1>3. DrawingIn(s) \in SUBSET (1..Len(s))
  BY <1>1 DEF DrawingIn
<1>4. IsFiniteSet(DrawingIn(s))
  BY <1>2, <1>3, FS_Subset
<1>5. QED
  BY <1>1, <1>4, FS_CardinalityType DEF HowMany

\* A request that is over is one less.
LEMMA OneLess ==
  ASSUME NEW s \in Seq(Asked), NEW i \in DOMAIN s
  PROVE  /\ RemoveAt(s, i) \in Seq(Asked)
         /\ HowMany(RemoveAt(s, i)) <= IF s[i].kind \in Drawing THEN HowMany(s) - 1 ELSE HowMany(s)
<1> DEFINE t == RemoveAt(s, i)
           A == DrawingIn(s) \ {i}
           B == DrawingIn(t)
           f == [j \in B |-> IF j < i THEN j ELSE j + 1]
<1>1. /\ DOMAIN s = 1..Len(s) /\ Len(s) \in Nat /\ i \in 1..Len(s)
      /\ IsFiniteSet(DrawingIn(s)) /\ HowMany(s) \in Nat
  BY Positions
<1>2. /\ t \in Seq(Asked) /\ Len(t) = Len(s) - 1
      /\ \A j \in 1..(Len(s) - 1) : t[j] = IF j < i THEN s[j] ELSE s[j + 1]
  BY <1>1, RemoveAtProperties
<1> HIDE DEF t
<1>3. DOMAIN t = 1..(Len(s) - 1)
  BY <1>2, LenProperties
<1>4. /\ IsFiniteSet(A)
      /\ Cardinality(A) = IF s[i].kind \in Drawing THEN HowMany(s) - 1 ELSE HowMany(s)
  BY <1>1, FS_RemoveElement DEF DrawingIn, HowMany
<1>5. \A j \in B : f[j] \in A
  <2> SUFFICES ASSUME NEW j \in B PROVE f[j] \in A
    OBVIOUS
  <2>1. j \in 1..(Len(s) - 1) /\ t[j].kind \in Drawing
    BY <1>3 DEF DrawingIn
  <2>2. f[j] \in 1..Len(s) /\ f[j] # i /\ s[f[j]] = t[j]
    <3>1. f[j] = (IF j < i THEN j ELSE j + 1) /\ t[j] = (IF j < i THEN s[j] ELSE s[j + 1])
      BY <1>2, <2>1
    <3> HIDE DEF f
    <3>2. QED
      BY <1>1, <2>1, <3>1
  <2>3. QED
    BY <1>1, <2>1, <2>2 DEF DrawingIn
<1>6. \A j, k \in B : f[j] = f[k] => j = k
  <2>1. \A j \in B : j \in 1..(Len(s) - 1)
    BY <1>3 DEF DrawingIn
  <2>2. QED
    BY <1>1, <2>1
<1>7. f \in Injection(B, A)
  BY <1>5, <1>6 DEF Injection, IsInjective
<1> HIDE DEF f, A
<1>8. Cardinality(B) <= Cardinality(A)
  BY <1>4, <1>7, FS_Injection
<1>9. QED
  BY <1>2, <1>4, <1>8 DEF HowMany, t

\* A request that is made is one more at most.
LEMMA OneMore ==
  ASSUME NEW s \in Seq(Asked), NEW q \in Asked
  PROVE  HowMany(s \o <<q>>) <= HowMany(s) + 1
<1> DEFINE t == s \o <<q>>
           A == DrawingIn(s) \cup {Len(s) + 1}
<1>1. /\ DOMAIN s = 1..Len(s) /\ Len(s) \in Nat
      /\ IsFiniteSet(DrawingIn(s)) /\ HowMany(s) \in Nat
  BY Positions
<1>2. /\ t \in Seq(Asked) /\ DOMAIN t = 1..(Len(s) + 1)
      /\ \A j \in 1..Len(s) : t[j] = s[j]
  <2>1. <<q>> \in Seq(Asked) /\ Len(<<q>>) = 1
    OBVIOUS
  <2>2. /\ t \in Seq(Asked) /\ Len(t) = Len(s) + 1
        /\ \A j \in 1..Len(s) : t[j] = s[j]
    BY <1>1, <2>1, ConcatProperties
  <2>3. QED
    BY <2>2, LenProperties
<1> HIDE DEF t
<1>3. DrawingIn(t) \in SUBSET A
  BY <1>1, <1>2 DEF DrawingIn
<1>4. IsFiniteSet(A) /\ Cardinality(A) <= HowMany(s) + 1
  <2> DEFINE D == DrawingIn(s)
             n == Len(s) + 1
  <2>1. IsFiniteSet(D) /\ HowMany(s) = Cardinality(D) /\ Cardinality(D) \in Nat
    BY <1>1 DEF HowMany
  <2> HIDE DEF D, n
  <2>2. /\ IsFiniteSet(D \cup {n})
        /\ Cardinality(D \cup {n}) = IF n \in D THEN Cardinality(D) ELSE Cardinality(D) + 1
    BY <2>1, FS_AddElement
  <2>3. Cardinality(D \cup {n}) <= Cardinality(D) + 1
    BY <2>1, <2>2
  <2>4. QED
    BY <2>1, <2>2, <2>3 DEF D, n
<1> HIDE DEF A
<1>5. HowMany(t) <= Cardinality(A) /\ HowMany(t) \in Nat
  BY <1>2, <1>3, <1>4, FS_Subset, Positions DEF HowMany
<1>6. Cardinality(A) \in Nat
  BY <1>4, FS_CardinalityType
<1>7. QED
  BY <1>1, <1>4, <1>5, <1>6 DEF t

\* A request that goes on is as many as before.
LEMMA AsMany ==
  ASSUME NEW s \in Seq(Asked), NEW i \in DOMAIN s, NEW q, q.kind = s[i].kind
  PROVE  HowMany([s EXCEPT ![i] = q]) = HowMany(s)
<1> DEFINE t == [s EXCEPT ![i] = q]
<1>1. DOMAIN t = DOMAIN s /\ \A j \in DOMAIN s : t[j] = IF j = i THEN q ELSE s[j]
  OBVIOUS
<1> HIDE DEF t
<1>2. DrawingIn(t) = DrawingIn(s)
  BY <1>1 DEF DrawingIn
<1>3. QED
  BY <1>2 DEF HowMany, t

\* Runs that drew their tab do not come to have not.
LEMMA DrewStays ==
  ASSUME IsFiniteSet(Drew(own)), NEW runs, NEW r \in Runs,
         \A s \in Runs : s # r => runs[s].at = own[s].at,
         own[r].at \in {"rereading", "over"} => runs[r].at \in {"rereading", "over"}
  PROVE  /\ IsFiniteSet(Drew(runs))
         /\ Cardinality(Drew(own)) \in Nat /\ Cardinality(Drew(runs)) \in Nat
         /\ Cardinality(Drew(own)) <= Cardinality(Drew(runs))
         /\ r \in Drew(runs) \ Drew(own) => Cardinality(Drew(runs)) = Cardinality(Drew(own)) + 1
<1> DEFINE A == Drew(own)
           B == Drew(runs)
<1>1. B = A \/ (B = A \cup {r} /\ r \notin A)
  <2>1. A \subseteq B
    BY DEF Drew
  <2>2. B \subseteq A \cup {r}
    BY DEF Drew
  <2> HIDE DEF A, B
  <2>3. QED
    BY <2>1, <2>2
<1> HIDE DEF A, B
<1>2. IsFiniteSet(A) /\ Cardinality(A) \in Nat
  BY FS_CardinalityType DEF A
<1>3. IsFiniteSet(A \cup {r}) /\ Cardinality(A \cup {r}) = IF r \in A THEN Cardinality(A) ELSE Cardinality(A) + 1
  BY <1>2, FS_AddElement
<1>4. CASE B = A
  BY <1>2, <1>4 DEF A, B
<1>5. CASE B = A \cup {r} /\ r \notin A
  <2>1. IsFiniteSet(B) /\ Cardinality(B) = Cardinality(A) + 1
    BY <1>3, <1>5
  <2>2. Cardinality(B) \in Nat /\ Cardinality(A) <= Cardinality(B)
    BY <1>2, <2>1
  <2>3. QED
    BY <1>2, <2>1, <2>2 DEF A, B
<1>6. QED
  BY <1>1, <1>4, <1>5

LEMMA DrewSame ==
  ASSUME NEW runs, \A s \in Runs : runs[s].at = own[s].at
  PROVE  Drew(runs) = Drew(own)
BY DEF Drew

\* An answer takes a request away and may be followed by one timer.
LEMMA OneForOne ==
  ASSUME asked \in Seq(Asked), NEW i \in DOMAIN asked, NEW next,
         next = <<>> \/ (asked[i].kind \in Drawing /\ \E q \in Asked : next = <<q>>)
  PROVE  HowMany(RemoveAt(asked, i) \o next) <= HowMany(asked)
<1> DEFINE t == RemoveAt(asked, i)
<1>1. /\ t \in Seq(Asked)
      /\ HowMany(t) <= IF asked[i].kind \in Drawing THEN HowMany(asked) - 1 ELSE HowMany(asked)
  BY OneLess
<1>2. HowMany(t) \in Nat /\ HowMany(asked) \in Nat
  BY <1>1, Positions
<1> HIDE DEF t
<1>3. CASE next = <<>>
  <2>1. t \o next = t
    BY <1>1, <1>3
  <2>2. QED
    BY <1>1, <1>2, <2>1 DEF t
<1>4. ASSUME NEW q \in Asked, next = <<q>>, asked[i].kind \in Drawing
      PROVE  HowMany(RemoveAt(asked, i) \o next) <= HowMany(asked)
  <2>1. HowMany(t \o <<q>>) <= HowMany(t) + 1 /\ HowMany(t \o <<q>>) \in Nat
    <3>1. t \o <<q>> \in Seq(Asked)
      BY <1>1
    <3>2. QED
      BY <1>1, <3>1, OneMore, Positions
  <2>2. HowMany(t \o <<q>>) <= HowMany(asked)
    BY <1>1, <1>2, <1>4, <2>1
  <2>3. QED
    BY <1>4, <2>2 DEF t
<1>5. QED
  BY <1>3, <1>4

LEMMA ChainsStep == Types /\ ChainsInv /\ [Next]_vars => ChainsInv'
<1> SUFFICES ASSUME Types, ChainsInv, [Next]_vars PROVE ChainsInv'
  OBVIOUS
<1> DEFINE c == Cardinality(Drew(own))
<1>0. /\ page \in Pages /\ own \in [Runs -> OwnRuns] /\ asked \in Seq(Asked)
      /\ person \in Persons /\ person.acts \in Nat
      /\ HowMany(asked) \in Nat /\ IsFiniteSet(Drew(own)) /\ c \in Nat
      /\ HowMany(asked) <= person.acts + c
  BY Positions, FS_CardinalityType DEF Types, PageOK, Persons, ChainsInv
<1>1. HowMany(asked)' \in Nat
  <2>1. asked' \in Seq(Asked)
    BY TypesStep DEF Types
  <2>2. QED
    BY <2>1, Positions
<1>2. ASSUME \A s \in Runs : own'[s].at = own[s].at,
             HowMany(asked)' <= HowMany(asked), person'.acts = person.acts
      PROVE  ChainsInv'
  <2>1. Drew(own') = Drew(own)
    BY <1>2, DrewSame
  <2>2. QED
    BY <1>0, <1>1, <1>2, <2>1 DEF ChainsInv
<1>3. ASSUME NEW r \in Runs, \A s \in Runs : s # r => own'[s].at = own[s].at,
             own[r].at \in {"rereading", "over"} => own'[r].at \in {"rereading", "over"},
             HowMany(asked)' <= HowMany(asked), person'.acts = person.acts
      PROVE  ChainsInv'
  <2>1. IsFiniteSet(Drew(own')) /\ Cardinality(Drew(own')) \in Nat /\ c <= Cardinality(Drew(own'))
    BY <1>0, <1>3, DrewStays
  <2>2. QED
    BY <1>0, <1>1, <1>3, <2>1 DEF ChainsInv
<1>4. ASSUME own' = own \/ own' = Detached(own), NEW requests, asked' = asked \o requests,
             requests = <<>> \/ \E q \in Asked : requests = <<q>>,
             person' = [person EXCEPT !.acts = @ + 1, !.strayed = @ \/ ToBeDrawn]
      PROVE  ChainsInv'
  <2>1. \A s \in Runs : own'[s].at = own[s].at
    BY <1>0, <1>4, DetachedOK
  <2>2. Drew(own') = Drew(own)
    BY <2>1, DrewSame
  <2>3. HowMany(asked') <= HowMany(asked) + 1
    <3>1. CASE requests = <<>>
      BY <1>0, <1>4, <3>1
    <3>2. ASSUME NEW q \in Asked, requests = <<q>> PROVE HowMany(asked') <= HowMany(asked) + 1
      BY <1>0, <1>4, <3>2, OneMore
    <3>3. QED
      BY <1>4, <3>1, <3>2
  <2>4. person'.acts = person.acts + 1
    BY <1>0, <1>4 DEF Persons
  <2>5. QED
    BY <1>0, <1>1, <2>2, <2>3, <2>4 DEF ChainsInv
<1>5. CASE UNCHANGED vars
  BY <1>0, <1>5, <1>2 DEF vars
<1>6. ASSUME NEW tab \in Tabs, SwitchTab(tab) PROVE ChainsInv'
  <2> DEFINE requests == IF tab = "files" THEN <<>> ELSE <<Ask("load", tab, None, None)>>
  <2>1. requests = <<>> \/ \E q \in Asked : requests = <<q>>
    <3>1. tab # "files" => tab \in RunTabNames
      BY DEF Tabs
    <3>2. tab # "files" => Ask("load", tab, None, None) \in Asked
      BY <1>0, <3>1, AskOK
    <3>3. QED
      BY <3>2
  <2>2. /\ asked' = asked \o requests /\ own' = Detached(own)
        /\ person' = [person EXCEPT !.acts = @ + 1, !.strayed = @ \/ ToBeDrawn]
    BY <1>6 DEF SwitchTab, Choose
  <2> HIDE DEF requests
  <2>3. QED
    BY <1>4, <2>1, <2>2
<1>7. ASSUME NEW inv \in Invs, SelectInventory(inv) PROVE ChainsInv'
  <2> DEFINE q == [Ask("select", "none", None, None) EXCEPT !.inv = inv]
  <2>1. /\ asked' = asked \o <<q>> /\ own' = own
        /\ person' = [person EXCEPT !.acts = @ + 1, !.strayed = @ \/ ToBeDrawn]
    BY <1>7 DEF SelectInventory, Choose
  <2>2. q \in Asked
    BY <1>0, AskSelectOK
  <2> HIDE DEF q
  <2>3. QED
    BY <1>4, <2>1, <2>2
<1>8. ASSUME NEW r \in Runs, OnServer(r) PROVE ChainsInv'
  <2>1. UNCHANGED <<own, asked, person>>
    BY <1>8 DEF OnServer, Start, Emit, End, Break, StartElsewhere
  <2>2. QED
    BY <1>0, <1>2, <2>1
<1>9. ASSUME NEW r \in Runs, Press(r) \/ Accepted(r) \/ Receive(r) PROVE ChainsInv'
  <2>1. UNCHANGED <<asked, person>>
    BY <1>9 DEF Press, Accepted, Receive
  <2>2. /\ \A s \in Runs : s # r => own'[s].at = own[s].at
        /\ own[r].at \in {"rereading", "over"} => own'[r].at \in {"rereading", "over"}
    BY <1>0, <1>9 DEF Press, Accepted, Receive, OwnRuns
  <2>3. QED
    BY <1>0, <1>3, <2>1, <2>2
<1>10. ASSUME NEW r \in Runs, Refused(r) PROVE ChainsInv'
  <2>1. own' = Conclude(r, "refused") /\ UNCHANGED <<asked, person>>
    BY <1>10 DEF Refused
  <2>2. \A s \in Runs : own'[s].at = IF s = r THEN "over" ELSE own[s].at
    BY <1>0, <2>1, ConcludeOK DEF Verdicts
  <2>3. QED
    BY <1>0, <1>3, <2>1, <2>2
<1>11. ASSUME NEW r \in Runs, StreamIsOver(r), ~Handlers[ButtonOf[r]].rereads PROVE ChainsInv'
  <2>1. own' = Conclude(r, Verdict(ButtonOf[r])) /\ UNCHANGED <<asked, person>>
    BY <1>11 DEF StreamIsOver
  <2>2. \A s \in Runs : own'[s].at = IF s = r THEN "over" ELSE own[s].at
    BY <1>0, <2>1, JudgedOK
  <2>3. QED
    BY <1>0, <1>3, <2>1, <2>2
<1>12. ASSUME NEW r \in Runs, StreamIsOver(r), Handlers[ButtonOf[r]].rereads PROVE ChainsInv'
  <2> DEFINE q == Ask("reread", TabOf(ButtonOf[r]), None, r)
  <2>1. /\ own[r].at = "reading" /\ own' = [own EXCEPT ![r].at = "rereading"]
        /\ asked' = Append(asked, q) /\ person' = person
    BY <1>12 DEF StreamIsOver
  <2>2. q \in Asked
    <3>1. TabOf(ButtonOf[r]) \in RunTabNames
      BY TabOfButton DEF Buttons
    <3>2. QED
      BY <1>0, <3>1, AskOK
  <2> HIDE DEF q
  <2>3. HowMany(asked') <= HowMany(asked) + 1
    <3>1. asked' = asked \o <<q>>
      BY <1>0, <2>1, <2>2
    <3>2. QED
      BY <1>0, <2>2, <3>1, OneMore
  <2>4. /\ \A s \in Runs : s # r => own'[s].at = own[s].at
        /\ own'[r].at = "rereading"
    BY <1>0, <2>1 DEF OwnRuns
  <2>5. r \in Drew(own') \ Drew(own)
    BY <1>12, <2>1, <2>4 DEF Drew
  <2>6. IsFiniteSet(Drew(own')) /\ Cardinality(Drew(own')) = c + 1
    BY <1>0, <2>4, <2>5, DrewStays
  <2>7. QED
    BY <1>0, <1>1, <2>1, <2>3, <2>6 DEF ChainsInv
<1>13. ASSUME NEW i \in DOMAIN asked, NEW p, NEW runs, NEW next, Heard(i, p, runs, next),
              next = <<>> \/ (asked[i].kind \in Drawing /\ \E q \in Asked : next = <<q>>)
       PROVE  own' = runs /\ HowMany(asked)' <= HowMany(asked) /\ person' = person
  <2>1. asked' = RemoveAt(asked, i) \o next /\ own' = runs /\ person' = person
    BY <1>13 DEF Heard
  <2>2. QED
    BY <1>0, <1>13, <2>1, OneForOne
<1>14. ASSUME NEW i \in DOMAIN asked, Fire(i) PROVE ChainsInv'
  <2> DEFINE q == Ask("poll", asked[i].tab, asked[i].snap, None)
  <2>1. /\ \/ asked' = [asked EXCEPT ![i] = q]
           \/ asked' = RemoveAt(asked, i)
        /\ own' = own /\ person' = person
    BY <1>14 DEF Fire
  <2>2. asked[i].kind = "poll"
    BY <1>0, <1>14, RequestsAreAsked DEF Fire, Asked, IsRequest
  <2>3. q.kind = asked[i].kind
    BY <2>2 DEF Ask
  <2> HIDE DEF q
  <2>4. HowMany([asked EXCEPT ![i] = q]) = HowMany(asked)
    BY <1>0, <2>3, AsMany
  <2>5. HowMany(RemoveAt(asked, i)) <= HowMany(asked)
    <3>1. HowMany(RemoveAt(asked, i)) <= HowMany(asked) - 1 /\ RemoveAt(asked, i) \in Seq(Asked)
      BY <1>0, <2>2, OneLess DEF Drawing
    <3>2. QED
      BY <1>0, <3>1, Positions
  <2>6. HowMany(asked)' <= HowMany(asked)
    <3>1. CASE asked' = [asked EXCEPT ![i] = q]
      <4>1. HowMany(asked)' = HowMany([asked EXCEPT ![i] = q]) /\ HowMany(asked) \in Nat
        BY <1>0, <3>1, Positions
      <4>2. QED
        BY <2>4, <4>1
    <3>2. CASE asked' = RemoveAt(asked, i)
      <4>1. HowMany(asked)' = HowMany(RemoveAt(asked, i))
        BY <3>2
      <4>2. QED
        BY <2>5, <4>1
    <3>3. QED
      BY <2>1, <3>1, <3>2
  <2>7. QED
    BY <1>2, <2>1, <2>6
<1>15. ASSUME NEW i \in DOMAIN asked, Serve(i) PROVE ChainsInv'
  <2>1. asked' = [asked EXCEPT ![i] = AnswerTo(asked[i])] /\ own' = own /\ person' = person
    BY <1>0, <1>15, ServeAnswers DEF Serve
  <2>2. AnswerTo(asked[i]).kind = asked[i].kind
    BY <1>0, <1>15, AnswerOK, RequestsAreAsked DEF Serve, Types
  <2>3. HowMany(asked') = HowMany(asked)
    BY <1>0, <2>1, <2>2, AsMany
  <2>4. QED
    BY <1>0, <1>2, <2>1, <2>3
<1>16. ASSUME NEW i \in DOMAIN asked, asked[i].at = "answered", asked[i].kind \in Drawing
       PROVE  LET q == asked[i]
                  polls == PollsOf(q.tab, q.plan)
                  snap == Snapshot(q.tab, q.plan)
                  again == IF snap.running # {} THEN <<Timer(q.tab, snap)>> ELSE <<>> IN
              /\ polls = <<>> \/ \E t \in Asked : polls = <<t>>
              /\ again = <<>> \/ \E t \in Asked : again = <<t>>
  <2>1. asked[i].tab \in RunTabNames /\ asked[i].plan \in PlansOf(asked[i].tab)
    BY <1>0, <1>16, RequestsAreAsked DEF Asked, IsRequest, Drawing
  <2>2. Timer(asked[i].tab, Snapshot(asked[i].tab, asked[i].plan)) \in Asked
    BY <2>1, PollsOK
  <2>3. QED
    BY <2>2 DEF PollsOf
<1>17. ASSUME NEW i \in DOMAIN asked, LoadTab(i) PROVE ChainsInv'
  <2> DEFINE p == RenderTab(page, asked[i].tab, asked[i].plan)
             next == PollsOf(asked[i].tab, asked[i].plan)
  <2>1. Heard(i, p, Detached(own), next) /\ asked[i].at = "answered" /\ asked[i].kind \in Drawing
    BY <1>17 DEF LoadTab, Answered, Drawing
  <2>2. next = <<>> \/ \E t \in Asked : next = <<t>>
    BY <1>16, <2>1
  <2> HIDE DEF p, next
  <2>3. own' = Detached(own) /\ HowMany(asked)' <= HowMany(asked) /\ person' = person
    BY <1>13, <2>1, <2>2
  <2>4. QED
    BY <1>0, <1>2, <2>3, DetachedOK
<1>18. ASSUME NEW i \in DOMAIN asked, PollTab(i) PROVE ChainsInv'
  <2> DEFINE q == asked[i]
             snap == Snapshot(q.tab, q.plan)
             drawn == RenderTab(page, q.tab, q.plan)
             polls == PollsOf(q.tab, q.plan)
             again == IF snap.running # {} THEN <<Timer(q.tab, snap)>> ELSE <<>>
  <2>1. /\ Heard(i, drawn, Detached(own), polls) \/ Heard(i, page, own, again)
        /\ asked[i].at = "answered" /\ asked[i].kind \in Drawing
    BY <1>18 DEF PollTab, Answered, Drawing
  <2>2. /\ polls = <<>> \/ \E t \in Asked : polls = <<t>>
        /\ again = <<>> \/ \E t \in Asked : again = <<t>>
    BY <1>16, <2>1
  <2> HIDE DEF drawn, polls, again
  <2>3. /\ own' = own \/ own' = Detached(own)
        /\ HowMany(asked)' <= HowMany(asked) /\ person' = person
    BY <1>13, <2>1, <2>2
  <2>4. \A s \in Runs : own'[s].at = own[s].at
    BY <1>0, <2>3, DetachedOK
  <2>5. QED
    BY <1>2, <2>3, <2>4
<1>19. ASSUME NEW i \in DOMAIN asked, RereadTab(i) PROVE ChainsInv'
  <2> DEFINE r == asked[i].run
             p == RenderTab(page, asked[i].tab, asked[i].plan)
             runs == Detached(Conclude(r, Verdict(ButtonOf[r])))
             next == PollsOf(asked[i].tab, asked[i].plan)
  <2>1. Heard(i, p, runs, next) /\ asked[i].at = "answered" /\ asked[i].kind \in Drawing
    BY <1>19 DEF RereadTab, Answered, Drawing
  <2>2. next = <<>> \/ \E t \in Asked : next = <<t>>
    BY <1>16, <2>1
  <2>3. r \in Runs
    BY <1>0, <1>19, RequestsAreAsked DEF RereadTab, Answered, Asked, IsRequest
  <2>4. \A s \in Runs : runs[s].at = IF s = r THEN "over" ELSE own[s].at
    BY <1>0, <2>3, JudgedOK
  <2> HIDE DEF p, runs, next
  <2>5. own' = runs /\ HowMany(asked)' <= HowMany(asked) /\ person' = person
    BY <1>13, <2>1, <2>2
  <2> HIDE DEF r
  <2>6. QED
    BY <1>3, <2>3, <2>4, <2>5
<1>20. ASSUME NEW i \in DOMAIN asked, ShowSelection(i) PROVE ChainsInv'
  <2> DEFINE p == Draw(page, NoRuns("none"))
  <2>1. Heard(i, p, Detached(own), <<>>)
    BY <1>20 DEF ShowSelection
  <2> HIDE DEF p
  <2>2. own' = Detached(own) /\ HowMany(asked)' <= HowMany(asked) /\ person' = person
    BY <1>13, <2>1
  <2>3. QED
    BY <1>0, <1>2, <2>2, DetachedOK
<1>21. ASSUME NEW r \in Runs, GivenUp(r) PROVE ChainsInv'
  <2>1. \A s \in Runs : own'[s].at = IF s = r THEN "over" ELSE own[s].at
    BY <1>21, GivenUpOK
  <2>2. UNCHANGED <<asked, person>>
    BY <1>21, GivenUpOK
  <2>3. QED
    BY <1>0, <1>3, <2>1, <2>2
<1>22. ASSUME NEW i \in DOMAIN asked, RequestFails(i) PROVE ChainsInv'
  <2> DEFINE r == asked[i].run
  <2>1. /\ asked' = RemoveAt(asked, i) /\ person'.acts = person.acts
        /\ \A s \in Runs : own'[s].at = IF asked[i].kind = "reread" /\ s = r THEN "over" ELSE own[s].at
    BY <1>22, RequestFailsOK
  <2>2. HowMany(asked)' <= HowMany(asked)
    <3>1. RemoveAt(asked, i) \in Seq(Asked)
          /\ HowMany(RemoveAt(asked, i)) <= IF asked[i].kind \in Drawing THEN HowMany(asked) - 1 ELSE HowMany(asked)
      BY <1>0, <1>22, OneLess
    <3>2. HowMany(RemoveAt(asked, i)) \in Nat
      BY <3>1, Positions
    <3>3. QED
      BY <1>0, <2>1, <3>1, <3>2
  <2>3. asked[i].kind = "reread" => r \in Runs
    BY <1>0, <1>22, RequestsAreAsked DEF Asked, IsRequest
  <2> HIDE DEF r
  <2>4. CASE asked[i].kind = "reread"
    BY <1>3, <2>1, <2>2, <2>3, <2>4
  <2>5. CASE asked[i].kind # "reread"
    BY <1>2, <2>1, <2>2, <2>5
  <2>6. QED
    BY <2>4, <2>5
<1>23. QED
  BY <1>5, <1>6, <1>7, <1>8, <1>9, <1>10, <1>11, <1>12, <1>14, <1>15, <1>17, <1>18, <1>19, <1>20, <1>21,
     <1>22, StepsOfNext

\* However tabs are changed and whatever runs, there is at most one chain of
\* polls for every time that a tab was opened and for every run that drew its tab
\* at its end: a poll (pollOfflineRunning, pollInstallationRunning, ...) sets up
\* the next one only when it drew nothing, and the tab it draws sets up one.
THEOREM PollsAreBounded == Spec => []PollsDoNotMultiply
<1>1. Init => ChainsInv
  <2> SUFFICES ASSUME Init PROVE ChainsInv
    OBVIOUS
  <2>1. DrawingIn(asked) = {} /\ Drew(own) = {}
    BY DEF Init, DrawingIn, Drew
  <2>2. person.acts = 0
    BY DEF Init
  <2>3. QED
    BY <2>1, <2>2, FS_EmptySet DEF ChainsInv, HowMany
<1>2. ChainsInv => PollsDoNotMultiply
  BY DEF ChainsInv, PollsDoNotMultiply, HowMany, DrawingIn, Drawing, Drew
<1>3. QED
  BY <1>1, <1>2, ChainsStep, TypesInvariant, PTL DEF Spec

-----------------------------------------------------------------------------
(***************************************************************************)
(* The verdicts that the tabs give: they are true as long as a run has its *)
(* button to itself, and, for a failure, as long as nothing was drawn over *)
(* that button.                                                            *)
(*                                                                         *)
(* A verdict is read off a text that three writers share: the handler that *)
(* receives the output, the plans that replace it when a tab is drawn, and *)
(* the presses that empty it.  The invariant follows the text through all  *)
(* of them, the plans that are still on their way included.                *)
(***************************************************************************)

(* The invariant.                                                          *)

\* No other run of its button was ever started, here or elsewhere.
Alone(r) ==
  \A s \in Runs \ {r} : ButtonOf[s] = ButtonOf[r] => phase[s] = "new" /\ own[s].at = "idle"

OnlyOf(r, log) == \A i \in DOMAIN log : log[i][1] = r

Received(r, got) == [n \in 1..got |-> <<r, n>>]

\* Every text of the button, here, on the server or on its way, is of r.
TextsAreOf(r) ==
  /\ \A k \in Keys : k[1] = ButtonOf[r] => latest[k] \in {r, None}
  /\ OnlyOf(r, page.local[ButtonOf[r]])
  /\ \A q \in ToSet(asked) :
       q.at = "answered" /\ q.kind # "select" /\ ButtonOf[r] \in OnTab(q.tab) =>
         OnlyOf(r, q.plan.logs[ButtonOf[r]])

\* Until something is drawn, the text of r is what r has received.
TextIsWhole(r) == own[r].attached => page.local[ButtonOf[r]] = Received(r, own[r].got)

VerdictIsRight(r) ==
  /\ own[r].verdict = "success" => Passes(r)
  /\ own[r].verdict = "failure" /\ own[r].clear => ~Passes(r)

Right(r) == TextsAreOf(r) /\ TextIsWhole(r) /\ VerdictIsRight(r)

\* A run that was not accepted received nothing, and none has a verdict before
\* its handler is through.  A handler that asks for the plan again has read all.
RunsInOrder ==
  /\ \A r \in Runs :
       /\ own[r].at \in {"idle", "posted"} => own[r].got = 0
       /\ own[r].at # "over" => own[r].verdict = None
  /\ \A q \in ToSet(asked) : q.kind = "reread" => own[q.run].got = 2

VerdictInv == RunsInOrder /\ \A r \in Runs : Alone(r) => Right(r)

-----------------------------------------------------------------------------
(* Texts and verdicts.                                                     *)

\* The text of a run alone says success only if the run succeeded.
LEMMA SuccessIsTrue ==
  ASSUME page \in Pages, NEW r \in Runs, OnlyOf(r, page.local[ButtonOf[r]]),
         Verdict(ButtonOf[r]) = "success"
  PROVE  Passes(r)
<1> DEFINE log == page.local[ButtonOf[r]]
<1>1. ButtonOf[r] \in Buttons
  BY DEF Buttons
<1>2. log \in Seq(Pieces)
  BY <1>1 DEF Pages, Log
<1>3. IF Handlers[ButtonOf[r]].by = "words" THEN SaysPassed(log) ELSE ParseExitCode(log)
  BY DEF Verdict
<1> HIDE DEF log
<1>4. log # <<>> => Last(log) = log[Len(log)] /\ Len(log) \in DOMAIN log
  BY <1>2, EmptySeq, LenProperties DEF Last
<1>5. \A i \in DOMAIN log : log[i][1] = r
  BY DEF OnlyOf, log
<1>6. SaysPassed(log) => r \in Says
  BY <1>5 DEF SaysPassed
<1>7. ParseExitCode(log) => r \in Succeeds
  BY <1>4, <1>5 DEF ParseExitCode
<1>8. QED
  BY <1>3, <1>6, <1>7 DEF Passes

\* The whole text of a run that succeeded says so.
LEMMA FailureIsTrue ==
  ASSUME NEW r \in Runs, page.local[ButtonOf[r]] = Received(r, 2), Verdict(ButtonOf[r]) = "failure"
  PROVE  ~Passes(r)
<1> DEFINE log == page.local[ButtonOf[r]]
<1>1. log = <<<<r, 1>>, <<r, 2>>>>
  BY DEF Received
<1>2. log # <<>> /\ Last(log)[1] = r /\ Last(log)[2] = 2 /\ 1 \in DOMAIN log /\ log[1][1] = r /\ log[1][2] = 1
  <2>1. Len(log) = 2 /\ log[2] = <<r, 2>> /\ log[1] = <<r, 1>> /\ 1 \in DOMAIN log
    BY <1>1
  <2>2. Last(log) = log[2] /\ log # <<>>
    BY <2>1 DEF Last
  <2> HIDE DEF log
  <2>3. QED
    BY <2>1, <2>2
<1>3. IF Handlers[ButtonOf[r]].by = "words" THEN ~SaysPassed(log) ELSE ~ParseExitCode(log)
  BY DEF Verdict
<1> HIDE DEF log
<1>4. r \in Says => SaysPassed(log)
  BY <1>2 DEF SaysPassed
<1>5. r \in Succeeds => ParseExitCode(log)
  BY <1>2 DEF ParseExitCode
<1>6. QED
  BY <1>3, <1>4, <1>5 DEF Passes

\* One more piece.
LEMMA ReceivedOneMore ==
  ASSUME NEW r \in Runs, NEW got \in Nat
  PROVE  Append(Received(r, got), <<r, got + 1>>) = Received(r, got + 1)
<1>1. Received(r, got) \in Seq(Runs \X Nat) /\ Len(Received(r, got)) = got
  BY DEF Received
<1>2. Received(r, got + 1) \in Seq(Runs \X Nat) /\ Len(Received(r, got + 1)) = got + 1
  BY DEF Received
<1> DEFINE more == Append(Received(r, got), <<r, got + 1>>)
<1>3. /\ more \in Seq(Runs \X Nat) /\ Len(more) = got + 1
      /\ \A i \in 1..got : more[i] = Received(r, got)[i]
      /\ more[got + 1] = <<r, got + 1>>
  BY <1>1
<1> HIDE DEF more
<1>4. \A i \in 1..(got + 1) : more[i] = Received(r, got + 1)[i]
  BY <1>3 DEF Received
<1>5. more = Received(r, got + 1)
  BY <1>2, <1>3, <1>4, SeqEqual
<1>6. QED
  BY <1>5 DEF more

LEMMA OnlyOfOneMore ==
  ASSUME NEW r \in Runs, NEW log \in Seq(Pieces), OnlyOf(r, log), NEW n \in {1, 2}
  PROVE  OnlyOf(r, Append(log, <<r, n>>))
<1> DEFINE piece == <<r, n>>
<1>1. piece \in Pieces /\ piece[1] = r
  BY DEF Pieces
<1> HIDE DEF piece
<1>2. /\ DOMAIN Append(log, piece) = 1..(Len(log) + 1) /\ Len(log) \in Nat /\ DOMAIN log = 1..Len(log)
      /\ \A i \in 1..Len(log) : Append(log, piece)[i] = log[i]
      /\ Append(log, piece)[Len(log) + 1] = piece
  BY <1>1
<1>3. \A i \in 1..(Len(log) + 1) : i \in 1..Len(log) \/ i = Len(log) + 1
  BY <1>2
<1>4. OnlyOf(r, Append(log, piece))
  BY <1>1, <1>2, <1>3 DEF OnlyOf
<1>5. QED
  BY <1>4 DEF piece

\* The log of a button that only r ran is r's.
LEMMA LogIsOf ==
  ASSUME NEW r \in Runs, NEW inv \in Invs,
         \A k \in Keys : k[1] = ButtonOf[r] => latest[k] \in {r, None}
  PROVE  OnlyOf(r, LogOf(ButtonOf[r], inv))
<1> DEFINE k == Key(ButtonOf[r], inv)
<1>1. k[1] = ButtonOf[r]
  BY DEF Key
<1> HIDE DEF k
<1>2. LogOf(ButtonOf[r], inv) = IF k \in Keys /\ latest[k] # None THEN Output(latest[k]) ELSE <<>>
  BY DEF LogOf, k
<1>3. OnlyOf(r, Output(r)) /\ OnlyOf(r, <<>>)
  BY DEF OnlyOf, Output
<1>4. QED
  BY <1>1, <1>2, <1>3

\* What else becomes of the runs.
LEMMA DetachedFields ==
  ASSUME NEW runs \in [Runs -> OwnRuns], NEW s \in Runs
  PROVE  /\ ~Detached(runs)[s].attached
         /\ Detached(runs)[s].got = runs[s].got /\ Detached(runs)[s].verdict = runs[s].verdict
         /\ Detached(runs)[s].clear = runs[s].clear
<1>1. \A o \in OwnRuns : LET d == [o EXCEPT !.attached = FALSE] IN
        d.attached = FALSE /\ d.got = o.got /\ d.verdict = o.verdict /\ d.clear = o.clear
  BY Zenon DEF OwnRuns
<1>2. Detached(runs)[s] = [runs[s] EXCEPT !.attached = FALSE] /\ runs[s] \in OwnRuns
  BY DEF Detached
<1>3. QED
  BY Zenon, <1>1, <1>2

LEMMA ConcludeFields ==
  ASSUME own \in [Runs -> OwnRuns], NEW r \in Runs, NEW v \in Verdicts
  PROVE  /\ \A s \in Runs : s # r => Conclude(r, v)[s] = own[s]
         /\ Conclude(r, v)[r].got = own[r].got /\ Conclude(r, v)[r].attached = own[r].attached
         /\ Conclude(r, v)[r].verdict = v /\ Conclude(r, v)[r].clear = own[r].attached
<1> DEFINE o == [own[r] EXCEPT !.at = "over", !.verdict = v, !.clear = own[r].attached]
<1>1. \A e \in OwnRuns, w \in Verdicts, c \in BOOLEAN :
        /\ [e EXCEPT !.at = "over", !.verdict = w, !.clear = c].got = e.got
        /\ [e EXCEPT !.at = "over", !.verdict = w, !.clear = c].attached = e.attached
        /\ [e EXCEPT !.at = "over", !.verdict = w, !.clear = c].verdict = w
        /\ [e EXCEPT !.at = "over", !.verdict = w, !.clear = c].clear = c
  BY Zenon DEF OwnRuns
<1>2. own[r] \in OwnRuns /\ own[r].attached \in BOOLEAN
  BY DEF OwnRuns
<1>3. o.got = own[r].got /\ o.attached = own[r].attached /\ o.verdict = v /\ o.clear = own[r].attached
  BY <1>1, <1>2
<1>4. Conclude(r, v) = [own EXCEPT ![r] = o]
  BY DEF Conclude
<1> HIDE DEF o
<1>5. Conclude(r, v)[r] = o /\ \A s \in Runs : s # r => Conclude(r, v)[s] = own[s]
  BY <1>4
<1>6. QED
  BY Zenon, <1>3, <1>5

\* What a step makes of the run of a handler.
LEMMA OwnStep ==
  ASSUME Types, [Next]_vars
  PROVE  \/ own' = own
         \/ own' = Detached(own)
         \/ \E r \in Runs : Press(r) \/ Receive(r)
         \/ \E r \in Runs : Accepted(r) /\ own' = [own EXCEPT ![r].at = "reading"]
         \/ \E r \in Runs : own[r].at = "reading" /\ own[r].got = 2 /\ own' = [own EXCEPT ![r].at = "rereading"]
         \/ \E r \in Runs, v \in Verdicts : own' = Conclude(r, v) \/ own' = Detached(Conclude(r, v))
<1> DEFINE Goal ==
         \/ own' = own
         \/ own' = Detached(own)
         \/ \E r \in Runs : Press(r) \/ Receive(r)
         \/ \E r \in Runs : Accepted(r) /\ own' = [own EXCEPT ![r].at = "reading"]
         \/ \E r \in Runs : own[r].at = "reading" /\ own[r].got = 2 /\ own' = [own EXCEPT ![r].at = "rereading"]
         \/ \E r \in Runs, v \in Verdicts : own' = Conclude(r, v) \/ own' = Detached(Conclude(r, v))
<1>0. asked \in Seq(Asked)
  BY DEF Types
<1>1. UNCHANGED vars => own' = own
  BY DEF vars
<1>2. \A tab \in Tabs : SwitchTab(tab) => own' = Detached(own)
  BY DEF SwitchTab
<1>3. \A inv \in Invs : SelectInventory(inv) => own' = own
  BY DEF SelectInventory
<1>4. \A r \in Runs : OnServer(r) => own' = own
  BY DEF OnServer, Start, Emit, End, Break, StartElsewhere
<1>5. \A r \in Runs : Accepted(r) => own' = [own EXCEPT ![r].at = "reading"]
  BY DEF Accepted
<1>6. \A r \in Runs : Refused(r) => own' = Conclude(r, "refused") /\ "refused" \in Verdicts
  BY DEF Refused, Verdicts
<1>7. \A r \in Runs : StreamIsOver(r) =>
        \/ own[r].at = "reading" /\ own[r].got = 2 /\ own' = [own EXCEPT ![r].at = "rereading"]
        \/ own' = Conclude(r, Verdict(ButtonOf[r])) /\ Verdict(ButtonOf[r]) \in Verdicts
  BY VerdictOK DEF StreamIsOver, Verdicts
<1>8. \A r \in Runs : GivenUp(r) => own' = Conclude(r, "error") /\ "error" \in Verdicts
  BY GivenUpOK DEF Verdicts
<1>9. \A i \in DOMAIN asked : Fire(i) \/ Serve(i) \/ LoadTab(i) \/ PollTab(i) \/ ShowSelection(i) =>
        own' = own \/ own' = Detached(own)
  BY DEF Fire, Serve, LoadTab, PollTab, ShowSelection, Heard
<1>10. ASSUME NEW i \in DOMAIN asked, RereadTab(i)
       PROVE  \E r \in Runs, v \in Verdicts : own' = Detached(Conclude(r, v))
  <2>1. asked[i].run \in Runs
    BY <1>0, <1>10, RequestsAreAsked DEF RereadTab, Answered, Asked, IsRequest
  <2>2. own' = Detached(Conclude(asked[i].run, Verdict(ButtonOf[asked[i].run])))
    BY <1>10 DEF RereadTab, Heard
  <2>3. Verdict(ButtonOf[asked[i].run]) \in Verdicts
    BY VerdictOK DEF Verdicts
  <2>4. QED
    BY Zenon, <2>1, <2>2, <2>3
<1>11. \A i \in DOMAIN asked : RequestFails(i) =>
         own' = own \/ own' = Detached(own) \/ (\E r \in Runs : own' = Conclude(r, "error") /\ "error" \in Verdicts)
  BY RequestFailsOK DEF Verdicts
<1>12. \A r \in Runs, v \in Verdicts : own' = Conclude(r, v) \/ own' = Detached(Conclude(r, v)) => Goal
  OBVIOUS
<1>13. own' = own \/ own' = Detached(own) \/ (\E r \in Runs : Press(r) \/ Receive(r)) => Goal
  OBVIOUS
<1>14. ASSUME NEW r \in Runs, Accepted(r) \/ Refused(r) \/ StreamIsOver(r) \/ GivenUp(r) PROVE Goal
  <2>1. CASE Accepted(r)
    BY <1>5, <2>1
  <2>2. CASE StreamIsOver(r)
    <3>1. CASE own[r].at = "reading" /\ own[r].got = 2 /\ own' = [own EXCEPT ![r].at = "rereading"]
      BY <3>1
    <3> HIDE DEF Goal
    <3>2. QED
      BY <1>7, <1>12, <2>2, <3>1
  <2> HIDE DEF Goal
  <2>3. QED
    BY <1>6, <1>8, <1>12, <1>14, <2>1, <2>2
<1> HIDE DEF Goal
<1>15. ASSUME NEW i \in DOMAIN asked, RereadTab(i) PROVE Goal
  BY <1>10, <1>12, <1>15
<1>16. ASSUME NEW i \in DOMAIN asked, RequestFails(i) PROVE Goal
  BY <1>11, <1>12, <1>13, <1>16
<1>17. Goal
  <2>1. ASSUME NEW r \in Runs, OnServer(r) \/ Press(r) \/ Receive(r) PROVE Goal
    BY <1>4, <1>13, <2>1
  <2>2. ASSUME NEW i \in DOMAIN asked,
               Fire(i) \/ Serve(i) \/ LoadTab(i) \/ PollTab(i) \/ RereadTab(i) \/ ShowSelection(i) \/ RequestFails(i)
        PROVE  Goal
    BY <1>9, <1>13, <1>15, <1>16, <2>2
  <2>3. (\E tab \in Tabs : SwitchTab(tab)) \/ (\E inv \in Invs : SelectInventory(inv)) => Goal
    BY <1>2, <1>3, <1>13
  <2>4. CASE Next
    BY Zenon, <1>14, <2>1, <2>2, <2>3, <2>4, StepsOfNext
  <2>5. QED
    BY <1>1, <1>13, <2>4
<1>18. QED
  BY <1>17 DEF Goal

\* The runs whose plan is asked for again were waiting for that, or have come
\* to their end with this step.
LEMMA RereadsStep ==
  ASSUME Types, [Next]_vars, NEW q \in ToSet(asked'), q.kind = "reread"
  PROVE  (\E e \in ToSet(asked) : e.kind = "reread" /\ e.run = q.run) \/ own[q.run].got = 2
<1>0. asked \in Seq(Asked) /\ ServerOK /\ page \in Pages
  BY DEF Types, PageOK
<1>1. CASE q \in ToSet(asked)
  BY <1>1
\* A request that is new asks for something else, unless a stream is over.
<1>2. ASSUME NEW a \in Asked, q \in ToSet(asked) \cup {a}, a.kind = "reread" => own[a.run].got = 2
      PROVE  (\E e \in ToSet(asked) : e.kind = "reread" /\ e.run = q.run) \/ own[q.run].got = 2
  BY <1>2
<1>3. ASSUME NEW a \in Asked, NEW one, one = <<a>> PROVE ToSet(asked \o one) = ToSet(asked) \cup {a}
  <2>1. one \in Seq(Asked) /\ ToSet(one) = {a}
    BY <1>3 DEF ToSet
  <2>2. QED
    BY <1>0, <2>1, ConcatElements
<1>4. CASE UNCHANGED asked
  BY <1>1, <1>4
<1>5. ASSUME NEW tab \in Tabs, SwitchTab(tab), ~UNCHANGED asked
      PROVE  (\E e \in ToSet(asked) : e.kind = "reread" /\ e.run = q.run) \/ own[q.run].got = 2
  <2> DEFINE a == Ask("load", tab, None, None)
  <2>1. CASE tab = "files"
    <3>1. asked' = asked \o <<>>
      BY <1>5, <2>1 DEF SwitchTab, Choose
    <3>2. QED
      BY <1>0, <1>5, <3>1, ConcatEmptySeq
  <2>2. CASE tab # "files"
    <3>1. tab \in RunTabNames
      BY <2>2 DEF Tabs
    <3>2. a \in Asked /\ a.kind = "load"
      <4>1. a \in Asked
        BY <1>0, <3>1, AskOK
      <4>2. QED
        BY <4>1 DEF Ask
    <3>3. asked' = asked \o <<a>>
      BY <1>5, <2>2 DEF SwitchTab, Choose
    <3> HIDE DEF a
    <3>4. ToSet(asked') = ToSet(asked) \cup {a}
      BY <1>3, <3>2, <3>3
    <3>5. QED
      BY <1>2, <3>2, <3>4
  <2>3. QED
    BY <2>1, <2>2
<1>6. ASSUME NEW inv \in Invs, SelectInventory(inv)
      PROVE  (\E e \in ToSet(asked) : e.kind = "reread" /\ e.run = q.run) \/ own[q.run].got = 2
  <2> DEFINE a == [Ask("select", "none", None, None) EXCEPT !.inv = inv]
  <2>1. a \in Asked /\ a.kind = "select"
    BY <1>0, AskSelectOK
  <2>2. asked' = asked \o <<a>>
    BY <1>6 DEF SelectInventory, Choose
  <2> HIDE DEF a
  <2>3. ToSet(asked') = ToSet(asked) \cup {a}
    BY <1>3, <2>1, <2>2
  <2>4. QED
    BY <1>2, <2>1, <2>3
<1>7. ASSUME NEW r \in Runs, StreamIsOver(r), ~UNCHANGED asked
      PROVE  (\E e \in ToSet(asked) : e.kind = "reread" /\ e.run = q.run) \/ own[q.run].got = 2
  <2> DEFINE tab == TabOf(ButtonOf[r])
             a == Ask("reread", tab, None, r)
  <2>1. a \in Asked
    <3>1. tab \in RunTabNames
      BY TabOfButton DEF Buttons
    <3> HIDE DEF tab
    <3>2. r \in Runs \cup {None} /\ None \in Snapshots \cup {None}
      OBVIOUS
    <3>3. QED
      BY <1>0, <3>1, <3>2, AskOK
  <2>2. a.run = r
    BY DEF Ask
  <2>3. asked' = Append(asked, a) /\ own[r].got = 2
    BY <1>7 DEF StreamIsOver
  <2> HIDE DEF a
  <2>4. asked' = asked \o <<a>>
    BY <1>0, <2>1, <2>3, AppendIsConcat
  <2>5. ToSet(asked') = ToSet(asked) \cup {a}
    BY <1>3, <2>1, <2>4
  <2>6. QED
    BY <1>2, <2>1, <2>2, <2>3, <2>5
<1>8. ASSUME NEW i \in DOMAIN asked, Fire(i)
      PROVE  (\E e \in ToSet(asked) : e.kind = "reread" /\ e.run = q.run) \/ own[q.run].got = 2
  <2> DEFINE a == Ask("poll", asked[i].tab, asked[i].snap, None)
  <2>1. a.kind = "poll"
    BY DEF Ask
  <2>2. a \in Asked
    <3>1. asked[i].tab \in RunTabNames /\ asked[i].snap \in Snapshots \cup {None}
      BY <1>0, <1>8, RequestsAreAsked DEF Fire, Asked, IsRequest
    <3>2. \A tab \in RunTabNames, snap \in Snapshots \cup {None} : Ask("poll", tab, snap, None) \in Asked
      BY <1>0, AskOK
    <3>3. QED
      BY <3>1, <3>2
  <2>3. asked' = [asked EXCEPT ![i] = a] \/ asked' = RemoveAt(asked, i)
    BY <1>8 DEF Fire
  <2> HIDE DEF a
  <2>4. CASE asked' = RemoveAt(asked, i)
    BY <1>0, <1>1, <1>8, <2>4, RemovedElements
  <2>5. CASE asked' = [asked EXCEPT ![i] = a]
    <3>1. ToSet([asked EXCEPT ![i] = a]) \subseteq ToSet(asked) \cup {a}
      BY <1>0, <1>8, <2>2, ReplacedElements
    <3>2. QED
      BY <1>2, <2>1, <2>2, <2>5, <3>1
  <2>6. QED
    BY <2>3, <2>4, <2>5
<1>9. ASSUME NEW i \in DOMAIN asked, Serve(i)
      PROVE  (\E e \in ToSet(asked) : e.kind = "reread" /\ e.run = q.run) \/ own[q.run].got = 2
  <2> DEFINE a == AnswerTo(asked[i])
  <2>1. asked[i] \in Asked /\ asked[i] \in ToSet(asked) /\ asked[i].at = "sent"
    BY <1>0, <1>9, RequestsAreAsked DEF Serve
  <2>2. a \in Asked /\ a.kind = asked[i].kind
    BY <1>0, <2>1, AnswerOK
  <2>3. a.run = asked[i].run
    BY <2>1 DEF AnswerTo, Asked
  <2>4. asked' = [asked EXCEPT ![i] = a]
    BY <1>0, <1>9, ServeAnswers
  <2> HIDE DEF a
  <2>5. q \in ToSet(asked) \cup {a}
    BY <1>0, <1>9, <2>2, <2>4, ReplacedElements
  <2>6. QED
    BY <2>1, <2>2, <2>3, <2>5
<1>10. ASSUME NEW i \in DOMAIN asked, NEW p, NEW runs, NEW next \in Seq(Asked), Heard(i, p, runs, next),
              \A e \in ToSet(next) : e.at = "timer"
       PROVE  (\E e \in ToSet(asked) : e.kind = "reread" /\ e.run = q.run) \/ own[q.run].got = 2
  <2>1. asked' = RemoveAt(asked, i) \o next
    BY <1>10 DEF Heard
  <2>2. RemoveAt(asked, i) \in Seq(Asked) /\ ToSet(RemoveAt(asked, i)) \subseteq ToSet(asked)
    BY <1>0, <1>10, RemovedElements
  <2>3. ToSet(asked') = ToSet(RemoveAt(asked, i)) \cup ToSet(next)
    BY <1>10, <2>1, <2>2, ConcatElements
  <2>4. \A e \in ToSet(next) : e \in Asked
    BY <1>10 DEF ToSet
  <2>5. \A e \in ToSet(next) : e.kind = "poll"
    BY <1>10, <2>4 DEF Asked, IsRequest
  <2>6. QED
    BY <1>1, <2>2, <2>3, <2>5
<1>11. ASSUME NEW i \in DOMAIN asked, LoadTab(i) \/ PollTab(i) \/ RereadTab(i) \/ ShowSelection(i)
       PROVE  (\E e \in ToSet(asked) : e.kind = "reread" /\ e.run = q.run) \/ own[q.run].got = 2
  <2> DEFINE polls == PollsOf(asked[i].tab, asked[i].plan)
             timer == Timer(asked[i].tab, Snapshot(asked[i].tab, asked[i].plan))
  <2>1. <<>> \in Seq(Asked) /\ ToSet(<<>>) = {}
    BY DEF ToSet
  <2>2. CASE ShowSelection(i)
    BY <1>10, <2>1, <2>2 DEF ShowSelection
  <2>3. ASSUME ~ShowSelection(i)
        PROVE  /\ polls \in Seq(Asked) /\ \A e \in ToSet(polls) : e.at = "timer"
               /\ <<timer>> \in Seq(Asked) /\ \A e \in ToSet(<<timer>>) : e.at = "timer"
    <3>1. asked[i] \in Asked /\ asked[i].at = "answered" /\ asked[i].kind # "select"
      BY <1>0, <1>11, <2>3, RequestsAreAsked DEF LoadTab, PollTab, RereadTab, Answered
    <3>2. asked[i].tab \in RunTabNames /\ asked[i].plan \in PlansOf(asked[i].tab)
      BY <3>1 DEF Asked, IsRequest
    <3>3. QED
      BY <3>2, PollsOK
  <2>4. ~ShowSelection(i) =>
          \E p, runs : Heard(i, p, runs, polls) \/ Heard(i, p, runs, <<timer>>) \/ Heard(i, p, runs, <<>>)
    <3> DEFINE snap == Snapshot(asked[i].tab, asked[i].plan)
               drawn == RenderTab(page, asked[i].tab, asked[i].plan)
               judged == Detached(Conclude(asked[i].run, Verdict(ButtonOf[asked[i].run])))
    <3>1. LoadTab(i) => Heard(i, drawn, Detached(own), polls)
      BY DEF LoadTab
    <3>2. PollTab(i) => \/ Heard(i, drawn, Detached(own), polls)
                        \/ Heard(i, page, own, IF snap.running # {} THEN <<timer>> ELSE <<>>)
      BY DEF PollTab
    <3>3. RereadTab(i) => Heard(i, drawn, judged, polls)
      BY DEF RereadTab
    <3> HIDE DEF drawn, judged, polls, timer
    <3>4. CASE snap.running = {}
      BY <1>11, <3>1, <3>2, <3>3, <3>4
    <3>5. CASE snap.running # {}
      BY <1>11, <3>1, <3>2, <3>3, <3>5
    <3>6. QED
      BY <3>4, <3>5
  <2> HIDE DEF polls, timer
  <2>5. QED
    BY <1>10, <2>1, <2>2, <2>3, <2>4
<1>12. ASSUME NEW i \in DOMAIN asked, RequestFails(i)
       PROVE  (\E e \in ToSet(asked) : e.kind = "reread" /\ e.run = q.run) \/ own[q.run].got = 2
  <2>1. asked' = RemoveAt(asked, i)
    BY <1>12, RequestFailsOK
  <2>2. QED
    BY <1>0, <1>1, <1>12, <2>1, RemovedElements
<1>13. /\ UNCHANGED vars => UNCHANGED asked
       /\ \A r \in Runs : OnServer(r) \/ Press(r) \/ Accepted(r) \/ Refused(r) \/ Receive(r) => UNCHANGED asked
       /\ \A r \in Runs : GivenUp(r) => UNCHANGED asked
  <2>1. \A r \in Runs : GivenUp(r) => UNCHANGED asked
    BY GivenUpOK
  <2>2. QED
    BY <2>1 DEF vars, OnServer, Start, Emit, End, Break, StartElsewhere, Press, Accepted, Refused, Receive
<1>14. QED
  BY Zenon, <1>4, <1>5, <1>6, <1>7, <1>8, <1>9, <1>11, <1>12, <1>13, StepsOfNext

LEMMA OrderStep == Types /\ RunsInOrder /\ [Next]_vars => RunsInOrder'
<1> SUFFICES ASSUME Types, RunsInOrder, [Next]_vars PROVE RunsInOrder'
  OBVIOUS
<1>0. printed \in [Runs -> 0..2] /\ own \in [Runs -> OwnRuns] /\ asked \in Seq(Asked)
  BY DEF Types, ServerOK
<1> DEFINE InOrder(o) == (o.at \in {"idle", "posted"} => o.got = 0) /\ (o.at # "over" => o.verdict = None)
\* What a step makes of one run.
<1>1. ASSUME NEW s \in Runs PROVE InOrder(own'[s]) /\ (own[s].got = 2 => own'[s].got = 2)
  <2>0. InOrder(own[s])
    BY DEF RunsInOrder
  <2>1. CASE own' = own
    BY <2>0, <2>1
  <2>2. CASE own' = Detached(own)
    BY <1>0, <2>0, <2>2, DetachedOK, DetachedFields
  <2>3. ASSUME NEW r \in Runs, Press(r) \/ Receive(r)
        PROVE  InOrder(own'[s]) /\ (own[s].got = 2 => own'[s].got = 2)
    <3>1. CASE Press(r)
      BY <1>0, <2>0, <3>1 DEF Press, OwnRuns
    <3>2. CASE Receive(r)
      <4>1. /\ own[r].at = "reading" /\ own[r].got < printed[r] /\ own[r].got \in 0..2 /\ printed[r] \in 0..2
            /\ own' = [own EXCEPT ![r].got = own[r].got + 1]
        BY <1>0, <3>2 DEF Receive, OwnRuns
      <4>2. own[r].got # 2
        BY <4>1
      <4>3. QED
        BY <1>0, <2>0, <4>1, <4>2 DEF OwnRuns
    <3>3. QED
      BY <2>3, <3>1, <3>2
  <2>4. ASSUME NEW r \in Runs, NEW at \in {"reading", "rereading"}, own[r].at # "over",
               own' = [own EXCEPT ![r].at = at]
        PROVE  InOrder(own'[s]) /\ (own[s].got = 2 => own'[s].got = 2)
    <3>1. /\ own'[s].got = own[s].got /\ own'[s].verdict = own[s].verdict
          /\ own'[s].at = IF s = r THEN at ELSE own[s].at
      BY <1>0, <2>4 DEF OwnRuns
    <3>2. QED
      BY <2>0, <2>4, <3>1
  <2>5. ASSUME NEW r \in Runs, NEW v \in Verdicts, own' = Conclude(r, v) \/ own' = Detached(Conclude(r, v))
        PROVE  InOrder(own'[s]) /\ (own[s].got = 2 => own'[s].got = 2)
    <3> DEFINE c == Conclude(r, v)
    <3>1. /\ c \in [Runs -> OwnRuns] /\ c[s].at = (IF s = r THEN "over" ELSE own[s].at)
          /\ s # r => c[s] = own[s]
          /\ c[r].got = own[r].got
      BY <1>0, ConcludeOK, ConcludeFields
    <3> HIDE DEF c
    <3>2. InOrder(c[s]) /\ c[s].got = own[s].got
      BY <2>0, <3>1
    <3>3. /\ Detached(c)[s].at = c[s].at /\ Detached(c)[s].got = c[s].got
          /\ Detached(c)[s].verdict = c[s].verdict
      BY <3>1, DetachedOK, DetachedFields
    <3>4. QED
      BY <2>5, <3>2, <3>3 DEF c
  <2>6. \A r \in Runs : Accepted(r) => own[r].at = "posted"
    BY DEF Accepted
  <2> HIDE DEF InOrder
  <2>7. QED
    BY <2>1, <2>2, <2>3, <2>4, <2>5, <2>6, OwnStep
<1>2. ASSUME NEW q \in ToSet(asked'), q.kind = "reread" PROVE own'[q.run].got = 2
  <2>1. own[q.run].got = 2
    BY <1>2, RereadsStep DEF RunsInOrder
  <2>2. q.run \in Runs
    <3>1. asked' \in Seq(Asked)
      BY TypesStep DEF Types
    <3>2. q \in Asked
      BY <1>2, <3>1 DEF ToSet
    <3>3. QED
      BY <1>2, <3>2 DEF Asked, IsRequest
  <2>3. QED
    BY <1>1, <2>1, <2>2
<1>3. QED
  BY <1>1, <1>2 DEF RunsInOrder

-----------------------------------------------------------------------------
(* Each step keeps the texts of a run that is alone.                       *)

\* What was started stays started.
LEMMA NotNewAgain ==
  ASSUME Types, [Next]_vars, NEW s \in Runs
  PROVE  /\ phase'[s] = "new" => phase[s] = "new"
         /\ own'[s].at = "idle" => own[s].at = "idle"
<1>0. phase \in [Runs -> S!Phases] /\ own \in [Runs -> OwnRuns] /\ asked \in Seq(Asked)
  BY DEF Types, ServerOK
<1>1. phase'[s] = "new" => phase[s] = "new"
  <2> DEFINE Moved == \/ UNCHANGED phase
                     \/ \E r \in Runs : S!Start(r) \/ S!End(r) \/ S!Accept(r) \/ S!Refuse(r)
  <2>1. UNCHANGED vars => Moved
    BY DEF vars, server
  <2>2. ASSUME NEW r \in Runs, OnServer(r) PROVE Moved
    BY <2>2 DEF OnServer, Start, Emit, End, Break, StartElsewhere
  <2>3. ASSUME NEW r \in Runs, Press(r) \/ Accepted(r) \/ Refused(r) \/ Receive(r) \/ StreamIsOver(r) \/ GivenUp(r)
        PROVE  Moved
    BY <2>3 DEF Press, Accepted, Refused, Receive, StreamIsOver, GivenUp, StreamIsCut, ConnectionLost, server
  <2>4. ASSUME NEW i \in DOMAIN asked,
               Fire(i) \/ Serve(i) \/ LoadTab(i) \/ PollTab(i) \/ RereadTab(i) \/ ShowSelection(i)
        PROVE  Moved
    BY <2>4 DEF Fire, Serve, LoadTab, PollTab, RereadTab, ShowSelection, Heard, server
  <2>5. ASSUME NEW i \in DOMAIN asked, RequestFails(i) PROVE Moved
    BY <2>5, RequestFailsOK DEF server
  <2>6. (\E tab \in Tabs : SwitchTab(tab)) \/ (\E inv \in Invs : SelectInventory(inv)) => Moved
    BY DEF SwitchTab, SelectInventory, Choose, server
  <2> HIDE DEF Moved
  <2>7. ASSUME Next PROVE Moved
    BY Zenon, <2>2, <2>3, <2>4, <2>5, <2>6, <2>7, StepsOfNext
  <2>8. Moved
    BY <2>1, <2>7
  <2>9. QED
    BY <1>0, <2>8 DEF Moved, S!Start, S!End, S!Accept, S!Refuse, S!Become
<1>2. own'[s].at = "idle" => own[s].at = "idle"
  <2>1. CASE own' = own \/ own' = Detached(own)
    BY <1>0, <2>1, DetachedOK
  <2>2. ASSUME NEW r \in Runs, Press(r) \/ Receive(r) PROVE own'[s].at = "idle" => own[s].at = "idle"
    <3>1. CASE Press(r)
      BY <1>0, <3>1 DEF Press, OwnRuns
    <3>2. CASE Receive(r)
      BY <1>0, <3>2 DEF Receive, OwnRuns
    <3>3. QED
      BY <2>2, <3>1, <3>2
  <2>3. ASSUME NEW r \in Runs, NEW at \in {"reading", "rereading"}, own' = [own EXCEPT ![r].at = at]
        PROVE  own'[s].at = "idle" => own[s].at = "idle"
    BY <1>0, <2>3 DEF OwnRuns
  <2>4. ASSUME NEW r \in Runs, NEW v \in Verdicts, own' = Conclude(r, v) \/ own' = Detached(Conclude(r, v))
        PROVE  own'[s].at = "idle" => own[s].at = "idle"
    <3> DEFINE c == Conclude(r, v)
    <3>1. c \in [Runs -> OwnRuns] /\ c[s].at = (IF s = r THEN "over" ELSE own[s].at)
      BY <1>0, ConcludeOK
    <3> HIDE DEF c
    <3>2. Detached(c)[s].at = c[s].at
      BY <3>1, DetachedOK
    <3>3. QED
      BY <2>4, <3>1, <3>2 DEF c
  <2>5. QED
    BY <2>1, <2>2, <2>3, <2>4, OwnStep
<1>3. QED
  BY <1>1, <1>2

\* Requests that are not answered yet hold no text.
LEMMA NewRequestsHoldNothing ==
  ASSUME Types
  PROVE  /\ \A tab \in Tabs : SwitchTab(tab) =>
              \A q \in ToSet(asked') : q.at = "answered" => q \in ToSet(asked)
         /\ \A inv \in Invs : SelectInventory(inv) =>
              \A q \in ToSet(asked') : q.at = "answered" => q \in ToSet(asked)
         /\ \A r \in Runs : StreamIsOver(r) =>
              \A q \in ToSet(asked') : q.at = "answered" => q \in ToSet(asked)
         /\ \A i \in DOMAIN asked : Fire(i) =>
              \A q \in ToSet(asked') : q.at = "answered" => q \in ToSet(asked)
<1>0. asked \in Seq(Asked) /\ page \in Pages
  BY DEF Types, PageOK
<1>1. ASSUME NEW q \in Asked, q.at # "answered", NEW one, one = <<q>>
      PROVE  \A e \in ToSet(asked \o one) : e.at = "answered" => e \in ToSet(asked)
  <2>1. one \in Seq(Asked) /\ ToSet(one) = {q}
    BY <1>1 DEF ToSet
  <2>2. ToSet(asked \o one) = ToSet(asked) \cup {q}
    BY <1>0, <2>1, ConcatElements
  <2>3. QED
    BY <1>1, <2>2
<1>2. ASSUME NEW tab \in Tabs, SwitchTab(tab)
      PROVE  \A q \in ToSet(asked') : q.at = "answered" => q \in ToSet(asked)
  <2>1. CASE tab = "files"
    <3>1. asked' = asked \o <<>>
      BY <1>2, <2>1 DEF SwitchTab, Choose
    <3>2. asked' = asked
      BY <1>0, <3>1, ConcatEmptySeq
    <3>3. QED
      BY <3>2
  <2>2. CASE tab # "files"
    <3> DEFINE q == Ask("load", tab, None, None)
    <3>1. tab \in RunTabNames
      BY <2>2 DEF Tabs
    <3>2. q \in Asked /\ q.at = "sent"
      BY <1>0, <3>1, AskOK
    <3>3. asked' = asked \o <<q>>
      BY <1>2, <2>2 DEF SwitchTab, Choose
    <3> HIDE DEF q
    <3>4. QED
      BY <1>1, <3>2, <3>3
  <2>3. QED
    BY <2>1, <2>2
<1>3. ASSUME NEW inv \in Invs, SelectInventory(inv)
      PROVE  \A q \in ToSet(asked') : q.at = "answered" => q \in ToSet(asked)
  <2> DEFINE q == [Ask("select", "none", None, None) EXCEPT !.inv = inv]
  <2>1. q \in Asked /\ q.at = "sent"
    <3>1. q \in Asked
      BY <1>0, AskSelectOK
    <3>2. QED
      BY <3>1 DEF Ask
  <2>2. asked' = asked \o <<q>>
    BY <1>3 DEF SelectInventory, Choose
  <2> HIDE DEF q
  <2>3. QED
    BY <1>1, <2>1, <2>2
<1>4. ASSUME NEW r \in Runs, StreamIsOver(r)
      PROVE  \A q \in ToSet(asked') : q.at = "answered" => q \in ToSet(asked)
  <2> DEFINE tab == TabOf(ButtonOf[r])
             q == Ask("reread", tab, None, r)
  <2>1. q \in Asked /\ q.at = "sent"
    <3>1. ButtonOf[r] \in DOMAIN Handlers
      OBVIOUS
    <3>2. tab \in RunTabNames
      BY <3>1, TabOfButton
    <3>3. page \in Pages /\ r \in Runs \cup {None} /\ None \in Snapshots \cup {None}
      BY <1>0
    <3> HIDE DEF tab
    <3>4. QED
      BY <3>2, <3>3, AskOK
  <2>2. asked' = asked \/ asked' = Append(asked, q)
    BY <1>4 DEF StreamIsOver
  <2> HIDE DEF q
  <2>3. Append(asked, q) = asked \o <<q>>
    BY <1>0, <2>1, AppendIsConcat
  <2>4. QED
    BY <1>1, <2>1, <2>2, <2>3
<1>5. ASSUME NEW i \in DOMAIN asked, Fire(i)
      PROVE  \A q \in ToSet(asked') : q.at = "answered" => q \in ToSet(asked)
  <2> DEFINE a == Ask("poll", asked[i].tab, asked[i].snap, None)
  <2>1. asked[i].tab \in RunTabNames /\ asked[i].snap \in Snapshots \cup {None}
    BY <1>0, <1>5, RequestsAreAsked DEF Fire, Asked, IsRequest
  <2>2. \A tab \in RunTabNames, snap \in Snapshots \cup {None} :
          Ask("poll", tab, snap, None) \in Asked /\ Ask("poll", tab, snap, None).at = "sent"
    BY <1>0, AskOK
  <2>3. a \in Asked /\ a.at = "sent"
    BY <2>1, <2>2
  <2>4. asked' = [asked EXCEPT ![i] = a] \/ asked' = RemoveAt(asked, i)
    BY <1>5 DEF Fire
  <2> HIDE DEF a
  <2>5. CASE asked' = [asked EXCEPT ![i] = a]
    <3>1. asked \in Seq(Asked) /\ a \in Asked
      BY <1>0, <2>3
    <3>2. ToSet([asked EXCEPT ![i] = a]) \subseteq ToSet(asked) \cup {a}
      BY <1>5, <3>1, ReplacedElements
    <3>3. QED
      BY <2>3, <2>5, <3>2
  <2>6. CASE asked' = RemoveAt(asked, i)
    BY <1>0, <2>6, RemovedElements
  <2>7. QED
    BY <2>4, <2>5, <2>6
<1>6. QED
  BY <1>2, <1>3, <1>4, <1>5

\* What a step of the page makes of the text of a button.
LEMMA LocalOf ==
  ASSUME page \in Pages, NEW b \in Buttons
  PROVE  /\ \A view : Draw(page, view).local = page.local
         /\ \A view, tab : Draw([page EXCEPT !.topTab = tab], view).local = page.local
         /\ \A r \in Runs : Freed(r).local = page.local
         /\ \A tab \in RunTabNames : \A plan \in PlansOf(tab) :
              RenderTab(page, tab, plan).local[b] =
                IF b \in OnTab(tab) /\ plan.logs[b] # <<>> THEN plan.logs[b] ELSE page.local[b]
<1>1. ASSUME NEW view PROVE Draw(page, view).local = page.local
  BY DEF Draw, Pages
<1>2. ASSUME NEW view, NEW tab PROVE Draw([page EXCEPT !.topTab = tab], view).local = page.local
  BY DEF Draw, Pages
<1>3. ASSUME NEW r \in Runs PROVE Freed(r).local = page.local
  BY DEF Freed, Pages
<1>4. ASSUME NEW tab \in RunTabNames, NEW plan \in PlansOf(tab)
      PROVE  RenderTab(page, tab, plan).local[b] =
               IF b \in OnTab(tab) /\ plan.logs[b] # <<>> THEN plan.logs[b] ELSE page.local[b]
  <2> DEFINE view == View(tab, plan.inv, plan.running)
             local == [c \in Buttons |-> IF c \in OnTab(tab) /\ plan.logs[c] # <<>> THEN plan.logs[c]
                                                                               ELSE page.local[c]]
  <2>1. page = [topTab |-> page.topTab, inventory |-> page.inventory,
                view |-> page.view, local |-> page.local]
    BY DEF Pages
  <2>2. Draw(page, view) = [topTab |-> page.topTab, inventory |-> page.inventory,
                            view |-> view, local |-> page.local]
    BY <2>1 DEF Draw
  <2>3. Draw(page, view).local = page.local
    BY <2>2
  <2>4. RenderTab(page, tab, plan) = [Draw(page, view) EXCEPT !.local = local]
    BY <2>3 DEF RenderTab
  <2>5. RenderTab(page, tab, plan).local = local
    BY <2>2, <2>4
  <2>6. QED
    BY <2>5
<1>5. QED
  BY <1>1, <1>2, <1>3, <1>4

LEMMA RightStep ==
  ASSUME Types, VerdictInv, [Next]_vars, NEW r \in Runs, Alone(r)'
  PROVE  Right(r)'
<1> DEFINE b == ButtonOf[r]
<1>0. /\ ServerOK /\ PageOK /\ page \in Pages /\ own \in [Runs -> OwnRuns]
      /\ asked \in Seq(Asked) /\ person \in Persons /\ b \in Buttons
  BY DEF Types, PageOK, Buttons
<1>1. Alone(r) /\ Right(r)
  <2>1. Alone(r)
    BY NotNewAgain DEF Alone
  <2>2. QED
    BY <2>1 DEF VerdictInv
<1>2. \A s \in Runs : ButtonOf[s] = b /\ (phase'[s] # "new" \/ own'[s].at # "idle") => s = r
  BY DEF Alone
\* Steps that touch no text: no new answer, the local text and the logs as they are.
<1>3. ASSUME latest' = latest, page'.local[b] = page.local[b],
             \A q \in ToSet(asked') : q.at = "answered" => q \in ToSet(asked)
      PROVE  TextsAreOf(r)'
  BY <1>1, <1>3 DEF Right, TextsAreOf
<1>4. ASSUME page'.local[b] = page.local[b], own'[r].got = own[r].got,
             own'[r].verdict = own[r].verdict, own'[r].clear = own[r].clear,
             own'[r].attached => own[r].attached
      PROVE  TextIsWhole(r)' /\ VerdictIsRight(r)'
  BY <1>1, <1>4 DEF Right, TextIsWhole, VerdictIsRight, Passes
\* Steps after which the button is detached.
<1>5. ASSUME ~own'[r].attached, own'[r].verdict = own[r].verdict, own'[r].clear = own[r].clear
      PROVE  TextIsWhole(r)' /\ VerdictIsRight(r)'
  BY <1>1, <1>5 DEF Right, TextIsWhole, VerdictIsRight, Passes
<1>6. /\ ~Detached(own)[r].attached /\ Detached(own)[r].got = own[r].got
      /\ Detached(own)[r].verdict = own[r].verdict /\ Detached(own)[r].clear = own[r].clear
  BY <1>0, DetachedFields
<1>7. CASE UNCHANGED vars
  BY <1>1, <1>7 DEF vars, server, Right, TextsAreOf, TextIsWhole, VerdictIsRight, Passes
<1>8. ASSUME NEW tab \in Tabs, SwitchTab(tab) PROVE Right(r)'
  <2>1. page'.local = page.local
    <3>1. page' = Draw([page EXCEPT !.topTab = tab], IF tab = "files" THEN NoRuns("files") ELSE NoRuns("none"))
      BY <1>8 DEF SwitchTab, Choose
    <3>2. QED
      BY <1>0, <3>1, LocalOf
  <2>2. latest' = latest /\ own' = Detached(own)
    BY <1>8 DEF SwitchTab, Choose, server
  <2>3. \A q \in ToSet(asked') : q.at = "answered" => q \in ToSet(asked)
    BY <1>8, NewRequestsHoldNothing
  <2>4. QED
    BY <1>3, <1>4, <1>6, <2>1, <2>2, <2>3 DEF Right
<1>9. ASSUME NEW inv \in Invs, SelectInventory(inv) PROVE Right(r)'
  <2>1. page'.local = page.local
    BY <1>0, <1>9 DEF SelectInventory, Choose, Pages
  <2>2. latest' = latest /\ own' = own
    BY <1>9 DEF SelectInventory, Choose, server
  <2>3. \A q \in ToSet(asked') : q.at = "answered" => q \in ToSet(asked)
    BY <1>9, NewRequestsHoldNothing
  <2>4. QED
    BY <1>3, <1>4, <2>1, <2>2, <2>3 DEF Right
<1>10. ASSUME NEW s \in Runs, Emit(s) \/ End(s) \/ Break(s) \/ StartElsewhere(s) PROVE Right(r)'
  <2>1. UNCHANGED <<latest, page, own, asked>>
    BY <1>10 DEF Emit, End, Break, StartElsewhere
  <2>2. QED
    BY <1>3, <1>4, <2>1 DEF Right
<1>11. ASSUME NEW s \in Runs, Start(s) PROVE Right(r)'
  <2>1. latest' = [latest EXCEPT ![KeyOf(s)] = s] /\ UNCHANGED <<page, own, asked>>
    BY <1>11 DEF Start
  <2>2. phase'[s] = "running"
    BY <1>0, <1>11 DEF Start, S!Start, S!Become, ServerOK
  <2>3. KeyOf(s)[1] = ButtonOf[s]
    BY DEF KeyOf, Key
  <2>4. ASSUME NEW k \in Keys, k[1] = b PROVE latest'[k] \in {r, None}
    <3>1. CASE k = KeyOf(s)
      <4>1. s = r
        BY <1>2, <2>2, <2>3, <2>4, <3>1
      <4>2. QED
        BY <1>0, <2>1, <2>4, <3>1, <4>1 DEF ServerOK
    <3>2. CASE k # KeyOf(s)
      BY <1>0, <1>1, <2>1, <2>4, <3>2 DEF ServerOK, Right, TextsAreOf
    <3>3. QED
      BY <3>1, <3>2
  <2>5. TextsAreOf(r)'
    BY <1>1, <2>1, <2>4 DEF Right, TextsAreOf
  <2>6. QED
    BY <1>4, <2>1, <2>5 DEF Right
<1>12. ASSUME NEW s \in Runs, Press(s) PROVE Right(r)'
  <2>1. /\ UNCHANGED <<latest, asked>> /\ own[s].at = "idle"
        /\ page' = [page EXCEPT !.local[ButtonOf[s]] = <<>>, !.view.labelled = @ \cup {ButtonOf[s]}]
        /\ own' = [own EXCEPT ![s].at = "posted", ![s].attached = TRUE]
    BY <1>12 DEF Press, server
  <2>2. ButtonOf[s] \in Buttons
    BY DEF Buttons
  <2>3. page'.local = [page.local EXCEPT ![ButtonOf[s]] = <<>>]
    BY <1>0, <2>1 DEF Pages
  <2>4. CASE s = r
    <3>1. page'.local[b] = <<>>
      BY <1>0, <2>3, <2>4 DEF Pages
    <3>2. own'[r].at = "posted" /\ own'[r].got = own[r].got /\ own'[r].verdict = own[r].verdict
      BY <1>0, <2>1, <2>4 DEF OwnRuns
    <3>3. own[r].got = 0 /\ own[r].verdict = None
      BY <2>1, <2>4 DEF VerdictInv, RunsInOrder
    <3>4. <<>> = Received(r, 0) /\ OnlyOf(r, <<>>)
      BY DEF Received, OnlyOf
    <3>5. TextsAreOf(r)'
      BY <1>1, <2>1, <3>1, <3>4 DEF Right, TextsAreOf
    <3>6. own[r].verdict \notin {"success", "failure"}
      BY <3>3, VerdictAssumption DEF Verdicts
    <3>7. QED
      BY <3>1, <3>2, <3>3, <3>4, <3>5, <3>6 DEF Right, TextIsWhole, VerdictIsRight
  <2>5. CASE s # r
    <3>1. own'[s].at = "posted"
      BY <1>0, <2>1 DEF OwnRuns
    <3>2. ButtonOf[s] # b
      BY <1>2, <2>5, <3>1
    <3>3. page'.local[b] = page.local[b] /\ own'[r] = own[r]
      BY <1>0, <2>1, <2>3, <2>5, <3>2 DEF Pages
    <3>4. QED
      BY <1>3, <1>4, <2>1, <3>3 DEF Right
  <2>6. QED
    BY <2>4, <2>5
<1>13. ASSUME NEW s \in Runs, Accepted(s) PROVE Right(r)'
  <2>1. UNCHANGED <<latest, page, asked>> /\ own' = [own EXCEPT ![s].at = "reading"] /\ own[s].at = "posted"
    BY <1>13 DEF Accepted
  <2>2. own'[r].got = own[r].got /\ own'[r].verdict = own[r].verdict /\ own'[r].attached = own[r].attached
    BY <1>0, <2>1 DEF OwnRuns
  <2>3. own'[r].clear = own[r].clear
    BY <1>0, <2>1 DEF OwnRuns
  <2>4. TextsAreOf(r)'
    BY <1>3, <2>1
  <2>5. QED
    BY <1>4, <2>1, <2>2, <2>3, <2>4 DEF Right
\* A verdict that is given to run s, while it is attached or not.
<1>14. ASSUME NEW s \in Runs, NEW v \in Verdicts, NEW runs, own' = runs,
              runs = Conclude(s, v) \/ runs = Detached(Conclude(s, v)),
              page'.local[b] = page.local[b] \/ runs = Detached(Conclude(s, v)),
              s = r /\ v = "success" => Passes(r),
              s = r /\ v = "failure" /\ own[r].attached => ~Passes(r)
       PROVE  TextIsWhole(r)' /\ VerdictIsRight(r)'
  <2> DEFINE c == Conclude(s, v)
  <2>1. c \in [Runs -> OwnRuns]
    BY <1>0, ConcludeOK
  <2>2. /\ c[r].got = own[r].got /\ c[r].attached = own[r].attached
        /\ s = r => c[r].verdict = v /\ c[r].clear = own[r].attached
        /\ s # r => c[r].verdict = own[r].verdict /\ c[r].clear = own[r].clear
    BY <1>0, ConcludeFields
  <2> HIDE DEF c
  <2>3. /\ ~Detached(c)[r].attached /\ Detached(c)[r].verdict = c[r].verdict /\ Detached(c)[r].clear = c[r].clear
    BY <2>1, DetachedFields
  <2>4. own'[r].verdict = c[r].verdict /\ own'[r].clear = c[r].clear
    BY <1>14, <2>3 DEF c
  <2>5. own[r].attached \in BOOLEAN
    BY <1>0 DEF OwnRuns
  <2>6. VerdictIsRight(r)'
    <3>1. CASE s = r
      <4>1. own'[r].verdict = v /\ own'[r].clear = own[r].attached
        BY <2>2, <2>4, <3>1
      <4>2. v = "success" => Passes(r)
        BY <1>14, <3>1
      <4>3. v = "failure" /\ own[r].attached => ~Passes(r)
        BY <1>14, <3>1
      <4> HIDE DEF Passes
      <4>4. Passes(r)' = Passes(r)
        BY DEF Passes
      <4>5. CASE own[r].attached = TRUE
        BY <4>1, <4>2, <4>3, <4>4, <4>5 DEF VerdictIsRight
      <4>6. CASE own[r].attached = FALSE
        BY <4>1, <4>2, <4>4, <4>6 DEF VerdictIsRight
      <4>7. QED
        BY <2>5, <4>5, <4>6
    <3>2. CASE s # r
      BY <1>1, <2>2, <2>4, <3>2 DEF Right, VerdictIsRight, Passes
    <3>3. QED
      BY <3>1, <3>2
  <2>7. TextIsWhole(r)'
    <3>1. CASE runs = Detached(c)
      BY <1>14, <2>3, <3>1 DEF TextIsWhole
    <3>2. CASE runs = c /\ page'.local[b] = page.local[b]
      BY <1>1, <1>14, <2>2, <3>2 DEF Right, TextIsWhole
    <3>3. QED
      BY <1>14, <3>1, <3>2 DEF c
  <2>8. QED
    BY <2>6, <2>7
<1>15. ASSUME NEW s \in Runs, Refused(s) PROVE Right(r)'
  <2>1. UNCHANGED <<latest, asked>> /\ page' = Freed(s) /\ own' = Conclude(s, "refused")
    BY <1>15 DEF Refused
  <2>2. page'.local[b] = page.local[b]
    BY <1>0, <2>1, LocalOf
  <2>3. TextIsWhole(r)' /\ VerdictIsRight(r)'
    BY <1>14, <2>1, <2>2 DEF Verdicts
  <2>4. QED
    BY <1>3, <2>1, <2>2, <2>3 DEF Right
<1>16. ASSUME NEW s \in Runs, Receive(s) PROVE Right(r)'
  <2> DEFINE piece == <<s, own[s].got + 1>>
  <2>1. /\ own[s].at = "reading" /\ own[s].got < printed[s]
        /\ own' = [own EXCEPT ![s].got = @ + 1] /\ UNCHANGED <<latest, asked>>
        /\ page' = [page EXCEPT !.local[ButtonOf[s]] = Append(@, piece)]
    BY <1>16 DEF Receive, server
  <2>2. ButtonOf[s] \in Buttons
    BY DEF Buttons
  <2> HIDE DEF piece
  <2>3. page'.local = [page.local EXCEPT ![ButtonOf[s]] = Append(page.local[ButtonOf[s]], piece)]
    BY <1>0, <2>1, <2>2 DEF Pages
  <2>4. CASE s = r
    <3>1. page'.local[b] = Append(page.local[b], piece) /\ piece = <<r, own[r].got + 1>>
      BY <1>0, <2>3, <2>4 DEF Pages, piece
    <3>2. own[r].got \in Nat /\ own[r].got + 1 \in {1, 2}
      <4>1. own[r].got \in 0..2 /\ printed[r] \in 0..2
        BY <1>0 DEF OwnRuns, ServerOK
      <4>2. own[r].got < printed[r]
        BY <2>1, <2>4
      <4>3. QED
        BY <4>1, <4>2
    <3>3. /\ own'[r].at = own[r].at /\ own'[r].got = own[r].got + 1 /\ own'[r].verdict = own[r].verdict
          /\ own'[r].attached = own[r].attached /\ own'[r].clear = own[r].clear
      BY <1>0, <2>1, <2>4 DEF OwnRuns
    <3>4. page.local[b] \in Seq(Pieces) /\ OnlyOf(r, page.local[b])
      BY <1>0, <1>1 DEF Pages, Log, Right, TextsAreOf
    <3>5. OnlyOf(r, page'.local[b])
      <4> DEFINE n == own[r].got + 1
                 log == page.local[b]
      <4>1. log \in Seq(Pieces) /\ OnlyOf(r, log) /\ n \in {1, 2} /\ page'.local[b] = Append(log, <<r, n>>)
        BY <3>1, <3>2, <3>4
      <4> HIDE DEF n, log
      <4>2. OnlyOf(r, Append(log, <<r, n>>))
        BY <4>1, OnlyOfOneMore
      <4>3. QED
        BY <4>1, <4>2
    <3>6. TextsAreOf(r)'
      BY <1>1, <2>1, <3>5 DEF Right, TextsAreOf
    <3>7. TextIsWhole(r)'
      BY <1>1, <3>1, <3>2, <3>3, ReceivedOneMore DEF Right, TextIsWhole
    <3>8. VerdictIsRight(r)'
      BY <1>1, <3>3 DEF Right, VerdictIsRight, Passes
    <3>9. QED
      BY <3>6, <3>7, <3>8 DEF Right
  <2>5. CASE s # r
    <3>1. own'[s].at = "reading"
      BY <1>0, <2>1 DEF OwnRuns
    <3>2. ButtonOf[s] # b
      BY <1>2, <2>5, <3>1
    <3>3. page'.local[b] = page.local[b] /\ own'[r] = own[r]
      BY <1>0, <2>1, <2>3, <2>5, <3>2 DEF Pages
    <3>4. QED
      BY <1>3, <1>4, <2>1, <3>3 DEF Right
  <2>6. QED
    BY <2>4, <2>5
<1>17. Verdict(b) = "success" => Passes(r)
  BY <1>0, <1>1, SuccessIsTrue DEF Right, TextsAreOf
<1>18. ASSUME NEW s \in Runs, StreamIsOver(s) PROVE Right(r)'
  <2>1. /\ own[s].at = "reading" /\ own[s].got = 2 /\ latest' = latest
    BY <1>18 DEF StreamIsOver, server
  <2>2. \A q \in ToSet(asked') : q.at = "answered" => q \in ToSet(asked)
    BY <1>18, NewRequestsHoldNothing
  <2>3. page'.local[b] = page.local[b]
    BY <1>0, <1>18, LocalOf DEF StreamIsOver
  <2>4. TextsAreOf(r)'
    BY <1>3, <2>1, <2>2, <2>3
  <2>5. CASE Handlers[ButtonOf[s]].rereads
    <3>1. own' = [own EXCEPT ![s].at = "rereading"]
      BY <1>18, <2>5 DEF StreamIsOver
    <3>2. /\ own'[r].got = own[r].got /\ own'[r].verdict = own[r].verdict
          /\ own'[r].attached = own[r].attached /\ own'[r].clear = own[r].clear
      BY <1>0, <3>1 DEF OwnRuns
    <3>3. QED
      BY <1>4, <2>3, <2>4, <3>2 DEF Right
  <2>6. CASE ~Handlers[ButtonOf[s]].rereads
    <3>1. own' = Conclude(s, Verdict(ButtonOf[s])) /\ Verdict(ButtonOf[s]) \in Verdicts
      BY <1>18, <2>6, VerdictOK DEF StreamIsOver, Verdicts
    <3>2. s = r /\ Verdict(ButtonOf[s]) = "failure" /\ own[r].attached => ~Passes(r)
      <4>1. SUFFICES ASSUME s = r, Verdict(b) = "failure", own[r].attached PROVE ~Passes(r)
        OBVIOUS
      <4>2. page.local[b] = Received(r, 2)
        BY <1>1, <2>1, <4>1 DEF Right, TextIsWhole
      <4>3. QED
        BY <4>1, <4>2, FailureIsTrue
    <3>3. s = r /\ Verdict(ButtonOf[s]) = "success" => Passes(r)
      BY <1>17
    <3>4. TextIsWhole(r)' /\ VerdictIsRight(r)'
      <4> DEFINE v == Verdict(ButtonOf[s])
      <4> HIDE DEF v
      <4>1. own' = Conclude(s, v) /\ v \in Verdicts
        BY <3>1 DEF v
      <4>2. s = r /\ v = "failure" /\ own[r].attached => ~Passes(r)
        BY <3>2 DEF v
      <4>3. s = r /\ v = "success" => Passes(r)
        BY <3>3 DEF v
      <4>4. QED
        BY <1>14, <2>3, <4>1, <4>2, <4>3
    <3>5. QED
      BY <2>4, <3>4 DEF Right
  <2>7. QED
    BY <2>5, <2>6
<1>19. ASSUME NEW i \in DOMAIN asked, Fire(i) PROVE Right(r)'
  <2>1. UNCHANGED <<latest, page, own>>
    BY <1>19 DEF Fire, server
  <2>2. \A q \in ToSet(asked') : q.at = "answered" => q \in ToSet(asked)
    BY <1>19, NewRequestsHoldNothing
  <2>3. QED
    BY <1>3, <1>4, <2>1, <2>2 DEF Right
<1>20. ASSUME NEW i \in DOMAIN asked, Serve(i) PROVE Right(r)'
  <2> DEFINE q == asked[i]
             a == AnswerTo(q)
  <2>1. UNCHANGED <<latest, page, own>> /\ q.at = "sent" /\ asked' = [asked EXCEPT ![i] = a]
    BY <1>0, <1>20, ServeAnswers DEF Serve, server
  <2>2. q \in Asked
    BY <1>0, RequestsAreAsked
  <2>3. a \in Asked /\ a.kind = q.kind /\ a.tab = q.tab
    BY <1>0, <2>1, <2>2, AnswerOK
  <2>4. ASSUME a.kind # "select", b \in OnTab(a.tab) PROVE OnlyOf(r, a.plan.logs[b])
    <3>1. q.inv \in Invs /\ q.kind # "select"
      BY <2>1, <2>2, <2>3, <2>4 DEF Asked, IsRequest
    <3>2. a.plan = Plan(q.tab, q.inv)
      BY <2>2, <3>1 DEF AnswerTo, Asked
    <3>3. a.plan.logs[b] = LogOf(b, q.inv)
      BY <2>3, <2>4, <3>2 DEF Plan
    <3>4. OnlyOf(r, LogOf(b, q.inv))
      BY <1>1, <3>1, LogIsOf DEF Right, TextsAreOf
    <3>5. QED
      BY <3>3, <3>4
  <2> HIDE DEF a
  <2>5. ToSet(asked') \subseteq ToSet(asked) \cup {a}
    BY <1>0, <2>1, <2>3, ReplacedElements
  <2>6. TextsAreOf(r)'
    BY <1>1, <2>1, <2>4, <2>5 DEF Right, TextsAreOf
  <2>7. QED
    BY <1>4, <2>1, <2>6 DEF Right
\* An answer: the text becomes that of the plan, which is r's, or stays.
<1>21. ASSUME NEW i \in DOMAIN asked, NEW p, NEW runs, NEW next \in Seq(Asked), Heard(i, p, runs, next),
              \A e \in ToSet(next) : e.at = "timer", OnlyOf(r, p.local[b])
       PROVE  TextsAreOf(r)'
  <2>1. latest' = latest /\ page' = p /\ asked' = RemoveAt(asked, i) \o next
    BY <1>21 DEF Heard, server
  <2>2. RemoveAt(asked, i) \in Seq(Asked) /\ ToSet(RemoveAt(asked, i)) \subseteq ToSet(asked)
    BY <1>0, RemovedElements
  <2>3. ToSet(asked') = ToSet(RemoveAt(asked, i)) \cup ToSet(next)
    BY <1>21, <2>1, <2>2, ConcatElements
  <2>4. \A q \in ToSet(asked') : q.at = "answered" => q \in ToSet(asked)
    BY <1>21, <2>2, <2>3
  <2>5. QED
    BY <1>1, <1>21, <2>1, <2>4 DEF Right, TextsAreOf
<1>22. ASSUME NEW i \in DOMAIN asked, LoadTab(i) \/ PollTab(i) \/ RereadTab(i) PROVE Right(r)'
  <2> DEFINE q == asked[i]
             p == RenderTab(page, q.tab, q.plan)
  <2>1. q \in Asked /\ q \in ToSet(asked) /\ q.at = "answered" /\ q.kind # "select"
    BY <1>0, <1>22, RequestsAreAsked DEF LoadTab, PollTab, RereadTab, Answered
  <2>2. /\ q.tab \in RunTabNames /\ q.plan \in PlansOf(q.tab) /\ q.plan.inv = q.inv
        /\ q.kind = "reread" => q.run \in Runs
    BY <2>1 DEF Asked, IsRequest
  <2>3. p.local[b] = IF b \in OnTab(q.tab) /\ q.plan.logs[b] # <<>> THEN q.plan.logs[b] ELSE page.local[b]
    BY <1>0, <2>2, LocalOf
  <2>4. OnlyOf(r, page.local[b]) /\ OnlyOf(r, p.local[b])
    BY <1>1, <2>1, <2>3 DEF Right, TextsAreOf
  <2>5. PollsOf(q.tab, q.plan) \in Seq(Asked) /\ \A e \in ToSet(PollsOf(q.tab, q.plan)) : e.at = "timer"
    BY <2>2, PollsOK
  <2> HIDE DEF p
  <2>7. ASSUME Heard(i, p, Detached(own), PollsOf(q.tab, q.plan)) PROVE Right(r)'
    <3>1. TextsAreOf(r)'
      BY <1>21, <2>4, <2>5, <2>7
    <3>2. own' = Detached(own)
      BY <2>7 DEF Heard
    <3>3. QED
      BY <1>5, <1>6, <3>1, <3>2 DEF Right
  <2>8. CASE LoadTab(i)
    BY <2>7, <2>8 DEF LoadTab, p
  <2>9. CASE PollTab(i)
    <3> DEFINE snap == Snapshot(q.tab, q.plan)
               again == IF snap.running # {} THEN <<Timer(q.tab, snap)>> ELSE <<>>
    <3>1. again \in Seq(Asked) /\ \A e \in ToSet(again) : e.at = "timer"
      BY <2>2, PollsOK
    <3>2. \/ Heard(i, p, Detached(own), PollsOf(q.tab, q.plan))
          \/ Heard(i, page, own, again)
      BY <2>9 DEF PollTab, p
    <3> HIDE DEF snap, again
    <3>3. CASE Heard(i, page, own, again)
      <4>1. TextsAreOf(r)'
        BY <1>21, <2>4, <3>1, <3>3
      <4>2. page' = page /\ own' = own
        BY <3>3 DEF Heard
      <4>3. QED
        BY <1>4, <4>1, <4>2 DEF Right
    <3>4. QED
      BY <2>7, <3>2, <3>3
  <2>10. CASE RereadTab(i)
    <3> DEFINE v == Verdict(ButtonOf[q.run])
               runs == Detached(Conclude(q.run, v))
    <3>1. q.run \in Runs /\ v \in Verdicts
      BY <2>2, <2>10, VerdictOK DEF RereadTab, Answered, Verdicts
    <3>2. Heard(i, p, runs, PollsOf(q.tab, q.plan))
      BY <2>10 DEF RereadTab, p
    <3>3. TextsAreOf(r)'
      BY <1>21, <2>4, <2>5, <3>2
    <3>4. q.run = r /\ v = "success" => Passes(r)
      BY <1>17
    <3>5. own' = runs
      BY <3>2 DEF Heard
    <3>8. q.run = r /\ v = "failure" /\ own[r].attached => ~Passes(r)
      <4>1. SUFFICES ASSUME q.run = r, Verdict(b) = "failure", own[r].attached PROVE ~Passes(r)
        OBVIOUS
      <4>2. own[r].got = 2
        BY <2>1, <2>10, <4>1 DEF RereadTab, Answered, VerdictInv, RunsInOrder
      <4>3. page.local[b] = Received(r, 2)
        BY <1>1, <4>1, <4>2 DEF Right, TextIsWhole
      <4>4. QED
        BY <4>1, <4>3, FailureIsTrue
    <3> HIDE DEF v
    <3>6. TextIsWhole(r)' /\ VerdictIsRight(r)'
      BY <1>14, <3>1, <3>4, <3>5, <3>8
    <3>7. QED
      BY <3>3, <3>6 DEF Right
  <2>11. QED
    BY <1>22, <2>8, <2>9, <2>10
<1>23. ASSUME NEW i \in DOMAIN asked, ShowSelection(i) PROVE Right(r)'
  <2> DEFINE p == Draw(page, NoRuns("none"))
  <2>1. Heard(i, p, Detached(own), <<>>)
    BY <1>23 DEF ShowSelection
  <2>2. p.local = page.local
    BY <1>0, LocalOf
  <2>3. <<>> \in Seq(Asked) /\ ToSet(<<>>) = {}
    BY DEF ToSet
  <2>4. page' = p /\ own' = Detached(own)
    BY <2>1 DEF Heard
  <2>5. OnlyOf(r, page.local[b])
    BY <1>1 DEF Right, TextsAreOf
  <2> HIDE DEF p
  <2>6. TextsAreOf(r)'
    BY <1>21, <2>1, <2>2, <2>3, <2>5
  <2>7. QED
    BY <1>4, <1>6, <2>2, <2>4, <2>6 DEF Right
<1>24. ASSUME NEW s \in Runs, GivenUp(s) PROVE Right(r)'
  <2>1. /\ UNCHANGED <<latest, asked>> /\ page' = Freed(s) /\ own' = Conclude(s, "error")
    BY <1>24, GivenUpOK
  <2>2. page'.local[b] = page.local[b]
    BY <1>0, <2>1, LocalOf
  <2>3. TextIsWhole(r)' /\ VerdictIsRight(r)'
    BY <1>14, <2>1, <2>2 DEF Verdicts
  <2>4. QED
    BY <1>3, <2>1, <2>2, <2>3 DEF Right
<1>25. ASSUME NEW i \in DOMAIN asked, RequestFails(i) PROVE Right(r)'
  <2>1. /\ UNCHANGED latest /\ page'.local = page.local /\ asked' = RemoveAt(asked, i)
        /\ \/ own' = own \/ own' = Detached(own)
           \/ \E s \in Runs : own' = Conclude(s, "error")
    BY <1>25, RequestFailsOK DEF server
  <2>2. TextsAreOf(r)'
    <3>1. ToSet(asked') \subseteq ToSet(asked)
      BY <1>0, <2>1, RemovedElements
    <3>2. QED
      BY <1>3, <2>1, <3>1
  <2>3. CASE own' = own \/ own' = Detached(own)
    BY <1>4, <1>6, <2>1, <2>2, <2>3 DEF Right
  <2>4. ASSUME NEW s \in Runs, own' = Conclude(s, "error") PROVE Right(r)'
    <3>1. TextIsWhole(r)' /\ VerdictIsRight(r)'
      BY <1>14, <2>1, <2>4 DEF Verdicts
    <3>2. QED
      BY <2>2, <3>1 DEF Right
  <2>5. QED
    BY <2>1, <2>3, <2>4
<1>26. ASSUME NEW s \in Runs, OnServer(s) PROVE Right(r)'
  BY <1>10, <1>11, <1>26 DEF OnServer
<1>27. CASE Next
  <2> HIDE DEF Right
  <2>1. ASSUME NEW s \in Runs, OnServer(s) \/ Press(s) \/ Accepted(s) \/ Refused(s) \/ Receive(s)
                              \/ StreamIsOver(s) \/ GivenUp(s)
        PROVE  Right(r)'
    BY Zenon, <1>12, <1>13, <1>15, <1>16, <1>18, <1>24, <1>26, <2>1
  <2>2. ASSUME NEW i \in DOMAIN asked, \/ Fire(i) \/ Serve(i) \/ LoadTab(i) \/ PollTab(i) \/ RereadTab(i)
                                       \/ ShowSelection(i) \/ RequestFails(i)
        PROVE  Right(r)'
    BY Zenon, <1>19, <1>20, <1>22, <1>23, <1>25, <2>2
  <2>3. QED
    BY Zenon, <1>8, <1>9, <1>27, <2>1, <2>2, StepsOfNext
<1>28. QED
  BY <1>7, <1>27

LEMMA VerdictInvariant == Spec => []VerdictInv
<1>1. Init => VerdictInv
  <2> SUFFICES ASSUME Init PROVE VerdictInv
    OBVIOUS
  <2>1. /\ \A r \in Runs : own[r].at = "idle" /\ own[r].got = 0 /\ own[r].verdict = None /\ ~own[r].attached
        /\ \A k \in Keys : latest[k] = None
        /\ \A r \in Runs : phase[r] = "new"
        /\ asked = <<>>
    BY DEF Init, S!Init
  <2>2. \A r \in Runs : page.local[ButtonOf[r]] = <<>>
    BY DEF Init, Buttons
  <2>3. ToSet(asked) = {} /\ \A r \in Runs : OnlyOf(r, <<>>)
    BY <2>1 DEF ToSet, OnlyOf
  <2>4. \A r \in Runs : own[r].verdict \notin {"success", "failure"}
    BY <2>1, VerdictAssumption DEF Verdicts
  <2>5. QED
    BY <2>1, <2>2, <2>3, <2>4 DEF VerdictInv, RunsInOrder, Right, TextsAreOf, TextIsWhole, VerdictIsRight
<1>2. Types /\ VerdictInv /\ [Next]_vars => VerdictInv'
  <2> SUFFICES ASSUME Types, VerdictInv, [Next]_vars PROVE VerdictInv'
    OBVIOUS
  <2>1. RunsInOrder'
    BY OrderStep DEF VerdictInv
  <2>2. \A r \in Runs : Alone(r)' => Right(r)'
    BY RightStep
  <2>3. QED
    BY <2>1, <2>2 DEF VerdictInv
<1>3. QED
  BY <1>1, <1>2, TypesInvariant, PTL DEF Spec

\* A run that has its button to itself is never said to have succeeded unless
\* what its handler goes by, the exit code or the words of success, says so; and
\* it is never said to have failed against that while its button was still on
\* the screen, be it that the plan is asked for again before it is judged.
THEOREM VerdictsOfLoneRuns == Spec => []VerdictOfALoneRun
<1>1. VerdictInv => VerdictOfALoneRun
  BY DEF VerdictInv, Alone, Right, VerdictIsRight, VerdictOfALoneRun
<1>2. QED
  BY <1>1, VerdictInvariant, PTL

=============================================================================
