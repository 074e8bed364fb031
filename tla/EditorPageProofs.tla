--------------------------- MODULE EditorPageProofs ---------------------------
(***************************************************************************)
(* Theorems about the editor page, for any inventories, files, variables   *)
(* and values, any number of things that a person does, and any number of  *)
(* requests awaited at once.                                               *)
(*                                                                         *)
(* The address that a save goes to changes with a click, the form below it *)
(* when the answer is heard.  What keeps the two together, as long as the  *)
(* page is used as it expects, is that the last load on its way is the one *)
(* that the selection asked for, and that answers come in order: that is   *)
(* the invariant Agree.  The lemmas before it say what the handlers do to  *)
(* the parts of the page and to the list of requests that are awaited.     *)
(***************************************************************************)
EXTENDS EditorPage, SequenceFacts

-----------------------------------------------------------------------------
(* Lists of requests, whatever they are.                                   *)

IsList(s) == s \in Seq(ToSet(s))

LEMMA ListOf ==
  ASSUME NEW S, NEW s \in Seq(S)
  PROVE  /\ IsList(s) /\ Len(s) \in Nat /\ DOMAIN s = 1..Len(s)
<1>1. Len(s) \in Nat /\ DOMAIN s = 1..Len(s)
  BY LenProperties
<1>2. \A i \in 1..Len(s) : s[i] \in ToSet(s)
  BY <1>1 DEF ToSet
<1>3. s = [i \in 1..Len(s) |-> s[i]]
  OBVIOUS
<1>4. s \in [1..Len(s) -> ToSet(s)]
  BY <1>2, <1>3
<1>5. QED
  BY <1>1, <1>4, SeqDef DEF IsList

LEMMA ListPositions ==
  ASSUME NEW s, IsList(s)
  PROVE  Len(s) \in Nat /\ DOMAIN s = 1..Len(s) /\ s \o <<>> = s
BY ListOf DEF IsList

LEMMA ListJoined ==
  ASSUME NEW s, IsList(s), NEW q
  PROVE  LET t == s \o <<q>> IN
         /\ IsList(t) /\ DOMAIN t = 1..(Len(s) + 1)
         /\ \A i \in 1..Len(s) : t[i] = s[i]
         /\ t[Len(s) + 1] = q
<1> DEFINE S == ToSet(s) \cup {q}
           one == <<q>>
<1>1. s \in Seq(S)
  <2>1. s \in Seq(ToSet(s)) /\ ToSet(s) \subseteq S
    BY DEF IsList
  <2> HIDE DEF S
  <2>2. QED
    BY <2>1
<1>2. one \in Seq(S) /\ Len(one) = 1 /\ one[1] = q
  OBVIOUS
<1>3. Len(s) \in Nat
  BY ListPositions
<1> HIDE DEF S, one
<1>4. /\ s \o one \in Seq(S) /\ Len(s \o one) = Len(s) + Len(one)
      /\ \A i \in 1..(Len(s) + Len(one)) :
           (s \o one)[i] = IF i <= Len(s) THEN s[i] ELSE one[i - Len(s)]
  BY <1>1, <1>2, ConcatProperties
<1>5. IsList(s \o one) /\ DOMAIN (s \o one) = 1..(Len(s) + 1)
  BY <1>2, <1>4, ListOf
<1>6. /\ \A i \in 1..Len(s) : (s \o one)[i] = s[i]
      /\ (s \o one)[Len(s) + 1] = q
  BY <1>2, <1>3, <1>4
<1>7. QED
  BY <1>5, <1>6 DEF one

LEMMA ListLeft ==
  ASSUME NEW s, IsList(s), NEW i \in DOMAIN s
  PROVE  LET t == RemoveAt(s, i) IN
         /\ IsList(t) /\ DOMAIN t = 1..(Len(s) - 1)
         /\ \A j \in 1..(Len(s) - 1) : t[j] = IF j < i THEN s[j] ELSE s[j + 1]
<1>1. s \in Seq(ToSet(s)) /\ i \in 1..Len(s)
  BY ListPositions DEF IsList
<1>2. QED
  BY <1>1, RemoveAtProperties, ListOf

LEMMA ListReplaced ==
  ASSUME NEW s, IsList(s), NEW i \in DOMAIN s, NEW q
  PROVE  LET t == [s EXCEPT ![i] = q] IN
         /\ IsList(t) /\ DOMAIN t = DOMAIN s
         /\ \A j \in DOMAIN s : t[j] = IF j = i THEN q ELSE s[j]
<1> DEFINE S == ToSet(s) \cup {q}
<1>1. s \in Seq(S) /\ q \in S
  <2>1. s \in Seq(ToSet(s)) /\ ToSet(s) \subseteq S
    BY DEF IsList
  <2> HIDE DEF S
  <2>2. s \in Seq(S)
    BY <2>1
  <2>3. QED
    BY <2>2 DEF S
<1> HIDE DEF S
<1>2. [s EXCEPT ![i] = q] \in Seq(S)
  BY <1>1, ReplacedElements
<1>3. QED
  BY <1>2, ListOf

-----------------------------------------------------------------------------
(* The invariant.                                                          *)

PageFields ==
  {"topTab", "options", "inventory", "currentPath", "entries", "pending", "rawMode", "hosts",
   "hostsRaw", "hostsMode", "hostsDirty", "opsArg", "opsMode", "opsFields", "view", "text"}

IsEdit(e) == e = [x \in {"val", "inv", "path", "gone"} |-> e[x]] /\ e.gone \in BOOLEAN

IsPage(p) ==
  /\ p = [x \in PageFields |-> p[x]]
  /\ p.topTab \in {"files", "ops"} /\ p.currentPath \in Paths /\ p.hostsDirty \in BOOLEAN
  /\ IsEdit(p.hosts) /\ IsEdit(p.hostsRaw) /\ IsEdit(p.text)
  /\ \A k \in DOMAIN p.pending : IsEdit(p.pending[k])

Saves == {"save", "saveHosts", "raw"}

\* An answer is of what was asked for; a raw save has none.
IsRequest(q) ==
  /\ q = [x \in {"op", "inv", "path", "body", "then", "status", "answer"} |-> q[x]]
  /\ q.op \in Loads \cup Saves \cup {"create", "delete"}
  /\ q.op \in {"hosts", "saveHosts"} => q.path = HOSTS_VIEW
  /\ q.status = "answered" =>
       /\ q.op # "raw"
       /\ q.op \in {"file", "save"} => q.path \in Files /\ q.answer.inv = q.inv /\ q.answer.path = q.path
       /\ q.op \in {"hosts", "saveHosts"} => q.answer = Read(q.inv, HOSTS_VIEW, q.answer.val)

PersonFields == {"may", "acts", "losses", "agreed", "kept", "rushed", "strayed", "ordered", "missed"}

IsPerson(x) ==
  /\ x = [f \in PersonFields |-> x[f]]
  /\ {x.agreed, x.kept, x.rushed, x.strayed, x.ordered, x.missed} \subseteq BOOLEAN

Shape ==
  /\ IsPage(page) /\ IsPerson(person)
  /\ IsList(inFlight) /\ \A i \in DOMAIN inFlight : IsRequest(inFlight[i])

\* e was read from or typed for path in inv, and is not one that was discarded.
Mine(e, inv, path, kept) == e.inv = inv /\ e.path = path /\ (~kept => ~e.gone)

\* The three places an edit can be in: the edits of a form, the hosts, and the
\* text area; each belongs to the selection.
PendingIsMine(p, kept) ==
  p.currentPath \in Files =>
    \A k \in DOMAIN p.pending : Mine(p.pending[k], p.inventory, p.currentPath, kept)

LoadedIsMine(p, kept) ==
  /\ p.currentPath \in Files => p.entries.inv = p.inventory /\ p.entries.path = p.currentPath
  /\ p.currentPath = HOSTS_VIEW =>
       Mine(p.hosts, p.inventory, HOSTS_VIEW, kept) /\ Mine(p.hostsRaw, p.inventory, HOSTS_VIEW, kept)

DrawnIsMine(p, kept) ==
  /\ p.view \in {"file", "fileRaw"} => p.currentPath \in Files
  /\ p.view \in {"hosts", "hostsRaw"} => p.currentPath = HOSTS_VIEW
  /\ p.view = "hostsRaw" => Mine(p.text, p.inventory, HOSTS_VIEW, kept)

\* The tab of the operations shows them.
OpsIsDrawn(p) == p.topTab = "ops" => p.view = "ops"

NothingLoads(s) == \A i \in DOMAIN s : s[i].op \notin Loads

\* What may be on its way while the tab of the operations is open.
OfAnyTab == {"list", "files", "ops", "create", "delete"}

\* q loads what is selected.
AskedFor(p, q) ==
  /\ q.op # "ops"
  /\ q.op = "file" => q.inv = p.inventory /\ q.path = p.currentPath
  /\ q.op = "hosts" => q.inv = p.inventory /\ p.currentPath = HOSTS_VIEW
  /\ q.op = "files" => p.currentPath = None

\* What holds while loads are on their way: a save is the oldest request, and
\* sends edits of the file it is addressed to.
Underway(p, s, kept) ==
  /\ PendingIsMine(p, kept)
  /\ p.topTab = "ops" => LoadedIsMine(p, kept) /\ \A i \in DOMAIN s : s[i].op \in OfAnyTab
  /\ p.topTab = "files" => \A i \in DOMAIN s : s[i].op # "ops"
  /\ \A i \in DOMAIN s : s[i].op \in Saves => i = 1
  /\ \A i \in DOMAIN s : \A k \in DOMAIN s[i].body : Mine(s[i].body[k], s[i].inv, s[i].path, kept)

\* With nothing to load the page is of the selection, and so is a save;
\* otherwise the last load is of the selection.
Settles(p, s, kept) ==
  /\ NothingLoads(s) =>
       /\ LoadedIsMine(p, kept) /\ DrawnIsMine(p, kept) /\ OpsIsDrawn(p)
       /\ \A i \in DOMAIN s :
            s[i].op \in {"save", "saveHosts"} => s[i].inv = p.inventory /\ s[i].path = p.currentPath
  /\ p.topTab = "files" =>
       \A i \in DOMAIN s :
         s[i].op \in Loads /\ (\A j \in DOMAIN s : j > i => s[j].op \notin Loads) => AskedFor(p, s[i])

Agree(p, s, kept) == Underway(p, s, kept) /\ Settles(p, s, kept)

AgreeInv == AsExpected => Agree(page, inFlight, person.kept)

-----------------------------------------------------------------------------
(* How the list of requests can change under it.                           *)

SameSelection(p, s) ==
  s.topTab = p.topTab /\ s.inventory = p.inventory /\ s.currentPath = p.currentPath

LEMMA NothingAwaited ==
  ASSUME NEW p, NEW kept
  PROVE  /\ Agree(p, <<>>, kept) =>
              /\ PendingIsMine(p, kept) /\ LoadedIsMine(p, kept)
              /\ DrawnIsMine(p, kept) /\ OpsIsDrawn(p)
         /\ (/\ PendingIsMine(p, kept) /\ LoadedIsMine(p, kept)
             /\ DrawnIsMine(p, kept) /\ OpsIsDrawn(p)) => Agree(p, <<>>, kept)
BY DEF Agree, Underway, Settles, NothingLoads

LEMMA UnderwayStill ==
  ASSUME NEW p, NEW r, NEW s, NEW kept, Underway(p, s, kept), r.topTab = p.topTab,
         PendingIsMine(r, kept), r.topTab = "ops" => LoadedIsMine(r, kept)
  PROVE  Underway(r, s, kept)
BY DEF Underway

LEMMA Redrawn ==
  ASSUME NEW p, NEW r, NEW s, NEW kept, Agree(p, s, kept), SameSelection(p, r),
         PendingIsMine(r, kept), LoadedIsMine(p, kept) => LoadedIsMine(r, kept),
         LoadedIsMine(p, kept) /\ DrawnIsMine(p, kept) => DrawnIsMine(r, kept),
         OpsIsDrawn(p) => OpsIsDrawn(r)
  PROVE  Agree(r, s, kept)
BY DEF Agree, Underway, Settles, SameSelection, AskedFor

LEMMA JoinedUnderway ==
  ASSUME NEW p, NEW s, IsList(s), NEW kept, NEW q, Underway(p, s, kept),
         q.op \notin Saves, DOMAIN q.body = {},
         p.topTab = "ops" => q.op \in OfAnyTab, p.topTab = "files" => q.op # "ops"
  PROVE  Underway(p, s \o <<q>>, kept)
<1> DEFINE t == s \o <<q>>
<1>1. /\ DOMAIN s = 1..Len(s) /\ Len(s) \in Nat /\ DOMAIN t = 1..(Len(s) + 1)
      /\ \A i \in 1..Len(s) : t[i] = s[i]
      /\ t[Len(s) + 1] = q
  BY ListPositions, ListJoined
<1> HIDE DEF t
<1>2. \A i \in DOMAIN t : (i \in DOMAIN s /\ t[i] = s[i]) \/ t[i] = q
  BY <1>1
<1>3. QED
  BY <1>2 DEF Underway, t

LEMMA JoinedByLoad ==
  ASSUME NEW p, NEW s, IsList(s), NEW kept, NEW q, Underway(p, s, kept),
         q.op \in Loads, DOMAIN q.body = {},
         p.topTab = "ops" => q.op \in OfAnyTab, p.topTab = "files" => AskedFor(p, q)
  PROVE  Agree(p, s \o <<q>>, kept)
<1> DEFINE t == s \o <<q>>
<1>1. /\ DOMAIN s = 1..Len(s) /\ Len(s) \in Nat /\ DOMAIN t = 1..(Len(s) + 1)
      /\ \A i \in 1..Len(s) : t[i] = s[i]
      /\ t[Len(s) + 1] = q
  BY ListPositions, ListJoined
<1>2. Underway(p, t, kept)
  BY JoinedUnderway DEF AskedFor, Loads, Saves
<1> HIDE DEF t
<1>3. ~NothingLoads(t)
  BY <1>1 DEF NothingLoads
<1>4. \A i \in DOMAIN t : (\A j \in DOMAIN t : j > i => t[j].op \notin Loads) => t[i] = q
  BY <1>1
<1>5. Settles(p, t, kept)
  BY <1>3, <1>4 DEF Settles
<1>6. QED
  BY <1>2, <1>5 DEF Agree, t

LEMMA JoinedByOther ==
  ASSUME NEW p, NEW s, IsList(s), NEW kept, NEW q, Agree(p, s, kept),
         q.op \in {"create", "delete"}, DOMAIN q.body = {}
  PROVE  Agree(p, s \o <<q>>, kept)
<1> DEFINE t == s \o <<q>>
<1>1. /\ DOMAIN s = 1..Len(s) /\ Len(s) \in Nat /\ DOMAIN t = 1..(Len(s) + 1)
      /\ \A i \in 1..Len(s) : t[i] = s[i]
      /\ t[Len(s) + 1] = q
  BY ListPositions, ListJoined
<1>2. Underway(p, t, kept)
  BY JoinedUnderway DEF Agree, Saves, OfAnyTab
<1> HIDE DEF t
<1>3. \A i \in DOMAIN t : (i \in DOMAIN s /\ t[i] = s[i]) \/ (t[i] = q /\ q.op \notin Loads \cup Saves)
  BY <1>1 DEF Loads, Saves
<1>4. \A i \in DOMAIN s : i \in DOMAIN t /\ t[i] = s[i]
  BY <1>1
<1>5. Settles(p, t, kept)
  <2>1. NothingLoads(t) => NothingLoads(s)
    BY <1>4 DEF NothingLoads
  <2>2. \A i \in DOMAIN t : t[i].op \in {"save", "saveHosts"} => i \in DOMAIN s /\ t[i] = s[i]
    BY <1>3 DEF Saves
  <2>3. ASSUME NEW i \in DOMAIN t, t[i].op \in Loads, \A j \in DOMAIN t : j > i => t[j].op \notin Loads
        PROVE  /\ i \in DOMAIN s /\ t[i] = s[i]
               /\ \A j \in DOMAIN s : j > i => s[j].op \notin Loads
    BY <2>3, <1>3, <1>4
  <2>4. QED
    BY <2>1, <2>2, <2>3 DEF Agree, Settles
<1>6. QED
  BY <1>2, <1>5 DEF Agree, t

LEMMA JoinedBySave ==
  ASSUME NEW p, NEW kept, NEW q, p.topTab = "files",
         PendingIsMine(p, kept), LoadedIsMine(p, kept), DrawnIsMine(p, kept),
         q.op \in Saves, q.inv = p.inventory, q.path = p.currentPath,
         \A k \in DOMAIN q.body : Mine(q.body[k], q.inv, q.path, kept)
  PROVE  Agree(p, <<>> \o <<q>>, kept)
<1> DEFINE t == <<>> \o <<q>>
<1>1. DOMAIN t = {1} /\ t[1] = q
  OBVIOUS
<1> HIDE DEF t
<1>2. q.op \notin Loads
  BY DEF Loads, Saves
<1>3. Underway(p, t, kept)
  BY <1>1, <1>2 DEF Underway, Loads
<1>4. Settles(p, t, kept)
  BY <1>1, <1>2 DEF Settles, OpsIsDrawn
<1>5. QED
  BY <1>3, <1>4 DEF Agree, t

LEMMA LeftUnderway ==
  ASSUME NEW p, NEW s, IsList(s), NEW kept, NEW i \in DOMAIN s, Underway(p, s, kept)
  PROVE  Underway(p, RemoveAt(s, i), kept)
<1> DEFINE t == RemoveAt(s, i)
<1>1. /\ DOMAIN s = 1..Len(s) /\ Len(s) \in Nat /\ DOMAIN t = 1..(Len(s) - 1)
      /\ \A j \in 1..(Len(s) - 1) : t[j] = IF j < i THEN s[j] ELSE s[j + 1]
  BY ListPositions, ListLeft
<1> HIDE DEF t
<1>2. \A j \in DOMAIN t : \E m \in DOMAIN s : t[j] = s[m] /\ m >= j
  <2> SUFFICES ASSUME NEW j \in DOMAIN t PROVE \E m \in DOMAIN s : t[j] = s[m] /\ m >= j
    OBVIOUS
  <2>1. CASE j < i
    BY <2>1, <1>1
  <2>2. CASE ~(j < i)
    BY <2>2, <1>1
  <2>3. QED
    BY <2>1, <2>2
<1>3. \A j \in DOMAIN t : t[j].op \in Saves => j = 1
  BY <1>1, <1>2 DEF Underway
<1>4. QED
  BY <1>2, <1>3 DEF Underway, t

\* A load is over only when it is the oldest request; what it leaves belongs to
\* the selection if no other is to come.
LEMMA Left ==
  ASSUME NEW p, NEW r, NEW s, IsList(s), NEW kept, NEW i \in DOMAIN s, Agree(p, s, kept),
         s[i].op \in Loads => i = 1,
         SameSelection(p, r), PendingIsMine(r, kept), r.topTab = "ops" => LoadedIsMine(r, kept),
         NothingLoads(RemoveAt(s, i)) =>
           LoadedIsMine(r, kept) /\ DrawnIsMine(r, kept) /\ OpsIsDrawn(r)
  PROVE  Agree(r, RemoveAt(s, i), kept)
<1> DEFINE t == RemoveAt(s, i)
           To(j) == IF j < i THEN j ELSE j + 1
<1>1. /\ DOMAIN s = 1..Len(s) /\ Len(s) \in Nat /\ DOMAIN t = 1..(Len(s) - 1)
      /\ \A j \in 1..(Len(s) - 1) : t[j] = IF j < i THEN s[j] ELSE s[j + 1]
  BY ListPositions, ListLeft
<1>2. Underway(r, t, kept)
  BY LeftUnderway, UnderwayStill DEF Agree, SameSelection
<1> HIDE DEF t
<1>3. \A j \in DOMAIN t : To(j) \in DOMAIN s /\ t[j] = s[To(j)] /\ To(j) # i
  BY <1>1
<1>4. \A m \in DOMAIN s : m # i => \E j \in DOMAIN t : m = To(j)
  <2> SUFFICES ASSUME NEW m \in DOMAIN s, m # i PROVE \E j \in DOMAIN t : m = To(j)
    OBVIOUS
  <2>1. CASE m < i
    <3>1. m \in DOMAIN t /\ To(m) = m
      BY <2>1, <1>1
    <3>2. QED
      BY <3>1
  <2>2. CASE m > i
    <3>1. m - 1 \in DOMAIN t /\ To(m - 1) = m
      BY <2>2, <1>1
    <3>2. QED
      BY <3>1
  <2>3. QED
    BY <2>1, <2>2, <1>1
<1>5. \A j, m \in DOMAIN t : m > j <=> To(m) > To(j)
  BY <1>1
<1>6. \A j \in DOMAIN t : To(j) # 1 => To(j) > 1
  BY <1>1
<1> HIDE DEF To
<1>7. ASSUME NothingLoads(t), NEW j \in DOMAIN t, t[j].op \in {"save", "saveHosts"}
      PROVE  t[j].inv = p.inventory /\ t[j].path = p.currentPath
  <2>1. To(j) = 1 /\ i # 1
    BY <1>3, <1>7 DEF Agree, Underway, Saves
  <2>2. NothingLoads(s)
    <3> SUFFICES ASSUME NEW m \in DOMAIN s, s[m].op \in Loads PROVE FALSE
      BY DEF NothingLoads
    <3>1. m # i
      BY <2>1
    <3>2. QED
      BY <3>1, <1>3, <1>4, <1>7 DEF NothingLoads
  <2>3. QED
    BY <2>2, <1>3, <1>7 DEF Agree, Settles
<1>8. ASSUME NEW j \in DOMAIN t, t[j].op \in Loads, \A m \in DOMAIN t : m > j => t[m].op \notin Loads,
             p.topTab = "files"
      PROVE  AskedFor(p, t[j])
  <2>1. ASSUME NEW m \in DOMAIN s, m > To(j) PROVE s[m].op \notin Loads
    <3>1. CASE m = i
      <4>1. i > 1
        BY <1>1, <1>3, <2>1, <3>1
      <4>2. QED
        BY <3>1, <4>1, <1>1
    <3>2. CASE m # i
      <4>1. PICK n \in DOMAIN t : m = To(n)
        BY <3>2, <1>4
      <4>2. n > j
        BY <2>1, <4>1, <1>5
      <4>3. QED
        BY <4>1, <4>2, <1>3, <1>8
    <3>3. QED
      BY <3>1, <3>2
  <2>2. QED
    BY <2>1, <1>3, <1>8 DEF Agree, Settles
<1>9. Settles(r, t, kept)
  BY <1>7, <1>8 DEF Settles, SameSelection, AskedFor, t
<1>10. QED
  BY <1>2, <1>9 DEF Agree, t

LEMMA Replaced ==
  ASSUME NEW p, NEW s, IsList(s), NEW kept, NEW i \in DOMAIN s, Agree(p, s, kept), NEW q,
         q.op = s[i].op, q.inv = s[i].inv, q.path = s[i].path, q.body = s[i].body
  PROVE  Agree(p, [s EXCEPT ![i] = q], kept)
<1> DEFINE t == [s EXCEPT ![i] = q]
<1>1. /\ DOMAIN t = DOMAIN s
      /\ \A j \in DOMAIN s : /\ t[j].op = s[j].op /\ t[j].inv = s[j].inv
                             /\ t[j].path = s[j].path /\ t[j].body = s[j].body
  BY ListReplaced
<1> HIDE DEF t
<1>2. Underway(p, t, kept)
  BY <1>1 DEF Agree, Underway
<1>3. Settles(p, t, kept)
  BY <1>1 DEF Agree, Settles, NothingLoads, AskedFor
<1>4. QED
  BY <1>2, <1>3 DEF Agree, t

-----------------------------------------------------------------------------
(* What the handlers make of a page.                                       *)

Keeps(p, r) == r.opsMode = p.opsMode /\ r.opsFields = p.opsFields

\* Only what is on the screen is another.
OnlyDrawn(p, r) ==
  /\ SameSelection(p, r) /\ Keeps(p, r)
  /\ r.entries = p.entries /\ r.pending = p.pending /\ r.hosts = p.hosts /\ r.hostsRaw = p.hostsRaw

LEMMA DrawnPage ==
  ASSUME NEW p, IsPage(p), NEW view, NEW text, IsEdit(text)
  PROVE  LET r == Draw(p, view, text) IN
         IsPage(r) /\ OnlyDrawn(p, r) /\ r.view = view /\ r.text = text
BY DEF Draw, IsPage, PageFields, OnlyDrawn, SameSelection, Keeps

LEMMA NoHostsIsEdit == IsEdit(NoHosts)
BY DEF IsEdit, NoHosts, Read

LEMMA Drawings ==
  ASSUME NEW p, IsPage(p)
  PROVE  /\ LET r == DrawEmptyState(p) IN IsPage(r) /\ OnlyDrawn(p, r) /\ r.view = "empty"
         /\ LET r == RenderOps(p) IN IsPage(r) /\ OnlyDrawn(p, r) /\ r.view = "ops"
         /\ LET r == RenderFile(p) IN IsPage(r) /\ OnlyDrawn(p, r) /\ r.view \in {"file", "fileRaw"}
         /\ LET r == RenderHosts(p) IN
            /\ IsPage(r) /\ OnlyDrawn(p, r) /\ r.view \in {"hosts", "hostsRaw"}
            /\ r.view = "hostsRaw" => r.text = p.hostsRaw
<1>1. IsEdit(p.hostsRaw)
  BY DEF IsPage
<1>2. LET r == RenderHosts(p) IN
            /\ IsPage(r) /\ OnlyDrawn(p, r) /\ r.view \in {"hosts", "hostsRaw"}
            /\ r.view = "hostsRaw" => r.text = p.hostsRaw
  <2>1. CASE p.hostsMode = "raw"
    BY <1>1, <2>1, DrawnPage DEF RenderHosts
  <2>2. CASE p.hostsMode # "raw"
    BY <2>2, NoHostsIsEdit, DrawnPage DEF RenderHosts
  <2>3. QED
    BY <2>1, <2>2
<1>3. QED
  BY <1>2, NoHostsIsEdit, DrawnPage DEF DrawEmptyState, RenderOps, RenderFile

\* What the drawing of the form or of the hosts does to Agree.
LEMMA OnlyDrawnIsMine ==
  ASSUME NEW p, NEW r, OnlyDrawn(p, r), NEW kept
  PROVE  /\ PendingIsMine(r, kept) <=> PendingIsMine(p, kept)
         /\ LoadedIsMine(r, kept) <=> LoadedIsMine(p, kept)
BY DEF OnlyDrawn, SameSelection, PendingIsMine, LoadedIsMine

LEMMA DrawnByKind ==
  ASSUME NEW p, IsPage(p), NEW kept
  PROVE  /\ DrawnIsMine(DrawEmptyState(p), kept) /\ DrawnIsMine(RenderOps(p), kept)
         /\ p.currentPath \in Files => DrawnIsMine(RenderFile(p), kept)
         /\ p.currentPath = HOSTS_VIEW /\ LoadedIsMine(p, kept) => DrawnIsMine(RenderHosts(p), kept)
<1>1. DrawnIsMine(DrawEmptyState(p), kept) /\ DrawnIsMine(RenderOps(p), kept)
  BY Drawings DEF DrawnIsMine
<1>2. p.currentPath \in Files => DrawnIsMine(RenderFile(p), kept)
  BY Drawings DEF DrawnIsMine, OnlyDrawn, SameSelection
<1>3. p.currentPath = HOSTS_VIEW /\ LoadedIsMine(p, kept) => DrawnIsMine(RenderHosts(p), kept)
  BY Drawings DEF DrawnIsMine, OnlyDrawn, SameSelection, LoadedIsMine
<1>4. QED
  BY <1>1, <1>2, <1>3

LEMMA DiscardedPage ==
  ASSUME NEW p, IsPage(p)
  PROVE  LET r == Discarded(p) IN
         /\ IsPage(r) /\ SameSelection(p, r) /\ Keeps(p, r)
         /\ r.entries = p.entries /\ r.hostsRaw = p.hostsRaw /\ r.view = p.view /\ r.text = p.text
         /\ r.hosts.inv = p.hosts.inv /\ r.hosts.path = p.hosts.path
         /\ DOMAIN r.pending = DOMAIN p.pending
         /\ \A k \in DOMAIN p.pending : /\ r.pending[k].inv = p.pending[k].inv
                                        /\ r.pending[k].path = p.pending[k].path
         /\ ~HasUnsavedChanges(p) => r = p
<1>1. CASE ~HasUnsavedChanges(p)
  <2>1. Discarded(p) = p
    BY <1>1 DEF Discarded
  <2>2. QED
    BY <2>1 DEF SameSelection, Keeps
<1>2. CASE HasUnsavedChanges(p) /\ p.currentPath = HOSTS_VIEW
  <2>1. Discarded(p) = [p EXCEPT !.hosts.gone = TRUE]
    BY <1>2 DEF Discarded
  <2>2. QED
    <3> DEFINE hosts == [p.hosts EXCEPT !.gone = TRUE]
    <3>1. /\ IsEdit(hosts) /\ hosts.inv = p.hosts.inv /\ hosts.path = p.hosts.path
      BY DEF IsPage, IsEdit
    <3>2. Discarded(p) = [p EXCEPT !.hosts = hosts]
      BY <2>1 DEF IsPage, PageFields
    <3> HIDE DEF hosts
    <3>3. QED
      BY <1>2, <3>1, <3>2 DEF IsPage, PageFields, SameSelection, Keeps
<1>3. CASE HasUnsavedChanges(p) /\ p.currentPath # HOSTS_VIEW
  <2> DEFINE gone == [k \in DOMAIN p.pending |-> [p.pending[k] EXCEPT !.gone = TRUE]]
  <2>1. Discarded(p) = [p EXCEPT !.pending = gone]
    BY <1>3 DEF Discarded, IsPage, PageFields
  <2>2. /\ DOMAIN gone = DOMAIN p.pending
        /\ \A k \in DOMAIN p.pending : /\ gone[k].inv = p.pending[k].inv
                                       /\ gone[k].path = p.pending[k].path /\ IsEdit(gone[k])
    BY DEF IsPage, IsEdit
  <2> HIDE DEF gone
  <2>3. QED
    BY <1>3, <2>1, <2>2 DEF IsPage, PageFields, SameSelection, Keeps
<1>4. QED
  BY <1>1, <1>2, <1>3

LEMMA NothingPending ==
  ASSUME NEW p, p.pending = NoEdits, NEW kept
  PROVE  PendingIsMine(p, kept)
BY DEF PendingIsMine, NoEdits

LEMMA SelectedInventory ==
  ASSUME NEW p, IsPage(p), NEW inv
  PROVE  LET r == SelectInventory(p, inv) IN
         /\ IsPage(r) /\ Keeps(p, r) /\ r.topTab = p.topTab
         /\ r.inventory = inv /\ r.currentPath = None
BY DEF SelectInventory, IsPage, PageFields, Keeps, Paths

LEMMA SelectedFile ==
  ASSUME NEW p, IsPage(p), NEW path \in Files
  PROVE  LET r == SelectFile(p, path) IN
         /\ IsPage(r) /\ Keeps(p, r) /\ r.topTab = p.topTab
         /\ r.inventory = p.inventory /\ r.currentPath = path /\ r.pending = NoEdits
<1> DEFINE d == Discarded(p)
<1>1. IsPage(d) /\ SameSelection(p, d) /\ Keeps(p, d)
  BY DiscardedPage
<1>2. SelectFile(p, path) = [d EXCEPT !.currentPath = path, !.pending = NoEdits, !.rawMode = FALSE]
  BY DEF SelectFile
<1> HIDE DEF d
<1>3. QED
  <2>1. DOMAIN NoEdits = {}
    BY DEF NoEdits
  <2>2. QED
    BY <1>1, <1>2, <2>1 DEF IsPage, PageFields, SameSelection, Keeps, Paths

LEMMA SelectedHosts ==
  ASSUME NEW p, IsPage(p)
  PROVE  LET r == SelectHosts(p) IN
         /\ IsPage(r) /\ Keeps(p, r) /\ r.topTab = p.topTab
         /\ r.inventory = p.inventory /\ r.currentPath = HOSTS_VIEW
<1> DEFINE d == Discarded(p)
<1>1. IsPage(d) /\ SameSelection(p, d) /\ Keeps(p, d)
  BY DiscardedPage
<1>2. SelectHosts(p) = [d EXCEPT !.currentPath = HOSTS_VIEW, !.hostsMode = "form", !.hostsDirty = FALSE]
  BY DEF SelectHosts
<1> HIDE DEF d
<1>3. QED
  BY <1>1, <1>2 DEF IsPage, PageFields, SameSelection, Keeps, Paths

\* On the way to another tab: the edits stay, discarded or not.
LEMMA SwitchedToOps ==
  ASSUME NEW p, IsPage(p), NEW kept \in BOOLEAN, NEW later \in BOOLEAN,
         kept \/ HasUnsavedChanges(p) => later
  PROVE  LET r == SwitchToOps(p) IN
         /\ IsPage(r) /\ Keeps(p, r) /\ r.topTab = "ops"
         /\ PendingIsMine(p, kept) => PendingIsMine(r, later)
         /\ LoadedIsMine(p, kept) => LoadedIsMine(r, later)
         /\ DrawnIsMine(p, kept) => DrawnIsMine(r, later)
<1> DEFINE d == Discarded(p)
           r == SwitchToOps(p)
<1>1. /\ IsPage(d) /\ SameSelection(p, d) /\ Keeps(p, d)
      /\ d.entries = p.entries /\ d.hostsRaw = p.hostsRaw /\ d.view = p.view /\ d.text = p.text
      /\ d.hosts.inv = p.hosts.inv /\ d.hosts.path = p.hosts.path
      /\ DOMAIN d.pending = DOMAIN p.pending
      /\ \A k \in DOMAIN p.pending : /\ d.pending[k].inv = p.pending[k].inv
                                     /\ d.pending[k].path = p.pending[k].path
      /\ ~later => d = p
  BY DiscardedPage
<1>2. r = [d EXCEPT !.topTab = "ops"]
  BY DEF SwitchToOps
<1> HIDE DEF d, r
<1>3. /\ IsPage(r) /\ r.topTab = "ops" /\ Keeps(d, r)
      /\ r.inventory = d.inventory /\ r.currentPath = d.currentPath
      /\ r.entries = d.entries /\ r.pending = d.pending /\ r.hosts = d.hosts /\ r.hostsRaw = d.hostsRaw
      /\ r.view = d.view /\ r.text = d.text
  BY <1>1, <1>2 DEF IsPage, PageFields, Keeps
<1>4. PendingIsMine(p, kept) => PendingIsMine(r, later)
  BY <1>1, <1>3 DEF PendingIsMine, Mine, SameSelection
<1>5. LoadedIsMine(p, kept) => LoadedIsMine(r, later)
  BY <1>1, <1>3 DEF LoadedIsMine, Mine, SameSelection
<1>6. DrawnIsMine(p, kept) => DrawnIsMine(r, later)
  BY <1>1, <1>3 DEF DrawnIsMine, Mine, SameSelection
<1>7. QED
  BY <1>1, <1>3, <1>4, <1>5, <1>6 DEF Keeps, r

LEMMA SwitchedToFiles ==
  ASSUME NEW p, IsPage(p), NEW kept
  PROVE  LET r == SwitchToFiles(p) IN
         /\ IsPage(r) /\ Keeps(p, r) /\ r.topTab = "files"
         /\ PendingIsMine(p, kept) => PendingIsMine(r, kept)
         /\ LoadedIsMine(p, kept) => LoadedIsMine(r, kept) /\ DrawnIsMine(r, kept)
<1> DEFINE d == [p EXCEPT !.topTab = "files"]
           r == SwitchToFiles(p)
<1>1. /\ IsPage(d) /\ d.topTab = "files" /\ Keeps(p, d)
      /\ d.inventory = p.inventory /\ d.currentPath = p.currentPath
      /\ d.entries = p.entries /\ d.pending = p.pending /\ d.hosts = p.hosts /\ d.hostsRaw = p.hostsRaw
  BY DEF IsPage, PageFields, Keeps
<1>2. /\ d.currentPath = HOSTS_VIEW => r = RenderHosts(d)
      /\ d.currentPath = None => r = DrawEmptyState(d)
      /\ d.currentPath \notin {HOSTS_VIEW, None} => r = RenderFile(d)
  BY EditorAssumption, <1>1 DEF SwitchToFiles
<1>3. d.currentPath \in Files \cup {HOSTS_VIEW, None}
  BY <1>1 DEF IsPage, Paths
<1> HIDE DEF d, r
<1>4. IsPage(r) /\ OnlyDrawn(d, r)
  BY <1>1, <1>2, Drawings
<1>5. /\ PendingIsMine(p, kept) => PendingIsMine(d, kept)
      /\ LoadedIsMine(p, kept) => LoadedIsMine(d, kept)
  BY <1>1 DEF PendingIsMine, LoadedIsMine
<1>6. LoadedIsMine(d, kept) => DrawnIsMine(r, kept)
  BY <1>1, <1>2, <1>3, DrawnByKind
<1>7. QED
  BY <1>1, <1>4, <1>5, <1>6, OnlyDrawnIsMine DEF OnlyDrawn, SameSelection, Keeps, r

LEMMA Toggled ==
  ASSUME NEW p, IsPage(p), NEW kept
  PROVE  /\ LET r == ToggleRawMode(p) IN
            /\ IsPage(r) /\ OnlyDrawn(p, r)
            /\ p.view \in {"file", "fileRaw"} /\ DrawnIsMine(p, kept) => DrawnIsMine(r, kept)
         /\ LET r == ToggleHostsMode(p) IN
            /\ IsPage(r) /\ OnlyDrawn(p, r)
            /\ p.view \in {"hosts", "hostsRaw"} /\ LoadedIsMine(p, kept) /\ DrawnIsMine(p, kept) =>
                 DrawnIsMine(r, kept)
<1> DEFINE d == [p EXCEPT !.rawMode = ~p.rawMode]
           h == [p EXCEPT !.hostsMode = IF p.hostsMode = "raw" THEN "form" ELSE "raw"]
<1>1. IsPage(d) /\ OnlyDrawn(p, d) /\ d.view = p.view
  BY DEF IsPage, PageFields, OnlyDrawn, SameSelection, Keeps
<1>2. IsPage(h) /\ OnlyDrawn(p, h) /\ h.view = p.view
  BY DEF IsPage, PageFields, OnlyDrawn, SameSelection, Keeps
<1>3. ToggleRawMode(p) = RenderFile(d) /\ ToggleHostsMode(p) = RenderHosts(h)
  BY DEF ToggleRawMode, ToggleHostsMode, IsPage, PageFields
<1> HIDE DEF d, h
<1>4. /\ IsPage(RenderFile(d)) /\ OnlyDrawn(d, RenderFile(d))
      /\ IsPage(RenderHosts(h)) /\ OnlyDrawn(h, RenderHosts(h))
  BY <1>1, <1>2, Drawings
<1>5. p.view \in {"file", "fileRaw"} /\ DrawnIsMine(p, kept) => DrawnIsMine(RenderFile(d), kept)
  <2>1. p.view \in {"file", "fileRaw"} /\ DrawnIsMine(p, kept) => d.currentPath \in Files
    BY <1>1 DEF DrawnIsMine, OnlyDrawn, SameSelection
  <2>2. QED
    BY <1>1, <2>1, DrawnByKind
<1>6. p.view \in {"hosts", "hostsRaw"} /\ LoadedIsMine(p, kept) /\ DrawnIsMine(p, kept) =>
        DrawnIsMine(RenderHosts(h), kept)
  <2>1. p.view \in {"hosts", "hostsRaw"} /\ DrawnIsMine(p, kept) => h.currentPath = HOSTS_VIEW
    BY <1>2 DEF DrawnIsMine, OnlyDrawn, SameSelection
  <2>2. QED
    BY <1>2, <2>1, DrawnByKind, OnlyDrawnIsMine
<1>7. QED
  BY <1>1, <1>2, <1>3, <1>4, <1>5, <1>6 DEF OnlyDrawn, SameSelection, Keeps

\* Typing, where the page is of the selection.
LEMMA Typed ==
  ASSUME NEW p, IsPage(p), NEW kept, NEW k, NEW v
  PROVE  LET r == OnFieldChange(p, k, v) IN
         /\ IsPage(r) /\ SameSelection(p, r) /\ Keeps(p, r)
         /\ PendingIsMine(p, kept) /\ LoadedIsMine(p, kept) =>
              PendingIsMine(r, kept) /\ LoadedIsMine(r, kept)
         /\ DrawnIsMine(p, kept) => DrawnIsMine(r, kept)
<1> DEFINE new == Read(p.entries.inv, p.entries.path, v)
           pending == [j \in DOMAIN p.pending \cup {k} |-> IF j = k THEN new ELSE p.pending[j]]
           r == OnFieldChange(p, k, v)
<1>1. r = [p EXCEPT !.pending = pending]
  BY DEF OnFieldChange, IsPage, PageFields
<1>2. IsEdit(new) /\ new.inv = p.entries.inv /\ new.path = p.entries.path /\ new.gone = FALSE
  BY DEF IsEdit, Read
<1> HIDE DEF new
<1>3. DOMAIN pending = DOMAIN p.pending \cup {k}
      /\ \A j \in DOMAIN pending :
           pending[j] = new \/ (j \in DOMAIN p.pending /\ pending[j] = p.pending[j])
  OBVIOUS
<1> HIDE DEF pending, r
<1>4. /\ IsPage(r) /\ SameSelection(p, r) /\ Keeps(p, r) /\ r.pending = pending
      /\ r.entries = p.entries /\ r.hosts = p.hosts /\ r.hostsRaw = p.hostsRaw
      /\ r.view = p.view /\ r.text = p.text
  BY <1>1, <1>2, <1>3 DEF IsPage, PageFields, SameSelection, Keeps
<1>5. PendingIsMine(p, kept) /\ LoadedIsMine(p, kept) => PendingIsMine(r, kept)
  BY <1>2, <1>3, <1>4 DEF PendingIsMine, LoadedIsMine, SameSelection, Mine
<1>6. LoadedIsMine(p, kept) => LoadedIsMine(r, kept)
  BY <1>4 DEF LoadedIsMine, SameSelection
<1>7. DrawnIsMine(p, kept) => DrawnIsMine(r, kept)
  BY <1>4 DEF DrawnIsMine, SameSelection
<1>8. QED
  BY <1>4, <1>5, <1>6, <1>7 DEF r

LEMMA TypedHosts ==
  ASSUME NEW p, IsPage(p), NEW kept, NEW v, NEW r,
         \/ r = ChangeHostCard(p, v) \/ r = ChangeHostsText(p, v)
         \/ (r = AddHost(p, v) /\ p.view \in {"hosts", "hostsRaw"})
  PROVE  /\ IsPage(r) /\ SameSelection(p, r) /\ Keeps(p, r)
         /\ PendingIsMine(p, kept) => PendingIsMine(r, kept)
         /\ LoadedIsMine(p, kept) => LoadedIsMine(r, kept)
         /\ LoadedIsMine(p, kept) /\ DrawnIsMine(p, kept) => DrawnIsMine(r, kept)
<1> DEFINE hosts == [p.hosts EXCEPT !.val = v, !.gone = FALSE]
           text == [p.text EXCEPT !.val = v]
           c == ChangeHostCard(p, v)
           t == ChangeHostsText(p, v)
<1>1. IsEdit(hosts) /\ hosts.inv = p.hosts.inv /\ hosts.path = p.hosts.path /\ hosts.gone = FALSE
  BY DEF IsPage, IsEdit
<1>2. IsEdit(text) /\ text.inv = p.text.inv /\ text.path = p.text.path /\ text.gone = p.text.gone
  BY DEF IsPage, IsEdit
<1>3. c = [p EXCEPT !.hosts = hosts, !.hostsDirty = TRUE]
  BY DEF ChangeHostCard, IsPage, PageFields
<1>4. t = [p EXCEPT !.text = text, !.hostsDirty = TRUE]
  BY DEF ChangeHostsText, IsPage, PageFields
<1> HIDE DEF hosts, text, c, t
<1>5. /\ IsPage(c) /\ SameSelection(p, c) /\ Keeps(p, c) /\ c.hosts = hosts
      /\ c.entries = p.entries /\ c.pending = p.pending /\ c.hostsRaw = p.hostsRaw
      /\ c.view = p.view /\ c.text = p.text
  BY <1>1, <1>3 DEF IsPage, PageFields, SameSelection, Keeps
<1>6. /\ IsPage(t) /\ SameSelection(p, t) /\ Keeps(p, t) /\ t.text = text /\ t.hosts = p.hosts
      /\ t.entries = p.entries /\ t.pending = p.pending /\ t.hostsRaw = p.hostsRaw /\ t.view = p.view
  BY <1>2, <1>4 DEF IsPage, PageFields, SameSelection, Keeps
<1>7. /\ PendingIsMine(p, kept) => PendingIsMine(c, kept)
      /\ LoadedIsMine(p, kept) => LoadedIsMine(c, kept)
      /\ DrawnIsMine(p, kept) => DrawnIsMine(c, kept)
  BY <1>1, <1>5 DEF PendingIsMine, LoadedIsMine, DrawnIsMine, SameSelection, Mine
<1>8. CASE r = c
  BY <1>5, <1>7, <1>8
<1>9. CASE r = t
  <2>1. /\ PendingIsMine(p, kept) => PendingIsMine(t, kept)
        /\ LoadedIsMine(p, kept) => LoadedIsMine(t, kept)
        /\ DrawnIsMine(p, kept) => DrawnIsMine(t, kept)
    BY <1>2, <1>6 DEF PendingIsMine, LoadedIsMine, DrawnIsMine, SameSelection, Mine
  <2>2. QED
    BY <1>6, <1>9, <2>1
<1>10. CASE r = RenderHosts(c) /\ p.view \in {"hosts", "hostsRaw"}
  <2>1. IsPage(r) /\ OnlyDrawn(c, r)
    BY <1>5, <1>10, Drawings
  <2>2. DrawnIsMine(p, kept) => c.currentPath = HOSTS_VIEW
    BY <1>5, <1>10 DEF DrawnIsMine, SameSelection
  <2>3. LoadedIsMine(p, kept) /\ DrawnIsMine(p, kept) => DrawnIsMine(r, kept)
    BY <1>5, <1>7, <1>10, <2>2, DrawnByKind
  <2>4. QED
    BY <1>5, <1>7, <2>1, <2>3, OnlyDrawnIsMine DEF OnlyDrawn, SameSelection, Keeps
<1>11. QED
  BY <1>8, <1>9, <1>10 DEF AddHost, c, t

-----------------------------------------------------------------------------
(* What an answer makes of the page, and what is asked next.               *)

LEMMA Asked ==
  ASSUME NEW op \in Loads \cup Saves \cup {"create", "delete"}, NEW inv, NEW path, NEW body, NEW then,
         op \in {"hosts", "saveHosts"} => path = HOSTS_VIEW
  PROVE  LET q == Request(op, inv, path, body, then) IN
         IsRequest(q) /\ q.op = op /\ q.inv = inv /\ q.path = path /\ q.body = body
BY DEF Request, IsRequest

LEMMA NoBody == DOMAIN NoEdits = {}
BY DEF NoEdits

LEMMA LoadAsked ==
  ASSUME NEW op \in Loads, NEW inv, NEW path, NEW then, op = "hosts" => path = HOSTS_VIEW
  PROVE  LET q == Load(op, inv, path, then) IN
         /\ IsRequest(q) /\ q.op = op /\ q.inv = inv /\ q.path = path /\ DOMAIN q.body = {}
BY Asked, NoBody DEF Load, Loads

\* The page keeps its selection; what is asked next, if anything, is a load
\* that any tab may wait for and that does not depend on the selection.
LEMMA HeardOwnTab ==
  ASSUME NEW p, IsPage(p), NEW q, IsRequest(q), q.status = "answered", NEW kept,
         q.op \in {"file", "save", "hosts", "saveHosts"}
  PROVE  LET r == Heard(p, q).page IN
         /\ Heard(p, q).next = <<>>
         /\ IsPage(r) /\ SameSelection(p, r) /\ Keeps(p, r)
         /\ PendingIsMine(p, kept) => PendingIsMine(r, kept)
         /\ q.inv = p.inventory /\ q.path = p.currentPath =>
              LoadedIsMine(r, kept) /\ DrawnIsMine(r, kept)
<1> DEFINE f == [p EXCEPT !.entries = q.answer]
           s == [p EXCEPT !.entries = q.answer, !.pending = NoEdits]
           h == [p EXCEPT !.hosts = q.answer, !.hostsRaw = q.answer]
           g == [p EXCEPT !.hostsDirty = FALSE, !.hosts = q.answer, !.hostsRaw = q.answer]
<1>1. ASSUME NEW d, IsPage(d), SameSelection(p, d), Keeps(p, d),
             PendingIsMine(p, kept) => PendingIsMine(d, kept),
             d.entries = q.answer, q.op \in {"file", "save"}
      PROVE  LET r == RenderFile(d) IN
             /\ IsPage(r) /\ SameSelection(p, r) /\ Keeps(p, r)
             /\ PendingIsMine(p, kept) => PendingIsMine(r, kept)
             /\ q.inv = p.inventory /\ q.path = p.currentPath =>
                  LoadedIsMine(r, kept) /\ DrawnIsMine(r, kept)
  <2> DEFINE r == RenderFile(d)
  <2>1. IsPage(r) /\ OnlyDrawn(d, r)
    BY <1>1, Drawings
  <2>2. q.path \in Files /\ q.answer.inv = q.inv /\ q.answer.path = q.path
    BY <1>1 DEF IsRequest
  <2>3. q.inv = p.inventory /\ q.path = p.currentPath => LoadedIsMine(d, kept) /\ DrawnIsMine(r, kept)
    <3>1. q.path # HOSTS_VIEW
      BY <2>2, EditorAssumption
    <3>2. q.inv = p.inventory /\ q.path = p.currentPath => LoadedIsMine(d, kept)
      BY <1>1, <2>2, <3>1 DEF LoadedIsMine, SameSelection
    <3>3. q.path = p.currentPath => DrawnIsMine(r, kept)
      BY <1>1, <2>2, DrawnByKind DEF SameSelection
    <3>4. QED
      BY <3>2, <3>3
  <2> HIDE DEF r
  <2>4. QED
    BY <1>1, <2>1, <2>3, OnlyDrawnIsMine DEF OnlyDrawn, SameSelection, Keeps, r
<1>2. ASSUME NEW d, IsPage(d), SameSelection(p, d), Keeps(p, d),
             PendingIsMine(p, kept) => PendingIsMine(d, kept),
             d.hosts = q.answer, d.hostsRaw = q.answer, q.op \in {"hosts", "saveHosts"}
      PROVE  LET r == RenderHosts(d) IN
             /\ IsPage(r) /\ SameSelection(p, r) /\ Keeps(p, r)
             /\ PendingIsMine(p, kept) => PendingIsMine(r, kept)
             /\ q.inv = p.inventory /\ q.path = p.currentPath =>
                  LoadedIsMine(r, kept) /\ DrawnIsMine(r, kept)
  <2> DEFINE r == RenderHosts(d)
  <2>1. IsPage(r) /\ OnlyDrawn(d, r)
    BY <1>2, Drawings
  <2>2. q.path = HOSTS_VIEW /\ Mine(q.answer, q.inv, HOSTS_VIEW, kept)
    BY <1>2 DEF IsRequest, Mine, Read
  <2>3. q.inv = p.inventory /\ q.path = p.currentPath => LoadedIsMine(d, kept)
    <3>1. HOSTS_VIEW \notin Files
      BY EditorAssumption
    <3>2. QED
      BY <1>2, <2>2, <3>1 DEF LoadedIsMine, SameSelection
  <2>4. q.inv = p.inventory /\ q.path = p.currentPath => DrawnIsMine(r, kept)
    BY <1>2, <2>2, <2>3, DrawnByKind DEF SameSelection
  <2> HIDE DEF r
  <2>5. QED
    BY <1>2, <2>1, <2>3, <2>4, OnlyDrawnIsMine DEF OnlyDrawn, SameSelection, Keeps, r
<1>3. CASE q.op = "file"
  <2>1. Heard(p, q) = Page(RenderFile(f))
    BY <1>3 DEF Heard, AfterFile
  <2>2. /\ IsPage(f) /\ SameSelection(p, f) /\ Keeps(p, f) /\ f.entries = q.answer
        /\ f.pending = p.pending
    BY DEF IsPage, PageFields, SameSelection, Keeps
  <2> HIDE DEF f
  <2>3. PendingIsMine(p, kept) => PendingIsMine(f, kept)
    BY <2>2 DEF PendingIsMine, SameSelection
  <2>4. QED
    BY <1>1, <1>3, <2>1, <2>2, <2>3 DEF Page
<1>4. CASE q.op = "save"
  <2>1. Heard(p, q) = Page(RenderFile(s))
    BY <1>4 DEF Heard, AfterSave
  <2>2. /\ IsPage(s) /\ SameSelection(p, s) /\ Keeps(p, s) /\ s.entries = q.answer
        /\ s.pending = NoEdits
    BY NoBody DEF IsPage, PageFields, SameSelection, Keeps
  <2> HIDE DEF s
  <2>3. PendingIsMine(s, kept)
    BY <2>2, NothingPending
  <2>4. QED
    BY <1>1, <1>4, <2>1, <2>2, <2>3 DEF Page
<1>5. q.op \in {"hosts", "saveHosts"} => IsEdit(q.answer)
  <2>1. \A inv, val : IsEdit(Read(inv, HOSTS_VIEW, val))
    BY DEF IsEdit, Read
  <2>2. q.op \in {"hosts", "saveHosts"} => q.answer = Read(q.inv, HOSTS_VIEW, q.answer.val)
    BY DEF IsRequest
  <2>3. QED
    BY <2>1, <2>2
<1>6. CASE q.op = "hosts"
  <2>1. Heard(p, q) = Page(RenderHosts(h))
    BY <1>6 DEF Heard, AfterHosts
  <2>2. /\ IsPage(h) /\ SameSelection(p, h) /\ Keeps(p, h) /\ h.hosts = q.answer /\ h.hostsRaw = q.answer
        /\ h.pending = p.pending
    BY <1>5, <1>6 DEF IsPage, PageFields, SameSelection, Keeps
  <2> HIDE DEF h
  <2>3. PendingIsMine(p, kept) => PendingIsMine(h, kept)
    BY <2>2 DEF PendingIsMine, SameSelection
  <2>4. QED
    BY <1>2, <1>6, <2>1, <2>2, <2>3 DEF Page
<1>7. CASE q.op = "saveHosts"
  <2>1. Heard(p, q) = Page(RenderHosts(g))
    BY <1>7 DEF Heard, AfterSaveHosts, AfterHosts
  <2>2. /\ IsPage(g) /\ SameSelection(p, g) /\ Keeps(p, g) /\ g.hosts = q.answer /\ g.hostsRaw = q.answer
        /\ g.pending = p.pending
    BY <1>5, <1>7 DEF IsPage, PageFields, SameSelection, Keeps
  <2> HIDE DEF g
  <2>3. PendingIsMine(p, kept) => PendingIsMine(g, kept)
    BY <2>2 DEF PendingIsMine, SameSelection
  <2>4. QED
    BY <1>2, <1>7, <2>1, <2>2, <2>3 DEF Page
<1>8. QED
  BY <1>3, <1>4, <1>6, <1>7

IsLoad(n, op) == IsRequest(n) /\ n.op = op /\ DOMAIN n.body = {}

\* What the rest of a handler comes to: the page is drawn and nothing asked
\* for; or the next load waits for no selection; or an inventory is selected.
Ends(p, q, r, next) ==
  /\ next = <<>> /\ OnlyDrawn(p, r)
  /\ \/ q.op = "ops" /\ r.view = "ops"
     \/ q.op = "files" /\ p.topTab = "files" /\ r.view = "empty"
GoesOn(p, r, next) ==
  r = p /\ \E n : next = <<n>> /\ (IsLoad(n, "list") \/ (IsLoad(n, "ops") /\ p.topTab = "ops"))
Selects(r, next) == r.currentPath = None /\ \E n : next = <<n>> /\ IsLoad(n, "files")

\* A new inventory is selected, and its files are asked for.
LEMMA InventoryChosen ==
  ASSUME NEW p, IsPage(p), NEW inv, NEW then
  PROVE  LET a == ChooseInventory(p, inv, then) IN
         /\ IsPage(a.page) /\ Keeps(p, a.page) /\ a.page.topTab = p.topTab
         /\ Selects(a.page, a.next)
<1> DEFINE q == Load("files", inv, None, then)
           r == SelectInventory(p, inv)
<1>1. ChooseInventory(p, inv, then) = [page |-> r, next |-> <<q>>]
  BY DEF ChooseInventory, Await
<1>2. IsLoad(q, "files")
  BY LoadAsked DEF IsLoad, Loads
<1>3. IsPage(r) /\ Keeps(p, r) /\ r.topTab = p.topTab /\ r.currentPath = None
  BY SelectedInventory
<1> HIDE DEF q, r
<1>4. Selects(r, <<q>>)
  BY <1>2, <1>3 DEF Selects
<1>5. QED
  BY <1>1, <1>3, <1>4

LEMMA HeardInventory ==
  ASSUME NEW p, IsPage(p), NEW q, IsRequest(q), q.status = "answered",
         q.op \in {"list", "files", "ops", "create", "delete"}
  PROVE  LET a == Heard(p, q) IN
         /\ IsPage(a.page) /\ Keeps(p, a.page) /\ a.page.topTab = p.topTab
         /\ Ends(p, q, a.page, a.next) \/ GoesOn(p, a.page, a.next) \/ Selects(a.page, a.next)
<1>1. ASSUME NEW d, IsPage(d), OnlyDrawn(p, d), NEW then, Ends(p, q, d, <<>>)
      PROVE  LET a == InventoryShown(d, then) IN
             /\ IsPage(a.page) /\ Keeps(p, a.page) /\ a.page.topTab = p.topTab
             /\ Ends(p, q, a.page, a.next) \/ Selects(a.page, a.next)
  <2>1. CASE then = None
    <3>1. InventoryShown(d, then) = [page |-> d, next |-> <<>>]
      BY <2>1 DEF InventoryShown, Page
    <3>2. QED
      BY <1>1, <3>1 DEF OnlyDrawn, SameSelection
  <2>2. CASE then # None
    <3>1. InventoryShown(d, then) = ChooseInventory(d, then, None)
      BY <2>2 DEF InventoryShown
    <3>2. LET a == ChooseInventory(d, then, None) IN
          /\ IsPage(a.page) /\ Keeps(d, a.page) /\ a.page.topTab = d.topTab
          /\ Selects(a.page, a.next)
      BY <1>1, InventoryChosen
    <3>3. QED
      BY <1>1, <3>1, <3>2 DEF OnlyDrawn, SameSelection, Keeps
  <2>3. QED
    BY <2>1, <2>2
<1>2. CASE q.op = "list"
  <2> DEFINE d == [p EXCEPT !.options = q.answer]
  <2>1. Heard(p, q) = ChooseInventory(d, Preferred(q.answer), q.then)
    BY <1>2 DEF Heard, AfterList
  <2>2. IsPage(d) /\ Keeps(p, d) /\ d.topTab = p.topTab
    BY DEF IsPage, PageFields, Keeps
  <2> HIDE DEF d
  <2>3. LET a == ChooseInventory(d, Preferred(q.answer), q.then) IN
        /\ IsPage(a.page) /\ Keeps(d, a.page) /\ a.page.topTab = d.topTab
        /\ Selects(a.page, a.next)
    BY <2>2, InventoryChosen
  <2>4. QED
    BY <2>1, <2>2, <2>3 DEF Keeps
<1>3. CASE q.op = "files" /\ p.topTab = "ops"
  <2> DEFINE n == LoadOps(p, q.then)
  <2>1. Heard(p, q) = [page |-> p, next |-> <<n>>]
    BY <1>3 DEF Heard, AfterFiles, Await
  <2>2. IsLoad(n, "ops")
    BY LoadAsked DEF LoadOps, IsLoad, Loads
  <2> HIDE DEF n
  <2>3. GoesOn(p, p, <<n>>)
    BY <1>3, <2>2 DEF GoesOn
  <2>4. QED
    BY <2>1, <2>3 DEF Keeps
<1>4. CASE q.op = "files" /\ p.topTab # "ops"
  <2> DEFINE d == DrawEmptyState(p)
  <2>1. Heard(p, q) = InventoryShown(d, q.then)
    BY <1>4 DEF Heard, AfterFiles
  <2>2. IsPage(d) /\ OnlyDrawn(p, d) /\ d.view = "empty" /\ p.topTab = "files"
    BY <1>4, Drawings DEF IsPage
  <2> HIDE DEF d
  <2>3. Ends(p, q, d, <<>>)
    BY <1>4, <2>2 DEF Ends
  <2>4. QED
    BY <1>1, <2>1, <2>2, <2>3
<1>5. CASE q.op = "ops"
  <2> DEFINE o == [p EXCEPT !.opsArg = q.answer]
             d == RenderOps(o)
  <2>1. Heard(p, q) = InventoryShown(d, q.then)
    BY <1>5 DEF Heard, AfterOps
  <2>2. IsPage(o) /\ OnlyDrawn(p, o)
    BY DEF IsPage, PageFields, OnlyDrawn, SameSelection, Keeps
  <2> HIDE DEF o
  <2>3. IsPage(d) /\ OnlyDrawn(o, d) /\ d.view = "ops"
    BY <2>2, Drawings
  <2> HIDE DEF d
  <2>4. OnlyDrawn(p, d)
    BY <2>2, <2>3 DEF OnlyDrawn, SameSelection, Keeps
  <2>5. Ends(p, q, d, <<>>)
    BY <1>5, <2>3, <2>4 DEF Ends
  <2>6. QED
    BY <1>1, <2>1, <2>3, <2>4, <2>5
<1>6. CASE q.op \in {"create", "delete"}
  <2> DEFINE n == Load("list", None, None, q.then)
  <2>1. Heard(p, q) = [page |-> p, next |-> <<n>>]
    BY <1>6 DEF Heard, Await
  <2>2. IsLoad(n, "list")
    BY LoadAsked DEF IsLoad, Loads
  <2> HIDE DEF n
  <2>3. GoesOn(p, p, <<n>>)
    BY <2>2 DEF GoesOn
  <2>4. QED
    BY <2>1, <2>3 DEF Keeps
<1>7. QED
  BY <1>2, <1>3, <1>4, <1>5, <1>6

-----------------------------------------------------------------------------
(* What a person does.                                                     *)

LEMMA Acted ==
  ASSUME Shape, NEW name, NEW p, NEW requests, Act(name, p, requests)
  PROVE  /\ IsPerson(person')
         /\ page' = p /\ inFlight' = inFlight \o requests
         /\ AsExpected' =>
              /\ AsExpected
              /\ name \in {"type", "typeHosts", "save", "tab"} => inFlight = <<>>
              /\ name = "search" => page.topTab = "files"
         /\ name # "tab" => person'.kept = person.kept
         /\ name = "tab" => person'.kept = (person.kept \/ (page.topTab = "files" /\ HasUnsavedChanges(page)))
<1> DEFINE agreed == /\ name \in {"tab", "file", "search", "hosts"}
                     /\ HasUnsavedChanges(page) /\ (name = "tab" => page.topTab = "files")
           kept == person.kept \/ (name = "tab" /\ page.topTab = "files" /\ HasUnsavedChanges(page))
           rushed == person.rushed \/ (inFlight # <<>> /\ name \in {"type", "typeHosts", "save"})
           strayed == person.strayed \/ (inFlight # <<>> /\ name = "tab")
                      \/ (page.topTab # "files" /\ name = "search")
<1>1. person' = [person EXCEPT !.acts = person.acts + 1, !.kept = kept, !.agreed = agreed,
                               !.rushed = rushed, !.strayed = strayed]
  BY DEF Act, Shape, IsPerson
<1>2. HasUnsavedChanges(page) \in BOOLEAN
  BY DEF HasUnsavedChanges, Shape, IsPage
<1>3. {agreed, kept, rushed, strayed} \subseteq BOOLEAN
  BY <1>2 DEF Shape, IsPerson
<1> HIDE DEF agreed, kept, rushed, strayed
<1>4. /\ IsPerson(person')
      /\ person'.kept = kept /\ person'.rushed = rushed /\ person'.strayed = strayed
      /\ person'.ordered = person.ordered /\ person'.missed = person.missed
  <2>1. IsPerson(person)
    BY DEF Shape
  <2>2. kept \in BOOLEAN /\ agreed \in BOOLEAN /\ rushed \in BOOLEAN /\ strayed \in BOOLEAN
    BY <1>3
  <2> DEFINE acts == person.acts + 1
  <2>3. person' = [person EXCEPT !.acts = acts, !.kept = kept, !.agreed = agreed,
                                 !.rushed = rushed, !.strayed = strayed]
    BY <1>1
  <2> HIDE DEF acts
  <2>4. QED
    <3>1. person = [f \in PersonFields |-> person[f]]
      BY <2>1 DEF IsPerson
    <3>2. /\ person' = [f \in PersonFields |-> person'[f]]
          /\ person'.kept = kept /\ person'.agreed = agreed
          /\ person'.rushed = rushed /\ person'.strayed = strayed
          /\ person'.ordered = person.ordered /\ person'.missed = person.missed
      BY <2>3, <3>1 DEF PersonFields
    <3>3. person.ordered \in BOOLEAN /\ person.missed \in BOOLEAN
      BY <2>1 DEF IsPerson
    <3>4. QED
      BY <2>2, <3>2, <3>3 DEF IsPerson
<1>5. AsExpected' => /\ ~rushed /\ ~strayed /\ person.ordered /\ ~person.missed
  BY <1>4 DEF AsExpected
<1>6. QED
  <2>1. page' = p /\ inFlight' = inFlight \o requests
    BY DEF Act
  <2>2. AsExpected' =>
              /\ AsExpected
              /\ name \in {"type", "typeHosts", "save", "tab"} => inFlight = <<>>
              /\ name = "search" => page.topTab = "files"
    BY <1>5 DEF AsExpected, rushed, strayed
  <2>3. /\ name # "tab" => kept = person.kept
        /\ name = "tab" => kept = (person.kept \/ (page.topTab = "files" /\ HasUnsavedChanges(page)))
    <3>1. person.kept \in BOOLEAN
      BY DEF Shape, IsPerson
    <3>2. QED
      BY <3>1 DEF kept
  <2>4. QED
    BY <1>4, <2>1, <2>2, <2>3

LEMMA ActedShape ==
  ASSUME Shape, NEW name, NEW p, NEW requests, Act(name, p, requests), IsPage(p),
         requests = <<>> \/ \E q : requests = <<q>> /\ IsRequest(q)
  PROVE  Shape'
<1>1. IsPerson(person') /\ page' = p /\ inFlight' = inFlight \o requests
  BY Acted
<1>2. CASE requests = <<>>
  <2>1. inFlight' = inFlight
    BY <1>1, <1>2, ListPositions DEF Shape
  <2>2. QED
    BY <1>1, <2>1 DEF Shape
<1>3. ASSUME NEW q, requests = <<q>>, IsRequest(q) PROVE Shape'
  <2> DEFINE t == inFlight \o <<q>>
  <2>1. /\ IsList(t) /\ DOMAIN t = 1..(Len(inFlight) + 1)
        /\ DOMAIN inFlight = 1..Len(inFlight) /\ Len(inFlight) \in Nat
        /\ \A i \in 1..Len(inFlight) : t[i] = inFlight[i]
        /\ t[Len(inFlight) + 1] = q
    BY ListJoined, ListPositions DEF Shape
  <2> HIDE DEF t
  <2>2. \A i \in DOMAIN t : IsRequest(t[i])
    BY <1>3, <2>1 DEF Shape
  <2>3. inFlight' = t
    BY <1>1, <1>3 DEF t
  <2>4. QED
    BY <1>1, <2>1, <2>2, <2>3 DEF Shape
<1>4. QED
  BY <1>2, <1>3

LEMMA ActsKeepShape == Shape /\ PersonActs => Shape'
<1> SUFFICES ASSUME Shape, PersonActs PROVE Shape'
  OBVIOUS
<1>0. IsPage(page) /\ <<>> = <<>>
  BY DEF Shape
<1>1. CASE SwitchTab
  <2>1. CASE Act("tab", SwitchToFiles(page), <<>>)
    BY <1>0, <2>1, SwitchedToFiles, ActedShape
  <2>2. CASE Act("tab", SwitchToOps(page), <<LoadOps(SwitchToOps(page), None)>>)
    <3>1. IsRequest(LoadOps(SwitchToOps(page), None))
      BY LoadAsked DEF LoadOps, Loads
    <3>2. IsPage(SwitchToOps(page))
      BY <1>0, SwitchedToOps
    <3>3. QED
      BY <2>2, <3>1, <3>2, ActedShape
  <2>3. QED
    BY <1>1, <2>1, <2>2 DEF SwitchTab
<1>2. ASSUME NEW name, NEW path \in Files, OpenFile(name, path) PROVE Shape'
  <2>1. IsRequest(Load("file", page.inventory, path, None))
    BY LoadAsked DEF Loads
  <2>2. IsPage(SelectFile(page, path))
    BY <1>0, SelectedFile
  <2>3. QED
    BY <1>2, <2>1, <2>2, ActedShape DEF OpenFile
<1>3. CASE ClickFile \/ ClickSearchResult
  <2>1. RenderSidebar(page) \subseteq Files
    BY DEF RenderSidebar
  <2>2. QED
    BY <1>2, <1>3, <2>1 DEF ClickFile, ClickSearchResult
<1>4. CASE ClickHosts
  <2>1. IsRequest(Load("hosts", page.inventory, HOSTS_VIEW, None))
    BY LoadAsked DEF Loads
  <2>2. IsPage(SelectHosts(page))
    BY <1>0, SelectedHosts
  <2>3. QED
    BY <1>4, <2>1, <2>2, ActedShape DEF ClickHosts
<1>5. CASE PickInventory
  <2>1. PICK inv : LET c == ChooseInventory(page, inv, None) IN Act("inventory", c.page, c.next)
    BY <1>5 DEF PickInventory
  <2> DEFINE c == ChooseInventory(page, inv, None)
  <2>2. IsPage(c.page) /\ \E q : c.next = <<q>> /\ IsRequest(q)
    BY <1>0, InventoryChosen DEF Selects, IsLoad
  <2>3. Act("inventory", c.page, c.next)
    BY <2>1
  <2> HIDE DEF c
  <2>4. QED
    BY <2>2, <2>3, ActedShape
<1>6. CASE CreateInventory
  <2>1. PICK name \in Invs :
          Act("create", page, <<Request("create", page.inventory, None, NoEdits, name)>>)
    BY <1>6 DEF CreateInventory
  <2>2. IsRequest(Request("create", page.inventory, None, NoEdits, name))
    BY Asked
  <2>3. QED
    BY <1>0, <2>1, <2>2, ActedShape
<1>7. CASE DeleteInventory
  <2>1. IsRequest(Request("delete", page.inventory, None, NoEdits, None))
    BY Asked
  <2>2. QED
    BY <1>0, <1>7, <2>1, ActedShape DEF DeleteInventory
<1>8. CASE TypeValue
  <2>1. PICK k, v : Act("type", OnFieldChange(page, k, v), <<>>)
    BY <1>8 DEF TypeValue
  <2>2. IsPage(OnFieldChange(page, k, v))
    BY <1>0, Typed
  <2>3. QED
    BY <2>1, <2>2, ActedShape
<1>9. CASE TypeHosts
  <2>1. PICK r, v : /\ Act("typeHosts", r, <<>>)
                    /\ \/ r = ChangeHostCard(page, v) \/ r = ChangeHostsText(page, v)
                       \/ (r = AddHost(page, v) /\ page.view \in {"hosts", "hostsRaw"})
    BY <1>9 DEF TypeHosts
  <2>2. IsPage(r)
    BY <1>0, <2>1, TypedHosts
  <2>3. QED
    BY <2>1, <2>2, ActedShape
<1>10. CASE ClickSave
  <2>1. /\ IsRequest(SaveForm(page)) /\ IsRequest(SaveRaw(page))
        /\ IsRequest(SaveHostsForm(page)) /\ IsRequest(SaveHostsRaw(page))
    BY Asked DEF SaveForm, SaveRaw, SaveHostsForm, SaveHostsRaw, Saves
  <2>2. PICK q : Act("save", page, <<q>>) /\ IsRequest(q)
    BY <1>10, <2>1 DEF ClickSave
  <2>3. QED
    BY <1>0, <2>2, ActedShape
<1>11. CASE ClickToggle
  <2>1. IsPage(ToggleRawMode(page)) /\ IsPage(ToggleHostsMode(page))
    BY <1>0, Toggled
  <2>2. QED
    BY <1>11, <2>1, ActedShape DEF ClickToggle
<1>12. CASE ChooseOperation
  <2>1. PICK mode : Act("ops", RenderOps([page EXCEPT !.opsMode = mode]), <<>>)
    BY <1>12 DEF ChooseOperation
  <2> DEFINE d == [page EXCEPT !.opsMode = mode]
  <2>2. IsPage(d)
    BY <1>0 DEF IsPage, PageFields
  <2> HIDE DEF d
  <2>3. IsPage(RenderOps(d))
    BY <2>2, Drawings
  <2>4. QED
    BY <2>1, <2>3, ActedShape DEF d
<1>13. CASE FillOperation
  <2>1. PICK g : Act("ops", [page EXCEPT !.opsFields[page.opsMode] = g], <<>>)
    BY <1>13 DEF FillOperation
  <2>2. IsPage([page EXCEPT !.opsFields[page.opsMode] = g])
    BY <1>0 DEF IsPage, PageFields
  <2>3. QED
    BY <2>1, <2>2, ActedShape
<1>14. QED
  BY <1>1, <1>3, <1>4, <1>5, <1>6, <1>7, <1>8, <1>9, <1>10, <1>11, <1>12, <1>13 DEF PersonActs

-----------------------------------------------------------------------------
(* What the server and the network do.                                     *)

LEMMA InitShape == Init => Shape
<1> SUFFICES ASSUME Init PROVE Shape
  OBVIOUS
<1>1. IsPage(page)
  <2>1. IsEdit(NoHosts) /\ DOMAIN NoEdits = {}
    BY NoHostsIsEdit, NoBody
  <2>2. PICK exists, first :
          page = [topTab |-> "files", options |-> exists, inventory |-> first, currentPath |-> None,
               entries |-> NoEntries, pending |-> NoEdits, rawMode |-> FALSE,
               hosts |-> NoHosts, hostsRaw |-> NoHosts, hostsMode |-> "form", hostsDirty |-> FALSE,
               opsArg |-> None, opsMode |-> "add", opsFields |-> InitialFields,
               view |-> "empty", text |-> NoHosts]
    BY DEF Init
  <2>3. None \in Paths
    BY DEF Paths
  <2>4. QED
    BY <2>1, <2>2, <2>3 DEF IsPage, PageFields
<1>2. IsPerson(person)
  <2>1. PICK may :
          person = [may |-> may, acts |-> 0, losses |-> 0, agreed |-> FALSE, kept |-> FALSE,
                 rushed |-> FALSE, strayed |-> FALSE, ordered |-> TRUE, missed |-> FALSE]
    BY DEF Init
  <2>2. QED
    BY <2>1 DEF IsPerson, PersonFields
<1>3. inFlight = <<>>
  BY DEF Init
<1>4. QED
  BY <1>1, <1>2, <1>3 DEF Shape, IsList

\* The answer to a request that is accepted is of what it asked for.
LEMMA AnswerIsOfRequest ==
  ASSUME NEW q, IsRequest(q), NEW d, NEW e, Accepts(d, q)
  PROVE  IsRequest([q EXCEPT !.status = "answered", !.answer = Answer(e, q)])
<1> DEFINE a == Answer(e, q)
           r == [q EXCEPT !.status = "answered", !.answer = a]
<1>1. q.op # "raw"
  BY DEF Accepts
<1>2. q.op \in {"file", "save"} => q.path \in Files /\ a.inv = q.inv /\ a.path = q.path
  BY DEF Accepts, ResolveFile, Answer, GetFile
<1>3. q.op \in {"hosts", "saveHosts"} => a = Read(q.inv, HOSTS_VIEW, a.val)
  BY DEF Answer, GetHosts, Read
<1> HIDE DEF a
<1>4. /\ r = [x \in {"op", "inv", "path", "body", "then", "status", "answer"} |-> r[x]]
      /\ r.op = q.op /\ r.inv = q.inv /\ r.path = q.path /\ r.answer = a
  BY DEF IsRequest
<1>5. QED
  BY <1>1, <1>2, <1>3, <1>4 DEF IsRequest, a

LEMMA Served ==
  ASSUME Shape, NEW i \in DOMAIN inFlight, Serve(i)
  PROVE  /\ page' = page /\ person'.kept = person.kept /\ (AsExpected' => AsExpected)
         /\ IsPerson(person')
         /\ \E q : /\ inFlight' = [inFlight EXCEPT ![i] = q] /\ IsRequest(q)
                  /\ q.op = inFlight[i].op /\ q.inv = inFlight[i].inv
                  /\ q.path = inFlight[i].path /\ q.body = inFlight[i].body
<1> DEFINE ordered == person.ordered /\ \A j \in 1..i-1 : inFlight[j].status # "sent"
           q == inFlight[i]
<1>1. person' = [person EXCEPT !.ordered = ordered] /\ page' = page
  BY DEF Serve
<1>2. ordered \in BOOLEAN /\ (ordered => person.ordered)
  BY DEF Shape, IsPerson
<1> HIDE DEF ordered
<1>3. /\ IsPerson(person') /\ person'.kept = person.kept
      /\ person'.ordered = ordered /\ person'.rushed = person.rushed
      /\ person'.strayed = person.strayed /\ person'.missed = person.missed
  <2>1. person = [f \in PersonFields |-> person[f]]
    BY DEF Shape, IsPerson
  <2>2. /\ person' = [f \in PersonFields |-> person'[f]]
        /\ person'.kept = person.kept /\ person'.agreed = person.agreed
        /\ person'.ordered = ordered /\ person'.rushed = person.rushed
        /\ person'.strayed = person.strayed /\ person'.missed = person.missed
    BY <1>1, <2>1 DEF PersonFields
  <2>3. /\ person.kept \in BOOLEAN /\ person.agreed \in BOOLEAN /\ person.rushed \in BOOLEAN
        /\ person.strayed \in BOOLEAN /\ person.missed \in BOOLEAN
    BY DEF Shape, IsPerson
  <2>4. QED
    BY <1>2, <2>2, <2>3 DEF IsPerson
<1>4. AsExpected' => AsExpected
  BY <1>2, <1>3 DEF AsExpected
<1>5. IsRequest(q)
  BY DEF Shape
<1>6. \E r : /\ inFlight' = [inFlight EXCEPT ![i] = r] /\ IsRequest(r)
            /\ r.op = q.op /\ r.inv = q.inv /\ r.path = q.path /\ r.body = q.body
  <2>1. CASE Accepts(disk, q)
    <3> DEFINE a == Answer(disk', q)
               r == [q EXCEPT !.status = "answered", !.answer = a]
    <3>1. inFlight' = [inFlight EXCEPT ![i] = r]
      BY <2>1 DEF Serve
    <3>2. IsRequest(r)
      BY <1>5, <2>1, AnswerIsOfRequest
    <3> HIDE DEF a
    <3>3. r.op = q.op /\ r.inv = q.inv /\ r.path = q.path /\ r.body = q.body
      BY <1>5 DEF IsRequest
    <3>4. QED
      BY <3>1, <3>2, <3>3
  <2>2. CASE ~Accepts(disk, q)
    <3> DEFINE r == [q EXCEPT !.status = "refused"]
    <3>1. inFlight' = [inFlight EXCEPT ![i] = r]
      BY <2>2 DEF Serve
    <3>2. IsRequest(r) /\ r.op = q.op /\ r.inv = q.inv /\ r.path = q.path /\ r.body = q.body
      BY <1>5 DEF IsRequest
    <3>3. QED
      BY <3>1, <3>2
  <2>3. QED
    BY <2>1, <2>2
<1>7. QED
  BY <1>1, <1>3, <1>4, <1>6

LEMMA HeardBy ==
  ASSUME Shape, NEW i \in DOMAIN inFlight, Hear(i)
  PROVE  /\ IsPerson(person') /\ person'.kept = person.kept
         /\ AsExpected' => AsExpected /\ i = 1
         /\ inFlight[i].status = "answered"
         /\ page' = Heard(page, inFlight[i]).page
         /\ inFlight' = RemoveAt(inFlight, i) \o Heard(page, inFlight[i]).next
<1> DEFINE ordered == person.ordered /\ i = 1
<1>1. /\ person' = [person EXCEPT !.ordered = ordered]
      /\ inFlight[i].status = "answered"
      /\ page' = Heard(page, inFlight[i]).page
      /\ inFlight' = RemoveAt(inFlight, i) \o Heard(page, inFlight[i]).next
  BY DEF Hear
<1>2. ordered \in BOOLEAN /\ (ordered => person.ordered /\ i = 1)
  BY DEF Shape, IsPerson
<1> HIDE DEF ordered
<1>3. /\ IsPerson(person') /\ person'.kept = person.kept
      /\ person'.ordered = ordered /\ person'.rushed = person.rushed
      /\ person'.strayed = person.strayed /\ person'.missed = person.missed
  <2>1. person = [f \in PersonFields |-> person[f]]
    BY DEF Shape, IsPerson
  <2>2. /\ person' = [f \in PersonFields |-> person'[f]]
        /\ person'.kept = person.kept /\ person'.agreed = person.agreed
        /\ person'.ordered = ordered /\ person'.rushed = person.rushed
        /\ person'.strayed = person.strayed /\ person'.missed = person.missed
    BY <1>1, <2>1 DEF PersonFields
  <2>3. /\ person.kept \in BOOLEAN /\ person.agreed \in BOOLEAN /\ person.rushed \in BOOLEAN
        /\ person.strayed \in BOOLEAN /\ person.missed \in BOOLEAN
    BY DEF Shape, IsPerson
  <2>4. QED
    BY <1>2, <2>2, <2>3 DEF IsPerson
<1>4. QED
  BY <1>1, <1>2, <1>3 DEF AsExpected

LEMMA Failed ==
  ASSUME Shape, NEW i \in DOMAIN inFlight, Fail(i)
  PROVE  /\ IsPerson(person') /\ person'.kept = person.kept
         /\ AsExpected' => AsExpected /\ inFlight[i].op \notin Loads
         /\ page' = page /\ inFlight' = RemoveAt(inFlight, i)
<1> DEFINE missed == \/ person.missed \/ inFlight[i].op \in Loads
                     \/ inFlight[i].status = "answered"
           losses == IF inFlight[i].status = "refused" THEN person.losses ELSE person.losses + 1
<1>1. /\ person' = [person EXCEPT !.losses = losses, !.missed = missed]
      /\ page' = page /\ inFlight' = RemoveAt(inFlight, i)
  BY DEF Fail
<1>2. missed \in BOOLEAN /\ (~missed => ~person.missed /\ inFlight[i].op \notin Loads)
  BY DEF Shape, IsPerson
<1> HIDE DEF missed, losses
<1>3. /\ IsPerson(person') /\ person'.kept = person.kept
      /\ person'.ordered = person.ordered /\ person'.rushed = person.rushed
      /\ person'.strayed = person.strayed /\ person'.missed = missed
  <2>1. person = [f \in PersonFields |-> person[f]]
    BY DEF Shape, IsPerson
  <2>2. /\ person' = [f \in PersonFields |-> person'[f]]
        /\ person'.kept = person.kept /\ person'.agreed = person.agreed
        /\ person'.ordered = person.ordered /\ person'.rushed = person.rushed
        /\ person'.strayed = person.strayed /\ person'.missed = missed
    BY <1>1, <2>1 DEF PersonFields
  <2>3. /\ person.kept \in BOOLEAN /\ person.agreed \in BOOLEAN /\ person.rushed \in BOOLEAN
        /\ person.strayed \in BOOLEAN /\ person.ordered \in BOOLEAN
    BY DEF Shape, IsPerson
  <2>4. QED
    BY <1>2, <2>2, <2>3 DEF IsPerson
<1>4. QED
  BY <1>1, <1>2, <1>3 DEF AsExpected

LEMMA RequestLeaves ==
  ASSUME Shape, NEW i \in DOMAIN inFlight
  PROVE  LET t == RemoveAt(inFlight, i) IN IsList(t) /\ \A j \in DOMAIN t : IsRequest(t[j])
<1> DEFINE s == inFlight
           t == RemoveAt(s, i)
<1>1. /\ DOMAIN s = 1..Len(s) /\ Len(s) \in Nat /\ IsList(t) /\ DOMAIN t = 1..(Len(s) - 1)
      /\ \A j \in 1..(Len(s) - 1) : t[j] = IF j < i THEN s[j] ELSE s[j + 1]
  BY ListPositions, ListLeft DEF Shape
<1> HIDE DEF t
<1>2. ASSUME NEW j \in DOMAIN t PROVE IsRequest(t[j])
  <2>1. CASE j < i
    BY <1>1, <2>1 DEF Shape
  <2>2. CASE ~(j < i)
    BY <1>1, <2>2 DEF Shape
  <2>3. QED
    BY <2>1, <2>2
<1>3. QED
  BY <1>1, <1>2 DEF t

LEMMA RequestJoins ==
  ASSUME NEW s, IsList(s), \A j \in DOMAIN s : IsRequest(s[j]), NEW next,
         next = <<>> \/ \E n : next = <<n>> /\ IsRequest(n)
  PROVE  LET t == s \o next IN IsList(t) /\ \A j \in DOMAIN t : IsRequest(t[j])
<1>1. CASE next = <<>>
  BY <1>1, ListPositions
<1>2. ASSUME NEW n, next = <<n>>, IsRequest(n)
      PROVE  LET t == s \o next IN IsList(t) /\ \A j \in DOMAIN t : IsRequest(t[j])
  <2> DEFINE t == s \o <<n>>
  <2>1. /\ IsList(t) /\ DOMAIN t = 1..(Len(s) + 1) /\ DOMAIN s = 1..Len(s) /\ Len(s) \in Nat
        /\ \A j \in 1..Len(s) : t[j] = s[j]
        /\ t[Len(s) + 1] = n
    BY ListJoined, ListPositions
  <2> HIDE DEF t
  <2>2. \A j \in DOMAIN t : IsRequest(t[j])
    BY <1>2, <2>1
  <2>3. QED
    BY <1>2, <2>1, <2>2 DEF t
<1>3. QED
  BY <1>1, <1>2

\* Of the requests that are answered, those of a file or of the hosts concern
\* the page as it is; the others end, go on or select an inventory.
OwnTab == {"file", "save", "hosts", "saveHosts"}
OfInventory == {"list", "files", "ops", "create", "delete"}

LEMMA HeardKinds ==
  ASSUME NEW q, IsRequest(q), q.status = "answered"
  PROVE  q.op \in OwnTab \cup OfInventory
BY DEF IsRequest, Loads, Saves, OwnTab, OfInventory

LEMMA NextKeepsShape == Shape /\ [Next]_vars => Shape'
<1> SUFFICES ASSUME Shape, [Next]_vars PROVE Shape'
  OBVIOUS
<1>1. CASE PersonActs
  BY <1>1, ActsKeepShape
<1>2. ASSUME NEW i \in DOMAIN inFlight, Serve(i) PROVE Shape'
  <2>1. /\ page' = page /\ IsPerson(person')
        /\ \E q : inFlight' = [inFlight EXCEPT ![i] = q] /\ IsRequest(q)
    BY <1>2, Served
  <2>2. PICK q : inFlight' = [inFlight EXCEPT ![i] = q] /\ IsRequest(q)
    BY <2>1
  <2>3. /\ IsList(inFlight') /\ DOMAIN inFlight' = DOMAIN inFlight
        /\ \A j \in DOMAIN inFlight : inFlight'[j] = IF j = i THEN q ELSE inFlight[j]
    BY <2>2, ListReplaced DEF Shape
  <2>4. \A j \in DOMAIN inFlight' : IsRequest(inFlight'[j])
    BY <2>2, <2>3 DEF Shape
  <2>5. QED
    BY <2>1, <2>3, <2>4 DEF Shape
<1>3. ASSUME NEW i \in DOMAIN inFlight, Hear(i) PROVE Shape'
  <2> DEFINE q == inFlight[i]
             t == RemoveAt(inFlight, i)
  <2>1. /\ IsPerson(person') /\ q.status = "answered"
        /\ page' = Heard(page, q).page /\ inFlight' = t \o Heard(page, q).next
    BY <1>3, HeardBy
  <2>2. IsList(t) /\ \A j \in DOMAIN t : IsRequest(t[j])
    BY RequestLeaves
  <2>3. IsRequest(q) /\ IsPage(page)
    BY DEF Shape
  <2> HIDE DEF q, t
  <2>4. CASE q.op \in OwnTab
    <3>1. IsPage(Heard(page, q).page) /\ Heard(page, q).next = <<>>
      BY <2>1, <2>3, <2>4, HeardOwnTab DEF OwnTab
    <3>2. IsList(inFlight') /\ \A j \in DOMAIN inFlight' : IsRequest(inFlight'[j])
      BY <2>1, <2>2, <3>1, RequestJoins
    <3>3. QED
      BY <2>1, <3>1, <3>2 DEF Shape
  <2>5. CASE q.op \in OfInventory
    <3> DEFINE r == Heard(page, q).page
               next == Heard(page, q).next
    <3>1. /\ IsPage(r)
          /\ Ends(page, q, r, next) \/ GoesOn(page, r, next) \/ Selects(r, next)
      BY <2>1, <2>3, <2>5, HeardInventory DEF OfInventory
    <3> HIDE DEF r, next
    <3>2. next = <<>> \/ \E n : next = <<n>> /\ IsRequest(n)
      BY <3>1 DEF Ends, GoesOn, Selects, IsLoad
    <3>3. LET u == t \o next IN IsList(u) /\ \A j \in DOMAIN u : IsRequest(u[j])
      BY <2>2, <3>2, RequestJoins
    <3>4. QED
      BY <2>1, <3>1, <3>3 DEF Shape, r, next
  <2>6. QED
    BY <2>1, <2>3, <2>4, <2>5, HeardKinds
<1>4. ASSUME NEW i \in DOMAIN inFlight, Fail(i) PROVE Shape'
  <2>1. IsPerson(person') /\ page' = page /\ inFlight' = RemoveAt(inFlight, i)
    BY <1>4, Failed
  <2>2. QED
    BY <2>1, RequestLeaves DEF Shape
<1>5. CASE UNCHANGED vars
  BY <1>5 DEF vars, Shape
<1>6. QED
  BY <1>1, <1>2, <1>3, <1>4, <1>5 DEF Next

-----------------------------------------------------------------------------
(* Agree is kept.                                                          *)

LEMMA InitAgrees == Init => AgreeInv
<1> SUFFICES ASSUME Init PROVE Agree(page, inFlight, person.kept)
  BY DEF AgreeInv
<1>1. /\ page.topTab = "files" /\ page.currentPath = None /\ page.pending = NoEdits
      /\ page.view = "empty" /\ inFlight = <<>>
  BY DEF Init
<1>2. /\ PendingIsMine(page, person.kept) /\ LoadedIsMine(page, person.kept)
      /\ DrawnIsMine(page, person.kept) /\ OpsIsDrawn(page)
  BY <1>1, EditorAssumption, NothingPending DEF LoadedIsMine, DrawnIsMine, OpsIsDrawn
<1>3. QED
  BY <1>1, <1>2, NothingAwaited

LEMMA HeardAgrees ==
  ASSUME NEW p, IsPage(p), NEW s, IsList(s), \A j \in DOMAIN s : IsRequest(s[j]),
         NEW kept, Agree(p, s, kept), NEW i \in DOMAIN s, i = 1, s[i].status = "answered"
  PROVE  Agree(Heard(p, s[i]).page, RemoveAt(s, i) \o Heard(p, s[i]).next, kept)
<1> DEFINE q == s[i]
           t == RemoveAt(s, i)
           r == Heard(p, q).page
           next == Heard(p, q).next
<1>1. IsRequest(q) /\ IsList(t) /\ t \o <<>> = t
  BY ListLeft, ListPositions
<1>2. ASSUME NothingLoads(t), NEW j \in DOMAIN s, j > i PROVE s[j].op \notin Loads
  <2>1. /\ DOMAIN s = 1..Len(s) /\ Len(s) \in Nat /\ DOMAIN t = 1..(Len(s) - 1)
        /\ \A m \in 1..(Len(s) - 1) : t[m] = IF m < i THEN s[m] ELSE s[m + 1]
    BY ListPositions, ListLeft
  <2> HIDE DEF t
  <2>2. j - 1 \in DOMAIN t /\ t[j - 1] = s[j]
    BY <1>2, <2>1
  <2>3. QED
    BY <1>2, <2>2 DEF NothingLoads
<1>3. NothingLoads(t) /\ q.op \in Loads /\ p.topTab = "files" => AskedFor(p, q)
  BY <1>2 DEF Agree, Settles
<1>4. NothingLoads(t) /\ q.op \notin Loads => NothingLoads(s)
  <2> SUFFICES ASSUME NothingLoads(t), q.op \notin Loads, NEW j \in DOMAIN s PROVE s[j].op \notin Loads
    BY DEF NothingLoads
  <2>1. CASE j = i
    BY <2>1
  <2>2. CASE j # i
    <3>1. j > i
      BY <2>2, ListPositions
    <3>2. QED
      BY <1>2, <3>1
  <2>3. QED
    BY <2>1, <2>2
<1>5. Underway(p, t, kept)
  BY LeftUnderway DEF Agree
<1>6. p.topTab \in {"files", "ops"}
  BY DEF IsPage
<1>7. PendingIsMine(p, kept) /\ (p.topTab = "ops" => LoadedIsMine(p, kept) /\ q.op \in OfAnyTab)
      /\ (p.topTab = "files" => q.op # "ops")
  BY DEF Agree, Underway
<1>8. NothingLoads(t) /\ q.op \in {"save", "saveHosts"} =>
        q.inv = p.inventory /\ q.path = p.currentPath
  BY <1>4 DEF Agree, Settles, Loads
<1> HIDE DEF q, t, r, next
<1>9. CASE q.op \in OwnTab
  <2>1. /\ next = <<>> /\ SameSelection(p, r)
        /\ PendingIsMine(r, kept)
        /\ q.inv = p.inventory /\ q.path = p.currentPath => LoadedIsMine(r, kept) /\ DrawnIsMine(r, kept)
    BY <1>1, <1>7, <1>9, HeardOwnTab DEF OwnTab, r, next, q
  <2>2. p.topTab = "files"
    BY <1>6, <1>7, <1>9 DEF OwnTab, OfAnyTab
  <2>3. NothingLoads(t) => q.inv = p.inventory /\ q.path = p.currentPath
    <3>1. CASE q.op \in {"save", "saveHosts"}
      BY <1>8, <3>1
    <3>2. CASE q.op = "file"
      BY <1>3, <2>2, <3>2 DEF AskedFor, Loads
    <3>3. CASE q.op = "hosts"
      BY <1>1, <1>3, <2>2, <3>3 DEF AskedFor, Loads, IsRequest
    <3>4. QED
      BY <1>9, <3>1, <3>2, <3>3 DEF OwnTab
  <2>4. r.topTab = "files" /\ OpsIsDrawn(r)
    BY <2>1, <2>2 DEF SameSelection, OpsIsDrawn
  <2>5. Agree(r, t, kept)
    BY <2>1, <2>3, <2>4, Left DEF t
  <2>6. QED
    BY <1>1, <2>1, <2>5 DEF q, t, r, next
<1>10. CASE q.op \in OfInventory
  <2>1. /\ r.topTab = p.topTab
        /\ Ends(p, q, r, next) \/ GoesOn(p, r, next) \/ Selects(r, next)
    BY <1>1, <1>10, HeardInventory DEF OfInventory, r, next, q
  <2>2. CASE Ends(p, q, r, next)
    <3>1. next = <<>> /\ OnlyDrawn(p, r) /\ SameSelection(p, r)
      BY <2>2 DEF Ends, OnlyDrawn
    <3>2. /\ PendingIsMine(r, kept)
          /\ LoadedIsMine(r, kept) <=> LoadedIsMine(p, kept)
      BY <1>7, <3>1, OnlyDrawnIsMine
    <3>3. r.topTab = "ops" => LoadedIsMine(r, kept)
      BY <1>7, <2>1, <3>2
    <3>4. NothingLoads(t) => LoadedIsMine(r, kept) /\ DrawnIsMine(r, kept) /\ OpsIsDrawn(r)
      <4>1. CASE q.op = "ops" /\ r.view = "ops"
        <5>1. LoadedIsMine(r, kept)
          BY <1>6, <1>7, <3>2, <4>1
        <5>2. QED
          BY <4>1, <5>1 DEF DrawnIsMine, OpsIsDrawn
      <4>2. CASE q.op = "files" /\ p.topTab = "files" /\ r.view = "empty"
        <5>1. NothingLoads(t) => r.currentPath = None
          BY <1>3, <3>1, <4>2 DEF AskedFor, Loads, SameSelection
        <5>2. NothingLoads(t) => LoadedIsMine(r, kept)
          BY <5>1, EditorAssumption DEF LoadedIsMine
        <5>3. DrawnIsMine(r, kept) /\ OpsIsDrawn(r)
          BY <2>1, <4>2 DEF DrawnIsMine, OpsIsDrawn
        <5>4. QED
          BY <5>2, <5>3
      <4>3. QED
        BY <2>2, <4>1, <4>2 DEF Ends
    <3>5. Agree(r, t, kept)
      BY <3>1, <3>2, <3>3, <3>4, Left DEF t
    <3>6. QED
      BY <1>1, <3>1, <3>5 DEF q, t, r, next
  <2>3. CASE GoesOn(p, r, next)
    <3>1. PICK n : next = <<n>> /\ (IsLoad(n, "list") \/ (IsLoad(n, "ops") /\ p.topTab = "ops"))
      BY <2>3 DEF GoesOn
    <3>2. r = p
      BY <2>3 DEF GoesOn
    <3>3. /\ n.op \in Loads /\ DOMAIN n.body = {}
          /\ p.topTab = "ops" => n.op \in OfAnyTab
          /\ p.topTab = "files" => AskedFor(p, n)
      BY <3>1 DEF IsLoad, Loads, OfAnyTab, AskedFor
    <3>4. Agree(p, t \o <<n>>, kept)
      BY <1>1, <1>5, <3>3, JoinedByLoad
    <3>5. QED
      BY <3>1, <3>2, <3>4 DEF q, t, r, next
  <2>4. CASE Selects(r, next)
    <3>1. PICK n : next = <<n>> /\ IsLoad(n, "files")
      BY <2>4 DEF Selects
    <3>2. r.currentPath = None
      BY <2>4 DEF Selects
    <3>3. PendingIsMine(r, kept) /\ LoadedIsMine(r, kept)
      BY <3>2, EditorAssumption DEF PendingIsMine, LoadedIsMine
    <3>4. Underway(r, t, kept)
      BY <1>5, <2>1, <3>3, UnderwayStill
    <3>5. /\ n.op \in Loads /\ DOMAIN n.body = {}
          /\ r.topTab = "ops" => n.op \in OfAnyTab
          /\ r.topTab = "files" => AskedFor(r, n)
      BY <3>1, <3>2 DEF IsLoad, Loads, OfAnyTab, AskedFor
    <3>6. Agree(r, t \o <<n>>, kept)
      BY <1>1, <3>4, <3>5, JoinedByLoad
    <3>7. QED
      BY <3>1, <3>6 DEF q, t, r, next
  <2>5. QED
    BY <2>1, <2>2, <2>3, <2>4
<1>11. q.op \in OwnTab \cup OfInventory
  BY <1>1, HeardKinds DEF q
<1>12. QED
  BY <1>9, <1>10, <1>11

LEMMA FailedAgrees ==
  ASSUME NEW p, NEW s, IsList(s), NEW kept, Agree(p, s, kept), NEW i \in DOMAIN s, s[i].op \notin Loads
  PROVE  Agree(p, RemoveAt(s, i), kept)
<1> DEFINE t == RemoveAt(s, i)
<1>1. /\ DOMAIN s = 1..Len(s) /\ Len(s) \in Nat /\ DOMAIN t = 1..(Len(s) - 1)
      /\ \A m \in 1..(Len(s) - 1) : t[m] = IF m < i THEN s[m] ELSE s[m + 1]
  BY ListPositions, ListLeft
<1>2. NothingLoads(t) => NothingLoads(s)
  <2> HIDE DEF t
  <2> SUFFICES ASSUME NothingLoads(t), NEW j \in DOMAIN s PROVE s[j].op \notin Loads
    BY DEF NothingLoads
  <2>1. CASE j < i
    <3>1. j \in DOMAIN t /\ t[j] = s[j]
      BY <1>1, <2>1
    <3>2. QED
      BY <3>1 DEF NothingLoads
  <2>2. CASE j > i
    <3>1. j - 1 \in DOMAIN t /\ t[j - 1] = s[j]
      BY <1>1, <2>2
    <3>2. QED
      BY <3>1 DEF NothingLoads
  <2>3. QED
    BY <1>1, <2>1, <2>2
<1>3. /\ PendingIsMine(p, kept) /\ (p.topTab = "ops" => LoadedIsMine(p, kept))
      /\ NothingLoads(s) => LoadedIsMine(p, kept) /\ DrawnIsMine(p, kept) /\ OpsIsDrawn(p)
  BY DEF Agree, Underway, Settles
<1>4. SameSelection(p, p)
  BY DEF SameSelection
<1>5. QED
  BY <1>2, <1>3, <1>4, Left DEF t

\* A file of the sidebar, or a search result on the Files tab.
LEMMA OpenAgrees ==
  ASSUME NEW p, IsPage(p), p.topTab = "files", NEW s, IsList(s), NEW kept, Agree(p, s, kept),
         NEW path \in Files
  PROVE  Agree(SelectFile(p, path), s \o <<Load("file", p.inventory, path, None)>>, kept)
<1> DEFINE r == SelectFile(p, path)
           q == Load("file", p.inventory, path, None)
<1>1. /\ r.topTab = "files" /\ r.inventory = p.inventory /\ r.currentPath = path
      /\ r.pending = NoEdits
  BY SelectedFile
<1>2. q.op = "file" /\ q.inv = p.inventory /\ q.path = path /\ DOMAIN q.body = {}
  BY LoadAsked DEF Loads
<1> HIDE DEF r, q
<1>3. Underway(r, s, kept)
  BY <1>1, NothingPending, UnderwayStill DEF Agree
<1>4. q.op \in Loads /\ AskedFor(r, q)
  BY <1>1, <1>2 DEF Loads, AskedFor
<1>5. Agree(r, s \o <<q>>, kept)
  BY <1>1, <1>2, <1>3, <1>4, JoinedByLoad
<1>6. QED
  BY <1>5 DEF r, q

LEMMA HostsAgree ==
  ASSUME NEW p, IsPage(p), p.topTab = "files", NEW s, IsList(s), NEW kept, Agree(p, s, kept)
  PROVE  Agree(SelectHosts(p), s \o <<Load("hosts", p.inventory, HOSTS_VIEW, None)>>, kept)
<1> DEFINE r == SelectHosts(p)
           q == Load("hosts", p.inventory, HOSTS_VIEW, None)
<1>1. r.topTab = "files" /\ r.inventory = p.inventory /\ r.currentPath = HOSTS_VIEW
  BY SelectedHosts
<1>2. q.op = "hosts" /\ q.inv = p.inventory /\ q.path = HOSTS_VIEW /\ DOMAIN q.body = {}
  BY LoadAsked DEF Loads
<1> HIDE DEF r, q
<1>3. PendingIsMine(r, kept)
  BY <1>1, EditorAssumption DEF PendingIsMine
<1>4. Underway(r, s, kept)
  BY <1>1, <1>3, UnderwayStill DEF Agree
<1>5. q.op \in Loads /\ AskedFor(r, q)
  BY <1>1, <1>2 DEF Loads, AskedFor
<1>6. Agree(r, s \o <<q>>, kept)
  BY <1>1, <1>2, <1>4, <1>5, JoinedByLoad
<1>7. QED
  BY <1>6 DEF r, q

LEMMA InventoryAgrees ==
  ASSUME NEW p, IsPage(p), NEW s, IsList(s), NEW kept, Agree(p, s, kept), NEW inv
  PROVE  LET c == ChooseInventory(p, inv, None) IN Agree(c.page, s \o c.next, kept)
<1> DEFINE r == ChooseInventory(p, inv, None).page
           next == ChooseInventory(p, inv, None).next
<1>1. r.topTab = p.topTab /\ Selects(r, next)
  BY InventoryChosen
<1> HIDE DEF r, next
<1>2. PICK n : next = <<n>> /\ IsLoad(n, "files")
  BY <1>1 DEF Selects
<1>3. r.currentPath = None
  BY <1>1 DEF Selects
<1>4. PendingIsMine(r, kept) /\ LoadedIsMine(r, kept)
  BY <1>3, EditorAssumption DEF PendingIsMine, LoadedIsMine
<1>5. Underway(r, s, kept)
  BY <1>1, <1>4, UnderwayStill DEF Agree
<1>6. /\ n.op \in Loads /\ DOMAIN n.body = {}
      /\ r.topTab = "ops" => n.op \in OfAnyTab
      /\ r.topTab = "files" => AskedFor(r, n)
  BY <1>2, <1>3 DEF IsLoad, Loads, OfAnyTab, AskedFor
<1>7. Agree(r, s \o <<n>>, kept)
  BY <1>5, <1>6, JoinedByLoad
<1>8. QED
  BY <1>2, <1>7 DEF r, next

LEMMA ToFilesAgrees ==
  ASSUME NEW p, IsPage(p), NEW kept, Agree(p, <<>>, kept)
  PROVE  Agree(SwitchToFiles(p), <<>>, kept)
<1> DEFINE r == SwitchToFiles(p)
<1>1. PendingIsMine(p, kept) /\ LoadedIsMine(p, kept)
  BY NothingAwaited
<1>2. /\ PendingIsMine(r, kept) /\ LoadedIsMine(r, kept) /\ DrawnIsMine(r, kept)
      /\ r.topTab = "files"
  BY <1>1, SwitchedToFiles
<1> HIDE DEF r
<1>3. QED
  BY <1>2, NothingAwaited DEF OpsIsDrawn, r

LEMMA ToOpsAgrees ==
  ASSUME NEW p, IsPage(p), NEW kept \in BOOLEAN, NEW later \in BOOLEAN, Agree(p, <<>>, kept),
         kept \/ HasUnsavedChanges(p) => later
  PROVE  Agree(SwitchToOps(p), <<>> \o <<LoadOps(SwitchToOps(p), None)>>, later)
<1> DEFINE r == SwitchToOps(p)
           q == LoadOps(r, None)
<1>1. PendingIsMine(p, kept) /\ LoadedIsMine(p, kept)
  BY NothingAwaited
<1>2. PendingIsMine(r, later) /\ LoadedIsMine(r, later) /\ r.topTab = "ops"
  BY <1>1, SwitchedToOps
<1>3. q.op = "ops" /\ DOMAIN q.body = {}
  BY LoadAsked DEF Loads, LoadOps
<1> HIDE DEF r, q
<1>4. Underway(r, <<>>, later)
  BY <1>2 DEF Underway
<1>5. q.op \in Loads /\ q.op \in OfAnyTab /\ IsList(<<>>)
  BY <1>3 DEF Loads, OfAnyTab, IsList
<1>6. Agree(r, <<>> \o <<q>>, later)
  BY <1>2, <1>3, <1>4, <1>5, JoinedByLoad
<1>7. QED
  BY <1>6 DEF r, q

LEMMA TypedAgrees ==
  ASSUME NEW p, IsPage(p), NEW kept, Agree(p, <<>>, kept), NEW r,
         \/ p.view = "file" /\ \E k, v : r = OnFieldChange(p, k, v)
         \/ /\ p.view \in {"hosts", "hostsRaw"}
            /\ \E v : r \in {ChangeHostCard(p, v), ChangeHostsText(p, v), AddHost(p, v)}
  PROVE  Agree(r, <<>>, kept)
<1>1. /\ PendingIsMine(p, kept) /\ LoadedIsMine(p, kept) /\ DrawnIsMine(p, kept)
      /\ p.topTab # "ops"
  BY NothingAwaited DEF OpsIsDrawn
<1>2. /\ PendingIsMine(r, kept) /\ LoadedIsMine(r, kept) /\ DrawnIsMine(r, kept)
      /\ SameSelection(p, r)
  <2>1. ASSUME NEW k, NEW v, r = OnFieldChange(p, k, v)
        PROVE  /\ PendingIsMine(r, kept) /\ LoadedIsMine(r, kept) /\ DrawnIsMine(r, kept)
               /\ SameSelection(p, r)
    BY <1>1, <2>1, Typed
  <2>2. ASSUME NEW v, r \in {ChangeHostCard(p, v), ChangeHostsText(p, v), AddHost(p, v)},
               p.view \in {"hosts", "hostsRaw"}
        PROVE  /\ PendingIsMine(r, kept) /\ LoadedIsMine(r, kept) /\ DrawnIsMine(r, kept)
               /\ SameSelection(p, r)
    BY <1>1, <2>2, TypedHosts
  <2>3. QED
    BY <2>1, <2>2
<1>3. OpsIsDrawn(r)
  BY <1>1, <1>2 DEF OpsIsDrawn, SameSelection
<1>4. QED
  BY <1>2, <1>3, NothingAwaited

\* What is saved is what is shown, and goes where the selection points.
LEMMA SaveAgrees ==
  ASSUME NEW p, IsPage(p), NEW kept, Agree(p, <<>>, kept), NEW q,
         \/ p.view = "file" /\ q = SaveForm(p)
         \/ p.view = "fileRaw" /\ q = SaveRaw(p)
         \/ p.view = "hosts" /\ q = SaveHostsForm(p)
         \/ p.view = "hostsRaw" /\ q = SaveHostsRaw(p)
  PROVE  Agree(p, <<>> \o <<q>>, kept)
<1>1. /\ PendingIsMine(p, kept) /\ LoadedIsMine(p, kept) /\ DrawnIsMine(p, kept)
      /\ p.topTab # "ops"
  BY NothingAwaited DEF OpsIsDrawn
<1>2. p.topTab = "files"
  BY <1>1 DEF IsPage
<1>3. /\ q.op \in Saves /\ q.inv = p.inventory /\ q.path = p.currentPath
      /\ \A k \in DOMAIN q.body : Mine(q.body[k], q.inv, q.path, kept)
  <2>1. CASE p.view = "file" /\ q = SaveForm(p)
    <3>1. q.op = "save" /\ q.inv = p.inventory /\ q.path = p.currentPath /\ q.body = p.pending
      BY <2>1 DEF SaveForm, Request
    <3>2. QED
      BY <1>1, <2>1, <3>1 DEF Saves, DrawnIsMine, PendingIsMine
  <2>2. CASE p.view = "fileRaw" /\ q = SaveRaw(p)
    <3>1. q.op = "raw" /\ q.inv = p.inventory /\ q.path = p.currentPath /\ DOMAIN q.body = {}
      BY <2>2, NoBody DEF SaveRaw, Request
    <3>2. QED
      BY <3>1 DEF Saves
  <2>3. CASE p.view = "hosts" /\ q = SaveHostsForm(p)
    <3>1. /\ q.op = "saveHosts" /\ q.inv = p.inventory /\ q.path = HOSTS_VIEW
          /\ q.body = [k \in {HOSTS_VIEW} |-> p.hosts]
      BY <2>3 DEF SaveHostsForm, Request
    <3>2. p.currentPath = HOSTS_VIEW /\ Mine(p.hosts, p.inventory, HOSTS_VIEW, kept)
      BY <1>1, <2>3 DEF DrawnIsMine, LoadedIsMine
    <3>3. QED
      BY <3>1, <3>2 DEF Saves
  <2>4. CASE p.view = "hostsRaw" /\ q = SaveHostsRaw(p)
    <3>1. /\ q.op = "saveHosts" /\ q.inv = p.inventory /\ q.path = HOSTS_VIEW
          /\ q.body = [k \in {HOSTS_VIEW} |-> p.text]
      BY <2>4 DEF SaveHostsRaw, Request
    <3>2. p.currentPath = HOSTS_VIEW /\ Mine(p.text, p.inventory, HOSTS_VIEW, kept)
      BY <1>1, <2>4 DEF DrawnIsMine
    <3>3. QED
      BY <3>1, <3>2 DEF Saves
  <2>5. QED
    BY <2>1, <2>2, <2>3, <2>4
<1>4. QED
  BY <1>1, <1>2, <1>3, JoinedBySave

\* A toggle, or another operation or field of the operations.
LEMMA RedrawnAgrees ==
  ASSUME NEW p, IsPage(p), NEW s, NEW kept, Agree(p, s, kept), NEW r,
         \/ p.view \in {"file", "fileRaw"} /\ r = ToggleRawMode(p)
         \/ p.view \in {"hosts", "hostsRaw"} /\ r = ToggleHostsMode(p)
         \/ \E mode : r = RenderOps([p EXCEPT !.opsMode = mode])
         \/ \E fields : r = [p EXCEPT !.opsFields = fields]
  PROVE  Agree(r, s, kept)
<1>1. PendingIsMine(p, kept)
  BY DEF Agree, Underway
<1>2. CASE \/ p.view \in {"file", "fileRaw"} /\ r = ToggleRawMode(p)
           \/ p.view \in {"hosts", "hostsRaw"} /\ r = ToggleHostsMode(p)
  <2>1. /\ OnlyDrawn(p, r)
        /\ LoadedIsMine(p, kept) /\ DrawnIsMine(p, kept) => DrawnIsMine(r, kept)
    BY <1>2, Toggled
  <2>2. /\ PendingIsMine(r, kept) /\ (LoadedIsMine(p, kept) => LoadedIsMine(r, kept))
        /\ SameSelection(p, r)
    BY <1>1, <2>1, OnlyDrawnIsMine DEF OnlyDrawn
  <2>3. OpsIsDrawn(p) => OpsIsDrawn(r)
    BY <1>2, <2>2 DEF OpsIsDrawn, SameSelection
  <2>4. QED
    BY <2>1, <2>2, <2>3, Redrawn
<1>3. ASSUME NEW mode, r = RenderOps([p EXCEPT !.opsMode = mode]) PROVE Agree(r, s, kept)
  <2> DEFINE d == [p EXCEPT !.opsMode = mode]
  <2>1. /\ IsPage(d) /\ SameSelection(p, d)
        /\ d.entries = p.entries /\ d.pending = p.pending /\ d.hosts = p.hosts /\ d.hostsRaw = p.hostsRaw
    BY DEF IsPage, PageFields, SameSelection
  <2>2. r = RenderOps(d)
    BY <1>3
  <2> HIDE DEF d
  <2>3. OnlyDrawn(d, r) /\ r.view = "ops" /\ DrawnIsMine(r, kept)
    BY <2>1, <2>2, Drawings, DrawnByKind
  <2>4. /\ PendingIsMine(d, kept)
        /\ LoadedIsMine(p, kept) => LoadedIsMine(d, kept)
    BY <1>1, <2>1 DEF PendingIsMine, LoadedIsMine, SameSelection
  <2>5. /\ PendingIsMine(r, kept) /\ (LoadedIsMine(p, kept) => LoadedIsMine(r, kept))
    BY <2>3, <2>4, OnlyDrawnIsMine
  <2>6. SameSelection(p, r) /\ OpsIsDrawn(r)
    BY <2>1, <2>3 DEF OnlyDrawn, SameSelection, OpsIsDrawn
  <2>7. QED
    BY <2>3, <2>5, <2>6, Redrawn
<1>4. ASSUME NEW fields, r = [p EXCEPT !.opsFields = fields] PROVE Agree(r, s, kept)
  <2>1. /\ SameSelection(p, r) /\ r.view = p.view /\ r.text = p.text
        /\ r.entries = p.entries /\ r.pending = p.pending /\ r.hosts = p.hosts /\ r.hostsRaw = p.hostsRaw
    BY <1>4 DEF IsPage, PageFields, SameSelection
  <2>2. /\ PendingIsMine(r, kept) /\ (LoadedIsMine(p, kept) => LoadedIsMine(r, kept))
        /\ DrawnIsMine(p, kept) => DrawnIsMine(r, kept)
        /\ OpsIsDrawn(p) => OpsIsDrawn(r)
    BY <1>1, <2>1 DEF PendingIsMine, LoadedIsMine, DrawnIsMine, OpsIsDrawn, SameSelection
  <2>3. QED
    BY <2>1, <2>2, Redrawn
<1>5. QED
  BY <1>2, <1>3, <1>4

LEMMA ActsAgree ==
  ASSUME Shape, AgreeInv, PersonActs, AsExpected'
  PROVE  Agree(page', inFlight', person'.kept)
<1> DEFINE p == page
           s == inFlight
<1>0. IsPage(p) /\ IsList(s) /\ s \o <<>> = s /\ person.kept \in BOOLEAN
  BY ListPositions DEF Shape, IsPerson
<1>1. ASSUME NEW name, NEW r, NEW requests, Act(name, r, requests), name # "tab"
      PROVE  /\ Agree(p, s, person.kept) /\ page' = r /\ inFlight' = s \o requests
             /\ person'.kept = person.kept
             /\ name \in {"type", "typeHosts", "save"} => s = <<>>
             /\ name = "search" => p.topTab = "files"
  BY <1>1, Acted DEF AgreeInv
<1>3. CASE SwitchTab
  <2>1. CASE p.topTab = "ops" /\ Act("tab", SwitchToFiles(p), <<>>)
    <3>1. /\ s = <<>> /\ Agree(p, s, person.kept)
          /\ page' = SwitchToFiles(p) /\ inFlight' = s \o <<>>
          /\ person'.kept = (person.kept \/ (p.topTab = "files" /\ HasUnsavedChanges(p)))
      BY <2>1, Acted DEF AgreeInv
    <3>2. person'.kept = person.kept
      BY <1>0, <2>1, <3>1
    <3>3. QED
      BY <1>0, <3>1, <3>2, ToFilesAgrees
  <2>2. CASE Act("tab", SwitchToOps(p), <<LoadOps(SwitchToOps(p), None)>>) /\ p.topTab = "files"
    <3>1. /\ s = <<>> /\ Agree(p, s, person.kept)
          /\ page' = SwitchToOps(p) /\ inFlight' = s \o <<LoadOps(SwitchToOps(p), None)>>
          /\ person'.kept = (person.kept \/ (p.topTab = "files" /\ HasUnsavedChanges(p)))
          /\ IsPerson(person')
      BY <2>2, Acted DEF AgreeInv
    <3>2. person'.kept \in BOOLEAN /\ (person.kept \/ HasUnsavedChanges(p) => person'.kept)
      BY <1>0, <2>2, <3>1 DEF IsPerson
    <3>3. QED
      BY <1>0, <3>1, <3>2, ToOpsAgrees
  <2>3. QED
    BY <1>3, <2>1, <2>2 DEF SwitchTab
<1>2. ASSUME NEW name, name # "tab", NEW path \in Files, p.topTab = "files", OpenFile(name, path)
       PROVE  Agree(page', inFlight', person'.kept)
  <2>1. Act(name, SelectFile(p, path), <<Load("file", p.inventory, path, None)>>)
    BY <1>2 DEF OpenFile
  <2>2. /\ Agree(p, s, person.kept) /\ page' = SelectFile(p, path)
        /\ inFlight' = s \o <<Load("file", p.inventory, path, None)>> /\ person'.kept = person.kept
    BY <1>1, <1>2, <2>1
  <2>3. Agree(SelectFile(p, path), s \o <<Load("file", p.inventory, path, None)>>, person.kept)
    BY <1>0, <1>2, <2>2, OpenAgrees
  <2>4. QED
    BY <2>2, <2>3
<1>4. CASE ClickFile
  <2>1. PICK path \in Files : p.topTab = "files" /\ OpenFile("file", path)
    BY <1>4 DEF ClickFile, RenderSidebar
  <2>2. QED
    BY <1>2, <2>1
<1>5. CASE ClickSearchResult
  <2>1. PICK path \in Files : OpenFile("search", path)
    BY <1>5 DEF ClickSearchResult
  <2>2. p.topTab = "files"
    BY <1>1, <2>1 DEF OpenFile
  <2>3. QED
    BY <1>2, <2>1, <2>2
<1>6. CASE ClickHosts
  <2>1. /\ p.topTab = "files"
        /\ Act("hosts", SelectHosts(p), <<Load("hosts", p.inventory, HOSTS_VIEW, None)>>)
    BY <1>6 DEF ClickHosts
  <2>2. /\ Agree(p, s, person.kept) /\ page' = SelectHosts(p)
        /\ inFlight' = s \o <<Load("hosts", p.inventory, HOSTS_VIEW, None)>>
        /\ person'.kept = person.kept
    BY <1>1, <2>1
  <2>3. Agree(SelectHosts(p), s \o <<Load("hosts", p.inventory, HOSTS_VIEW, None)>>, person.kept)
    BY <1>0, <2>1, <2>2, HostsAgree
  <2>4. QED
    BY <2>2, <2>3
<1>7. CASE PickInventory
  <2>1. PICK inv : LET c == ChooseInventory(p, inv, None) IN Act("inventory", c.page, c.next)
    BY <1>7 DEF PickInventory
  <2> DEFINE c == ChooseInventory(p, inv, None)
  <2>2. Act("inventory", c.page, c.next)
    BY <2>1
  <2>3. Agree(p, s, person.kept) => Agree(c.page, s \o c.next, person.kept)
    BY <1>0, InventoryAgrees
  <2> HIDE DEF c
  <2>4. QED
    BY <1>1, <2>2, <2>3
<1>8. CASE CreateInventory \/ DeleteInventory
  <2>1. PICK name, op, then :
          /\ Act(name, p, <<Request(op, p.inventory, None, NoEdits, then)>>)
          /\ name \in {"create", "delete"} /\ op \in {"create", "delete"}
    BY <1>8 DEF CreateInventory, DeleteInventory
  <2> DEFINE q == Request(op, p.inventory, None, NoEdits, then)
  <2>2. q.op \in {"create", "delete"} /\ DOMAIN q.body = {}
    BY <2>1, Asked, NoBody
  <2>3. /\ Agree(p, s, person.kept) /\ page' = p /\ inFlight' = s \o <<q>>
        /\ person'.kept = person.kept
    BY <1>1, <2>1
  <2> HIDE DEF q
  <2>4. QED
    BY <1>0, <2>2, <2>3, JoinedByOther
<1>9. CASE TypeValue
  <2>1. PICK k, v : p.view = "file" /\ Act("type", OnFieldChange(p, k, v), <<>>)
    BY <1>9 DEF TypeValue
  <2>2. QED
    BY <1>0, <1>1, <2>1, TypedAgrees
<1>10. CASE TypeHosts
  <2>1. PICK v, r : /\ Act("typeHosts", r, <<>>) /\ p.view \in {"hosts", "hostsRaw"}
                    /\ r \in {ChangeHostCard(p, v), ChangeHostsText(p, v), AddHost(p, v)}
    BY <1>10 DEF TypeHosts
  <2>2. QED
    BY <1>0, <1>1, <2>1, TypedAgrees
<1>11. CASE ClickSave
  <2>1. PICK q : /\ Act("save", p, <<q>>)
                 /\ \/ p.view = "file" /\ q = SaveForm(p)
                    \/ p.view = "fileRaw" /\ q = SaveRaw(p)
                    \/ p.view = "hosts" /\ q = SaveHostsForm(p)
                    \/ p.view = "hostsRaw" /\ q = SaveHostsRaw(p)
    BY <1>11 DEF ClickSave
  <2>2. QED
    BY <1>0, <1>1, <2>1, SaveAgrees
<1>12. CASE ClickToggle \/ ChooseOperation \/ FillOperation
  <2>1. PICK name, r :
          /\ Act(name, r, <<>>) /\ name # "tab"
          /\ \/ p.view \in {"file", "fileRaw"} /\ r = ToggleRawMode(p)
             \/ p.view \in {"hosts", "hostsRaw"} /\ r = ToggleHostsMode(p)
             \/ \E mode : r = RenderOps([p EXCEPT !.opsMode = mode])
             \/ \E fields : r = [p EXCEPT !.opsFields = fields]
    <3>1. CASE ClickToggle
      BY <3>1 DEF ClickToggle
    <3>2. CASE ChooseOperation
      BY <3>2 DEF ChooseOperation
    <3>3. CASE FillOperation
      <4>1. PICK g : Act("ops", [p EXCEPT !.opsFields[p.opsMode] = g], <<>>)
        BY <3>3 DEF FillOperation
      <4>2. [p EXCEPT !.opsFields[p.opsMode] = g] =
              [p EXCEPT !.opsFields = [p.opsFields EXCEPT ![p.opsMode] = g]]
        BY <1>0 DEF IsPage, PageFields
      <4>3. QED
        BY <4>1, <4>2
    <3>4. QED
      BY <1>12, <3>1, <3>2, <3>3
  <2>2. /\ Agree(p, s, person.kept) /\ page' = r /\ inFlight' = s \o <<>>
        /\ person'.kept = person.kept
    BY <1>1, <2>1
  <2>3. Agree(r, s, person.kept)
    BY <1>0, <2>1, <2>2, RedrawnAgrees
  <2>4. QED
    BY <1>0, <2>2, <2>3
<1>13. QED
  BY <1>3, <1>4, <1>5, <1>6, <1>7, <1>8, <1>9, <1>10, <1>11, <1>12 DEF PersonActs

LEMMA NextKeepsAgree == Shape /\ AgreeInv /\ [Next]_vars => AgreeInv'
<1> SUFFICES ASSUME Shape, AgreeInv, [Next]_vars, AsExpected' PROVE Agree(page', inFlight', person'.kept)
  BY DEF AgreeInv
<1>1. CASE PersonActs
  BY <1>1, ActsAgree
<1>2. ASSUME NEW i \in DOMAIN inFlight, Serve(i) PROVE Agree(page', inFlight', person'.kept)
  BY <1>2, Served, Replaced DEF AgreeInv, Shape
<1>3. ASSUME NEW i \in DOMAIN inFlight, Hear(i) PROVE Agree(page', inFlight', person'.kept)
  BY <1>3, HeardBy, HeardAgrees DEF AgreeInv, Shape
<1>4. ASSUME NEW i \in DOMAIN inFlight, Fail(i) PROVE Agree(page', inFlight', person'.kept)
  BY <1>4, Failed, FailedAgrees DEF AgreeInv, Shape
<1>5. CASE UNCHANGED vars
  BY <1>5 DEF vars, AgreeInv, AsExpected
<1>6. QED
  BY <1>1, <1>2, <1>3, <1>4, <1>5 DEF Next

LEMMA AgreeAlways == Spec => [](Shape /\ AgreeInv)
<1>1. Init => Shape /\ AgreeInv
  BY InitShape, InitAgrees
<1>2. Shape /\ AgreeInv /\ [Next]_vars => (Shape /\ AgreeInv)'
  BY NextKeepsShape, NextKeepsAgree
<1>3. QED
  BY <1>1, <1>2, PTL DEF Spec

-----------------------------------------------------------------------------
(* The form of the operations.                                             *)

OpsInv ==
  /\ page.opsMode \in OpsModes
  /\ DOMAIN page.opsFields = OpsModes
  /\ \A mode \in OpsModes : page.opsFields[mode] \in OpsFields[mode]

LEMMA InitOps == Init => OpsInv
<1> SUFFICES ASSUME Init PROVE OpsInv
  OBVIOUS
<1>1. page.opsMode = "add" /\ page.opsFields = InitialFields
  BY DEF Init
<1>2. /\ DOMAIN InitialFields = OpsModes
      /\ InitialFields.add \in OpsFields.add /\ InitialFields.remove \in OpsFields.remove
      /\ InitialFields.reset \in OpsFields.reset /\ InitialFields.scale \in OpsFields.scale
      /\ InitialFields.backup \in OpsFields.backup
  BY DEF InitialFields, OpsFields, OpsModes, Roles
<1>3. \A mode \in OpsModes : InitialFields[mode] \in OpsFields[mode]
  BY <1>2 DEF OpsModes
<1>4. QED
  BY <1>1, <1>2, <1>3 DEF OpsInv, OpsModes

LEMMA KeptOps == OpsInv /\ Keeps(page, page') => OpsInv'
BY DEF OpsInv, Keeps

LEMMA OthersKeepOps ==
  ASSUME Shape, PersonActs, ~ChooseOperation, ~FillOperation
  PROVE  Keeps(page, page')
<1> DEFINE p == page
<1>0. IsPage(p)
  BY DEF Shape
<1>1. ASSUME NEW name, NEW r, NEW requests, Act(name, r, requests) PROVE page' = r
  BY <1>1 DEF Act
<1>2. CASE SwitchTab
  <2>1. page' = SwitchToFiles(p) \/ page' = SwitchToOps(p)
    BY <1>1, <1>2 DEF SwitchTab
  <2>2. Keeps(p, SwitchToFiles(p))
    BY <1>0, SwitchedToFiles
  <2>3. Keeps(p, SwitchToOps(p))
    BY <1>0, SwitchedToOps
  <2>4. QED
    BY <2>1, <2>2, <2>3
<1>3. CASE ClickFile \/ ClickSearchResult
  <2>1. PICK path \in Files : page' = SelectFile(p, path)
    BY <1>1, <1>3 DEF ClickFile, ClickSearchResult, OpenFile, RenderSidebar
  <2>2. QED
    BY <1>0, <2>1, SelectedFile
<1>4. CASE ClickHosts
  <2>1. page' = SelectHosts(p)
    BY <1>1, <1>4 DEF ClickHosts
  <2>2. QED
    BY <1>0, <2>1, SelectedHosts
<1>5. CASE PickInventory
  <2>1. PICK inv : page' = ChooseInventory(p, inv, None).page
    BY <1>1, <1>5 DEF PickInventory
  <2>2. QED
    BY <1>0, <2>1, InventoryChosen
<1>6. CASE CreateInventory \/ DeleteInventory \/ ClickSave
  <2>1. page' = p
    BY <1>1, <1>6 DEF CreateInventory, DeleteInventory, ClickSave
  <2>2. QED
    BY <2>1 DEF Keeps
<1>7. CASE TypeValue
  <2>1. PICK k, v : page' = OnFieldChange(p, k, v)
    BY <1>1, <1>7 DEF TypeValue
  <2>2. Keeps(p, OnFieldChange(p, k, v))
    BY <1>0, Typed
  <2>3. QED
    BY <2>1, <2>2
<1>8. CASE TypeHosts
  <2>1. PICK r, v : /\ page' = r
                    /\ \/ r = ChangeHostCard(p, v) \/ r = ChangeHostsText(p, v)
                       \/ (r = AddHost(p, v) /\ p.view \in {"hosts", "hostsRaw"})
    BY <1>1, <1>8 DEF TypeHosts
  <2>2. Keeps(p, r)
    BY <1>0, <2>1, TypedHosts
  <2>3. QED
    BY <2>1, <2>2
<1>9. CASE ClickToggle
  <2>1. page' = ToggleRawMode(p) \/ page' = ToggleHostsMode(p)
    BY <1>1, <1>9 DEF ClickToggle
  <2>2. Keeps(p, ToggleRawMode(p)) /\ Keeps(p, ToggleHostsMode(p))
    BY <1>0, Toggled DEF OnlyDrawn
  <2>3. QED
    BY <2>1, <2>2
<1>10. QED
  BY <1>2, <1>3, <1>4, <1>5, <1>6, <1>7, <1>8, <1>9 DEF PersonActs

LEMMA NextKeepsOps == Shape /\ OpsInv /\ [Next]_vars => OpsInv'
<1> SUFFICES ASSUME Shape, OpsInv, [Next]_vars PROVE OpsInv'
  OBVIOUS
<1>0. IsPage(page)
  BY DEF Shape
<1>1. CASE ChooseOperation
  <2>1. PICK mode \in OpsModes : page' = RenderOps([page EXCEPT !.opsMode = mode])
    BY <1>1 DEF ChooseOperation, Act
  <2> DEFINE d == [page EXCEPT !.opsMode = mode]
  <2>2. IsPage(d) /\ d.opsMode = mode /\ d.opsFields = page.opsFields
    BY <1>0 DEF IsPage, PageFields
  <2> HIDE DEF d
  <2>3. Keeps(d, RenderOps(d))
    BY <2>2, Drawings DEF OnlyDrawn
  <2>4. page'.opsMode = mode /\ page'.opsFields = page.opsFields
    BY <2>1, <2>2, <2>3 DEF Keeps, d
  <2>5. QED
    BY <2>4 DEF OpsInv
<1>2. CASE FillOperation
  <2>1. PICK g \in OpsFields[page.opsMode] : page' = [page EXCEPT !.opsFields[page.opsMode] = g]
    BY <1>2 DEF FillOperation, Act
  <2>2. /\ page'.opsMode = page.opsMode
        /\ page'.opsFields = [page.opsFields EXCEPT ![page.opsMode] = g]
    BY <1>0, <2>1 DEF IsPage, PageFields
  <2>3. QED
    BY <2>1, <2>2 DEF OpsInv
<1>3. CASE PersonActs /\ ~ChooseOperation /\ ~FillOperation
  BY <1>3, OthersKeepOps, KeptOps
<1>4. ASSUME NEW i \in DOMAIN inFlight, Serve(i) \/ Fail(i) PROVE OpsInv'
  <2>1. page' = page
    BY <1>4 DEF Serve, Fail
  <2>2. QED
    BY <2>1 DEF OpsInv
<1>5. ASSUME NEW i \in DOMAIN inFlight, Hear(i) PROVE OpsInv'
  <2> DEFINE q == inFlight[i]
  <2>1. page' = Heard(page, q).page /\ q.status = "answered" /\ IsRequest(q)
    BY <1>5 DEF Hear, Shape
  <2> HIDE DEF q
  <2>2. Keeps(page, Heard(page, q).page)
    <3>1. CASE q.op \in OwnTab
      BY <1>0, <2>1, <3>1, HeardOwnTab DEF OwnTab
    <3>2. CASE q.op \in OfInventory
      BY <1>0, <2>1, <3>2, HeardInventory DEF OfInventory
    <3>3. QED
      BY <2>1, <3>1, <3>2, HeardKinds
  <2>3. QED
    BY <2>1, <2>2, KeptOps
<1>6. CASE UNCHANGED vars
  BY <1>6 DEF vars, OpsInv
<1>7. QED
  BY <1>1, <1>2, <1>3, <1>4, <1>5, <1>6 DEF Next

\* The last command of an operation: what it is limited to.
LEMMA LastCommand ==
  ASSUME NEW inv, NEW mode \in OpsModes, NEW f \in OpsFields[mode]
  PROVE  LET commands == BuildOpsCommands(inv, mode, f) IN
         commands[Len(commands)].limit \cap Nodes =
           IF "nodeNames" \in RenderOpsFields(mode, f) THEN f.nodeNames ELSE {}
<1> DEFINE facts == Playbook(inv, "facts.yml", {}, {})
           C == BuildOpsCommands(inv, mode, f)
           L == IF "nodeNames" \in RenderOpsFields(mode, f) THEN f.nodeNames ELSE {}
<1>1. ASSUME NEW y, NEW b \in BOOLEAN
      PROVE  LET c == (IF b THEN <<facts>> ELSE <<>>) \o <<y>> IN c[Len(c)] = y
  <2> DEFINE first == IF b THEN <<facts>> ELSE <<>>
  <2> HIDE DEF facts
  <2>1. first \in Seq({facts})
    BY <1>1
  <2>2. IsList(first)
    BY <2>1, ListOf
  <2> HIDE DEF first
  <2>3. LET c == first \o <<y>> IN
        IsList(c) /\ DOMAIN c = 1..(Len(first) + 1) /\ c[Len(first) + 1] = y
    BY <2>2, ListJoined
  <2>4. LET c == first \o <<y>> IN Len(c) \in Nat /\ DOMAIN c = 1..Len(c)
    BY <2>3, ListPositions
  <2>5. LET c == first \o <<y>> IN Len(c) = Len(first) + 1
    BY <2>2, <2>3, <2>4, ListPositions
  <2>6. QED
    BY <2>3, <2>5 DEF first
<1>2. \A name, limit, extra : Playbook(inv, name, limit, extra).limit = limit
  BY DEF Playbook
<1>3. CASE mode = "add"
  <2>1. f \in [role : Roles, nodeNames : SUBSET Nodes, refreshFacts : BOOLEAN, etcdRetries : BOOLEAN]
    BY <1>3 DEF OpsFields
  <2>2. CASE f.role = "worker"
    <3> DEFINE y == Playbook(inv, "scale.yml", f.nodeNames, {})
    <3>1. C = (IF f.refreshFacts THEN <<facts>> ELSE <<>>) \o <<y>>
      BY <1>3, <2>2 DEF BuildOpsCommands
    <3>2. y.limit = f.nodeNames
      BY <1>2
    <3>3. L = f.nodeNames
      BY <1>3, <2>2 DEF RenderOpsFields
    <3> HIDE DEF y, C, facts
    <3>4. C[Len(C)] = y
      BY <1>1, <2>1, <3>1
    <3>5. QED
      BY <2>1, <3>2, <3>3, <3>4 DEF C
  <2>3. CASE f.role = "control_plane"
    <3>1. C = <<Playbook(inv, "cluster.yml", {"kube_control_plane"}, {})>>
      BY <1>3, <2>3 DEF BuildOpsCommands
    <3>2. C[Len(C)].limit = {"kube_control_plane"}
      BY <1>2, <3>1
    <3>3. L = {}
      BY <1>3, <2>3 DEF RenderOpsFields
    <3>4. QED
      BY <3>2, <3>3, NodesAssumption
  <2>4. CASE f.role = "etcd"
    <3> DEFINE y == Playbook(inv, "cluster.yml", {"etcd", "kube_control_plane"},
                             {"ignore_assert_errors"} \cup Given("etcd_retries", f.etcdRetries))
    <3>1. C = <<y>>
      BY <1>3, <2>4 DEF BuildOpsCommands
    <3>2. y.limit = {"etcd", "kube_control_plane"}
      BY <1>2
    <3>3. L = {}
      BY <1>3, <2>4 DEF RenderOpsFields
    <3> HIDE DEF y, C
    <3>4. C[Len(C)] = y
      BY <3>1
    <3>5. QED
      BY <3>2, <3>3, <3>4, NodesAssumption DEF C
  <2>5. QED
    BY <2>1, <2>2, <2>3, <2>4 DEF Roles
<1>4. CASE mode = "remove"
  <2> DEFINE y == Playbook(inv, "remove-node.yml", {},
                           {"node"} \cup Given("allow_ungraceful_removal", f.offline))
  <2>1. C = <<y>>
    BY <1>4 DEF BuildOpsCommands
  <2>2. y.limit = {} /\ L = {}
    BY <1>2, <1>4 DEF RenderOpsFields
  <2> HIDE DEF y, C
  <2>3. C[Len(C)] = y
    BY <2>1
  <2>4. QED
    BY <2>2, <2>3 DEF C
<1>5. CASE mode = "reset"
  <2> DEFINE y == Playbook(inv, "reset.yml", ResetLimit(f), Given("reset_confirmation", f.skipConfirm))
  <2>1. C = <<y>>
    BY <1>5 DEF BuildOpsCommands
  <2>2. y.limit = ResetLimit(f)
    BY <1>2
  <2>3. f.nodeNames \subseteq Nodes
    BY <1>5 DEF OpsFields
  <2>4. L = ResetLimit(f) /\ ResetLimit(f) \subseteq Nodes
    BY <1>5, <2>3 DEF RenderOpsFields, ResetLimit
  <2> HIDE DEF y, C
  <2>5. C[Len(C)] = y
    BY <2>1
  <2>6. QED
    BY <2>2, <2>4, <2>5 DEF C
<1>6. CASE mode = "scale"
  <2> DEFINE y == Playbook(inv, "scale.yml", f.nodeNames, {})
             b == f.nodeNames # {} /\ f.refreshFacts
  <2>1. C = (IF b THEN <<facts>> ELSE <<>>) \o <<y>>
    BY <1>6 DEF BuildOpsCommands
  <2>2. f \in [nodeNames : SUBSET Nodes, refreshFacts : BOOLEAN]
    BY <1>6 DEF OpsFields
  <2>3. y.limit = f.nodeNames /\ b \in BOOLEAN
    BY <1>2, <2>2
  <2>4. L = f.nodeNames
    BY <1>6 DEF RenderOpsFields
  <2> HIDE DEF y, C, b, facts
  <2>5. C[Len(C)] = y
    BY <1>1, <2>1, <2>3
  <2>6. QED
    BY <2>2, <2>3, <2>4, <2>5 DEF C
<1>7. CASE mode = "backup"
  <2> DEFINE y == Playbook(inv, "etcd-backup-schedule.yml", {},
                    {IF f.preset = "custom" /\ f.customSchedule THEN "custom" ELSE "preset"})
  <2>1. C = <<y>>
    BY <1>7 DEF BuildOpsCommands
  <2>2. y.limit = {} /\ L = {}
    BY <1>2, <1>7 DEF RenderOpsFields
  <2> HIDE DEF y, C
  <2>3. C[Len(C)] = y
    BY <2>1
  <2>4. QED
    BY <2>2, <2>3 DEF C
<1>8. QED
  BY <1>3, <1>4, <1>5, <1>6, <1>7 DEF OpsModes

-----------------------------------------------------------------------------
(* The theorems.                                                           *)

\* However many files, inventories and requests there are, a save carries the
\* values of the file it is addressed to and of no other, as long as the page is
\* used as it expects.
THEOREM SavesOwnEdits == Spec => []SavesCarryTheirOwnEdits
<1>1. Shape /\ AgreeInv => SavesCarryTheirOwnEdits
  BY DEF AgreeInv, Agree, Underway, Mine, SavesCarryTheirOwnEdits
<1>2. QED
  BY <1>1, AgreeAlways, PTL

\* Nor does a save carry what the person agreed to discard, but after leaving
\* the tab, where switchTab keeps it.
THEOREM DiscardsStay == Spec => []DiscardedStaysDiscarded
<1>1. Shape /\ AgreeInv => DiscardedStaysDiscarded
  BY DEF AgreeInv, Agree, Underway, Mine, DiscardedStaysDiscarded
<1>2. QED
  BY <1>1, AgreeAlways, PTL

\* The command of an operation is limited to the names that its form shows,
\* whatever was typed into inputs that it shows no more.
THEOREM OpsReach == Spec => []OpsReachIsWhatTheFormShows
<1>1. Init => Shape /\ OpsInv
  BY InitShape, InitOps
<1>2. Shape /\ OpsInv /\ [Next]_vars => (Shape /\ OpsInv)'
  BY NextKeepsShape, NextKeepsOps
<1>3. OpsInv => OpsReachIsWhatTheFormShows
  BY LastCommand DEF OpsInv, OpsReachIsWhatTheFormShows
<1>4. QED
  BY <1>1, <1>2, <1>3, PTL DEF Spec

-----------------------------------------------------------------------------
(***************************************************************************)
(* The page and the disk behind it: every variable keeps its type, what is *)
(* on the screen once nothing is awaited is what is on disk, and edits     *)
(* leave the form saved or discarded.                                      *)
(*                                                                         *)
(* Loads are answered in turn, and the last one is of the selection: so it *)
(* is enough that its answer is still true when it is heard.  A request    *)
(* that was served later may have changed the disk; then it is a save,     *)
(* which is never behind a load, or it created or deleted an inventory,    *)
(* after which the page loads its list, and so a selection, anew.          *)
(***************************************************************************)

(* Which inventory is preferred.                                           *)

LEMMA PreferredIsListed ==
  ASSUME NEW listed
  PROVE  Preferred(listed) \in listed \cup {Sample}
<1> DEFINE own == {i \in DOMAIN InvNames : InvNames[i] \in listed \ {Sample}}
<1>1. own \subseteq Nat
  BY EditorAssumption
<1>2. own # {} => InvNames[Min(own)] \in listed
  BY <1>1, LeastElement
<1>3. QED
  BY <1>2 DEF Preferred

-----------------------------------------------------------------------------
(* Types.                                                                  *)

DiskOK(d) ==
  /\ d = [x \in {"exists", "texts", "hosts"} |-> d[x]]
  /\ d.exists \subseteq Invs /\ Sample \in d.exists
  /\ d.texts \in [Invs -> [Files -> [Keys -> Contents]]]
  /\ d.hosts \in [Invs -> Contents]

EditsOK(body) == DOMAIN body \subseteq Keys /\ \A k \in DOMAIN body : body[k] \in Edit

\* What can be typed into the form is of a file.
EntriesOK(e) == DOMAIN e.vals \subseteq Keys /\ (DOMAIN e.vals # {} => e.inv \in Invs /\ e.path \in Files)

Views == {"empty", "file", "fileRaw", "hosts", "hostsRaw", "ops"}

PageOK(p) ==
  /\ IsPage(p)
  /\ p.inventory \in Invs /\ p.options \subseteq Invs /\ p.view \in Views
  /\ EditsOK(p.pending) /\ EntriesOK(p.entries)
  /\ p.hosts \in Edit /\ p.hostsRaw \in Edit /\ p.text \in Edit

RequestOK(q) ==
  /\ IsRequest(q)
  /\ q.op # "list" => q.inv \in Invs
  /\ q.then \in Invs \cup {None} /\ (q.op = "create" => q.then \in Invs)
  /\ q.op = "save" => EditsOK(q.body)
  /\ q.op = "saveHosts" => q.body[HOSTS_VIEW] \in Edit
  /\ q.status = "answered" =>
       /\ q.op = "list" => q.answer \subseteq Invs
       /\ q.op \in {"file", "save"} => EntriesOK(q.answer)
       /\ q.op \in {"hosts", "saveHosts"} => q.answer \in Edit

TypesHold ==
  /\ Shape /\ DiskOK(disk) /\ PageOK(page)
  /\ \A i \in DOMAIN inFlight : RequestOK(inFlight[i])
  /\ Len(inFlight) <= MaxInFlight

LEMMA ReadIsEdit ==
  ASSUME NEW inv \in Invs, NEW path \in Paths, NEW val \in Contents
  PROVE  Read(inv, path, val) \in Edit
BY DEF Read, Edit

LEMMA EmptyOK == EditsOK(NoEdits) /\ EntriesOK(NoEntries) /\ NoHosts \in Edit
<1>1. NoHosts \in Edit
  BY ReadIsEdit, EditorAssumption DEF NoHosts, Paths, Contents
<1>2. QED
  BY <1>1, NoBody DEF EditsOK, EntriesOK, NoEntries

\* What an accepted request makes of the disk, and what it answers.
LEMMA EffectOK ==
  ASSUME NEW d, DiskOK(d), NEW q, RequestOK(q), Accepts(d, q)
  PROVE  DiskOK(Effect(d, q))
<1>1. CASE q.op = "save"
  <2> DEFINE text == [k \in Keys |-> IF k \in DOMAIN q.body THEN q.body[k].val
                                   ELSE d.texts[q.inv][q.path][k]]
             texts == [d.texts EXCEPT ![q.inv] = [d.texts[q.inv] EXCEPT ![q.path] = text]]
  <2>1. q.inv \in Invs /\ q.path \in Files
    BY <1>1 DEF Accepts, ResolveFile, DiskOK
  <2>2. text \in [Keys -> Contents]
    BY <1>1, <2>1 DEF RequestOK, EditsOK, Edit, DiskOK
  <2>3. Effect(d, q) = [d EXCEPT !.texts = texts]
    BY <1>1, <2>1 DEF Effect, UpdateFile, DiskOK
  <2> HIDE DEF text
  <2>4. texts \in [Invs -> [Files -> [Keys -> Contents]]]
    BY <2>1, <2>2 DEF DiskOK
  <2> HIDE DEF texts
  <2>5. QED
    BY <2>3, <2>4 DEF DiskOK
<1>2. CASE q.op = "saveHosts"
  <2> DEFINE val == q.body[HOSTS_VIEW].val
             hosts == [d.hosts EXCEPT ![q.inv] = val]
  <2>1. q.inv \in Invs /\ val \in Contents
    BY <1>2 DEF RequestOK, Edit
  <2>2. Effect(d, q) = [d EXCEPT !.hosts = hosts]
    BY <1>2 DEF Effect, PutHosts, DiskOK
  <2> HIDE DEF val
  <2>3. hosts \in [Invs -> Contents]
    BY <2>1 DEF DiskOK
  <2> HIDE DEF hosts
  <2>4. QED
    BY <2>2, <2>3 DEF DiskOK
<1>3. CASE q.op = "create"
  <2> DEFINE texts == [d.texts EXCEPT ![q.then] = d.texts[q.inv]]
             hosts == [d.hosts EXCEPT ![q.then] = d.hosts[q.inv]]
             exists == d.exists \cup {q.then}
  <2>1. q.inv \in Invs /\ q.then \in Invs
    BY <1>3 DEF RequestOK
  <2>2. /\ texts \in [Invs -> [Files -> [Keys -> Contents]]] /\ hosts \in [Invs -> Contents]
        /\ exists \subseteq Invs /\ Sample \in exists
    BY <2>1 DEF DiskOK
  <2>3. Effect(d, q) = [exists |-> exists, texts |-> texts, hosts |-> hosts]
    BY <1>3 DEF Effect, CloneInventory
  <2> HIDE DEF texts, hosts, exists
  <2>4. QED
    BY <2>2, <2>3 DEF DiskOK
<1>4. CASE q.op = "delete"
  <2>1. q.inv # Sample
    BY <1>4 DEF Accepts
  <2>2. Effect(d, q) = [d EXCEPT !.exists = d.exists \ {q.inv}]
    BY <1>4 DEF Effect, RemoveInventory, DiskOK
  <2>3. QED
    BY <2>1, <2>2 DEF DiskOK
<1>5. CASE q.op \notin {"save", "saveHosts", "create", "delete"}
  BY <1>5 DEF Effect
<1>6. QED
  BY <1>1, <1>2, <1>3, <1>4, <1>5

LEMMA AnswerOK ==
  ASSUME NEW d, NEW e, DiskOK(d), DiskOK(e), NEW q, RequestOK(q), Accepts(d, q)
  PROVE  RequestOK([q EXCEPT !.status = "answered", !.answer = Answer(e, q)])
<1> DEFINE a == Answer(e, q)
           r == [q EXCEPT !.status = "answered", !.answer = a]
<1>1. IsRequest(r)
  BY AnswerIsOfRequest DEF RequestOK
<1>2. q.op = "list" => a \subseteq Invs
  BY DEF Answer, DiskOK
<1>3. q.op \in {"file", "save"} => EntriesOK(a)
  <2> SUFFICES ASSUME q.op \in {"file", "save"} PROVE EntriesOK(a)
    OBVIOUS
  <2>1. q.inv \in Invs /\ q.path \in Files
    BY DEF Accepts, ResolveFile, DiskOK
  <2>2. e.texts[q.inv][q.path] \in [Keys -> Contents]
    BY <2>1 DEF DiskOK
  <2>3. a = [inv |-> q.inv, path |-> q.path, vals |-> e.texts[q.inv][q.path]]
    BY DEF Answer, GetFile
  <2>4. QED
    BY <2>1, <2>2, <2>3 DEF EntriesOK
<1>4. q.op \in {"hosts", "saveHosts"} => a \in Edit
  <2> SUFFICES ASSUME q.op \in {"hosts", "saveHosts"} PROVE a \in Edit
    OBVIOUS
  <2>1. q.inv \in Invs /\ HOSTS_VIEW \in Paths
    BY DEF RequestOK, Paths
  <2>2. e.hosts[q.inv] \in Contents
    BY <2>1 DEF DiskOK
  <2>3. a = Read(q.inv, HOSTS_VIEW, e.hosts[q.inv])
    BY DEF Answer, GetHosts
  <2>4. QED
    BY <2>1, <2>2, <2>3, ReadIsEdit
<1> HIDE DEF a
<1>5. /\ r.op = q.op /\ r.inv = q.inv /\ r.then = q.then /\ r.body = q.body /\ r.answer = a
  BY DEF RequestOK, IsRequest
<1> HIDE DEF r
<1>6. RequestOK(r)
  BY <1>1, <1>2, <1>3, <1>4, <1>5 DEF RequestOK
<1>7. QED
  BY <1>6 DEF r, a

\* What the handlers make of a page.
LEMMA DrawnOK ==
  ASSUME NEW p, PageOK(p), NEW view \in Views, NEW text \in Edit
  PROVE  PageOK(Draw(p, view, text))
<1>1. p = [x \in PageFields |-> p[x]]
  BY DEF PageOK, IsPage
<1>2. IsEdit(text)
  BY DEF IsEdit, Edit
<1>3. IsPage(Draw(p, view, text))
  BY <1>2, DrawnPage DEF PageOK
<1>4. QED
  BY <1>1, <1>3 DEF PageOK, Draw, PageFields

LEMMA DrawingsOK ==
  ASSUME NEW p, PageOK(p)
  PROVE  /\ PageOK(DrawEmptyState(p)) /\ PageOK(RenderOps(p))
         /\ PageOK(RenderFile(p)) /\ PageOK(RenderHosts(p))
<1>1. p.hostsRaw \in Edit /\ NoHosts \in Edit
  BY EmptyOK DEF PageOK
<1>2. PageOK(DrawEmptyState(p)) /\ PageOK(RenderOps(p))
  BY <1>1, DrawnOK DEF DrawEmptyState, RenderOps, Views
<1>3. PageOK(RenderFile(p))
  BY <1>1, DrawnOK DEF RenderFile, Views
<1>4. PageOK(RenderHosts(p))
  BY <1>1, DrawnOK DEF RenderHosts, Views
<1>5. QED
  BY <1>2, <1>3, <1>4

LEMMA DiscardedOK ==
  ASSUME NEW p, PageOK(p)
  PROVE  PageOK(Discarded(p)) /\ Discarded(p).options = p.options
<1> DEFINE r == Discarded(p)
<1>1. p = [x \in PageFields |-> p[x]] /\ IsPage(r)
  BY DiscardedPage DEF PageOK, IsPage
<1>2. CASE ~HasUnsavedChanges(p)
  BY <1>2 DEF Discarded
<1>3. CASE HasUnsavedChanges(p) /\ p.currentPath = HOSTS_VIEW
  <2> DEFINE hosts == [p.hosts EXCEPT !.gone = TRUE]
  <2>1. hosts \in Edit
    BY DEF PageOK, Edit
  <2>2. r = [p EXCEPT !.hosts = hosts]
    BY <1>1, <1>3 DEF Discarded, PageFields
  <2> HIDE DEF hosts, r
  <2>3. QED
    BY <1>1, <2>1, <2>2 DEF PageOK, PageFields, r
<1>4. CASE HasUnsavedChanges(p) /\ p.currentPath # HOSTS_VIEW
  <2> DEFINE gone == [k \in DOMAIN p.pending |-> [p.pending[k] EXCEPT !.gone = TRUE]]
  <2>1. EditsOK(gone)
    BY DEF PageOK, EditsOK, Edit
  <2>2. r = [p EXCEPT !.pending = gone]
    BY <1>1, <1>4 DEF Discarded, PageFields
  <2> HIDE DEF gone, r
  <2>3. QED
    BY <1>1, <2>1, <2>2 DEF PageOK, PageFields, r
<1>5. QED
  BY <1>2, <1>3, <1>4

LEMMA SelectionsOK ==
  ASSUME NEW p, PageOK(p)
  PROVE  /\ PageOK(SwitchToFiles(p)) /\ PageOK(SwitchToOps(p)) /\ PageOK(SelectHosts(p))
         /\ \A inv \in Invs : PageOK(SelectInventory(p, inv))
         /\ \A path \in Files : PageOK(SelectFile(p, path))
<1> DEFINE d == Discarded(p)
           f == [p EXCEPT !.topTab = "files"]
<1>1. p = [x \in PageFields |-> p[x]] /\ IsPage(p) /\ None \in Paths /\ HOSTS_VIEW \in Paths
  BY DEF PageOK, IsPage, Paths
<1>2. PageOK(d) /\ d = [x \in PageFields |-> d[x]]
  BY DiscardedOK DEF PageOK, IsPage
<1>3. PageOK(f)
  BY <1>1 DEF PageOK, IsPage, PageFields
<1>4. PageOK(SwitchToFiles(p))
  <2>1. SwitchToFiles(p) \in {RenderHosts(f), DrawEmptyState(f), RenderFile(f)}
    BY EditorAssumption DEF SwitchToFiles
  <2> HIDE DEF f
  <2>2. QED
    BY <1>3, <2>1, DrawingsOK
<1> HIDE DEF d
<1>5. PageOK(SwitchToOps(p))
  <2>1. SwitchToOps(p) = [d EXCEPT !.topTab = "ops"]
    BY DEF SwitchToOps, d
  <2>2. QED
    BY <1>2, <2>1 DEF PageOK, IsPage, PageFields
<1>6. PageOK(SelectHosts(p))
  <2>1. SelectHosts(p) = [d EXCEPT !.currentPath = HOSTS_VIEW, !.hostsMode = "form", !.hostsDirty = FALSE]
    BY DEF SelectHosts, d
  <2>2. QED
    BY <1>1, <1>2, <2>1 DEF PageOK, IsPage, PageFields
<1>7. ASSUME NEW inv \in Invs PROVE PageOK(SelectInventory(p, inv))
  BY <1>1 DEF PageOK, IsPage, PageFields, SelectInventory
<1>8. ASSUME NEW path \in Files PROVE PageOK(SelectFile(p, path))
  <2>1. SelectFile(p, path) = [d EXCEPT !.currentPath = path, !.pending = NoEdits, !.rawMode = FALSE]
    BY DEF SelectFile, d
  <2>2. path \in Paths /\ EditsOK(NoEdits) /\ DOMAIN NoEdits = {}
    BY EmptyOK, NoBody DEF Paths
  <2>3. QED
    BY <1>2, <2>1, <2>2 DEF PageOK, IsPage, PageFields
<1>9. QED
  BY <1>4, <1>5, <1>6, <1>7, <1>8

LEMMA TogglesOK ==
  ASSUME NEW p, PageOK(p)
  PROVE  /\ PageOK(ToggleRawMode(p)) /\ PageOK(ToggleHostsMode(p))
         /\ \A mode : PageOK(RenderOps([p EXCEPT !.opsMode = mode]))
         /\ \A fields : PageOK([p EXCEPT !.opsFields = fields])
<1>1. p = [x \in PageFields |-> p[x]] /\ IsPage(p)
  BY DEF PageOK, IsPage
<1>2. ASSUME NEW raw, NEW mode, NEW hosts, NEW fields
      PROVE  /\ PageOK([p EXCEPT !.rawMode = raw]) /\ PageOK([p EXCEPT !.opsMode = mode])
             /\ PageOK([p EXCEPT !.hostsMode = hosts]) /\ PageOK([p EXCEPT !.opsFields = fields])
  BY <1>1 DEF PageOK, IsPage, PageFields
<1>3. /\ ToggleRawMode(p) = RenderFile([p EXCEPT !.rawMode = ~p.rawMode])
      /\ ToggleHostsMode(p) =
           RenderHosts([p EXCEPT !.hostsMode = IF p.hostsMode = "raw" THEN "form" ELSE "raw"])
  BY <1>1 DEF ToggleRawMode, ToggleHostsMode, PageFields
<1>4. QED
  BY <1>2, <1>3, DrawingsOK

LEMMA TypingOK ==
  ASSUME NEW p, PageOK(p), NEW v \in Values
  PROVE  /\ \A k \in DOMAIN p.entries.vals : PageOK(OnFieldChange(p, k, v))
         /\ PageOK(ChangeHostCard(p, v)) /\ PageOK(AddHost(p, v)) /\ PageOK(ChangeHostsText(p, v))
<1>1. p = [x \in PageFields |-> p[x]] /\ IsPage(p) /\ v \in Contents
  BY DEF PageOK, IsPage, Contents
<1>2. ASSUME NEW k \in DOMAIN p.entries.vals PROVE PageOK(OnFieldChange(p, k, v))
  <2> DEFINE new == Read(p.entries.inv, p.entries.path, v)
             pending == [j \in DOMAIN p.pending \cup {k} |-> IF j = k THEN new ELSE p.pending[j]]
             r == OnFieldChange(p, k, v)
  <2>1. r = [p EXCEPT !.pending = pending] /\ IsPage(r)
    BY <1>1, Typed DEF OnFieldChange, PageFields
  <2>2. p.entries.inv \in Invs /\ p.entries.path \in Paths /\ k \in Keys
    BY DEF PageOK, EntriesOK, Paths
  <2>3. new \in Edit
    BY <1>1, <2>2, ReadIsEdit
  <2> HIDE DEF new
  <2>4. EditsOK(pending)
    BY <2>2, <2>3 DEF PageOK, EditsOK
  <2> HIDE DEF pending, r
  <2>5. QED
    BY <1>1, <2>1, <2>4 DEF PageOK, PageFields, r
<1> DEFINE hosts == [p.hosts EXCEPT !.val = v, !.gone = FALSE]
           text == [p.text EXCEPT !.val = v]
           c == ChangeHostCard(p, v)
           t == ChangeHostsText(p, v)
<1>3. hosts \in Edit /\ text \in Edit
  BY <1>1 DEF PageOK, Edit
<1>4. c = [p EXCEPT !.hosts = hosts, !.hostsDirty = TRUE] /\ t = [p EXCEPT !.text = text, !.hostsDirty = TRUE]
  BY <1>1 DEF ChangeHostCard, ChangeHostsText, PageFields
<1>5. IsPage(c) /\ IsPage(t)
  BY <1>1, TypedHosts
<1> HIDE DEF hosts, text, c, t
<1>6. PageOK(c)
  BY <1>1, <1>3, <1>4, <1>5 DEF PageOK, PageFields
<1>7. PageOK(t)
  BY <1>1, <1>3, <1>4, <1>5 DEF PageOK, PageFields
<1>8. PageOK(RenderHosts(c))
  BY <1>6, DrawingsOK
<1>9. QED
  BY <1>2, <1>6, <1>7, <1>8 DEF AddHost, c, t

LEMMA LoadOK ==
  ASSUME NEW op \in Loads, NEW inv, inv \in Invs \/ op = "list", NEW path,
         op = "hosts" => path = HOSTS_VIEW, NEW then \in Invs \cup {None}
  PROVE  RequestOK(Load(op, inv, path, then))
<1> DEFINE q == Load(op, inv, path, then)
<1>1. IsRequest(q)
  BY LoadAsked
<1>2. q.op = op /\ q.inv = inv /\ q.then = then /\ q.status = "sent"
  BY DEF Load, Request
<1>3. op \notin {"create", "save", "saveHosts"}
  BY DEF Loads
<1> HIDE DEF q
<1>4. RequestOK(q)
  BY <1>1, <1>2, <1>3 DEF RequestOK
<1>5. QED
  BY <1>4 DEF q

LEMMA SavesOK ==
  ASSUME NEW p, PageOK(p)
  PROVE  /\ RequestOK(SaveForm(p)) /\ RequestOK(SaveRaw(p))
         /\ RequestOK(SaveHostsForm(p)) /\ RequestOK(SaveHostsRaw(p))
<1>1. /\ p.inventory \in Invs /\ EditsOK(p.pending) /\ p.hosts \in Edit /\ p.text \in Edit
  BY DEF PageOK
<1>2. /\ IsRequest(SaveForm(p)) /\ IsRequest(SaveRaw(p))
      /\ IsRequest(SaveHostsForm(p)) /\ IsRequest(SaveHostsRaw(p))
  BY Asked DEF SaveForm, SaveRaw, SaveHostsForm, SaveHostsRaw, Saves
<1>3. RequestOK(SaveForm(p))
  <2> DEFINE q == SaveForm(p)
  <2>1. /\ q.op = "save" /\ q.inv = p.inventory /\ q.then = None /\ q.status = "sent"
        /\ q.body = p.pending
    BY DEF SaveForm, Request
  <2> HIDE DEF q
  <2>2. RequestOK(q)
    BY <1>1, <1>2, <2>1 DEF RequestOK, q
  <2>3. QED
    BY <2>2 DEF q
<1>4. RequestOK(SaveRaw(p))
  <2> DEFINE q == SaveRaw(p)
  <2>1. q.op = "raw" /\ q.inv = p.inventory /\ q.then = None /\ q.status = "sent"
    BY DEF SaveRaw, Request
  <2> HIDE DEF q
  <2>2. RequestOK(q)
    BY <1>1, <1>2, <2>1 DEF RequestOK, q
  <2>3. QED
    BY <2>2 DEF q
<1>5. RequestOK(SaveHostsForm(p))
  <2> DEFINE q == SaveHostsForm(p)
  <2>1. /\ q.op = "saveHosts" /\ q.inv = p.inventory /\ q.then = None /\ q.status = "sent"
        /\ q.body[HOSTS_VIEW] = p.hosts
    BY DEF SaveHostsForm, Request
  <2> HIDE DEF q
  <2>2. RequestOK(q)
    BY <1>1, <1>2, <2>1 DEF RequestOK, q
  <2>3. QED
    BY <2>2 DEF q
<1>6. RequestOK(SaveHostsRaw(p))
  <2> DEFINE q == SaveHostsRaw(p)
  <2>1. /\ q.op = "saveHosts" /\ q.inv = p.inventory /\ q.then = None /\ q.status = "sent"
        /\ q.body[HOSTS_VIEW] = p.text
    BY DEF SaveHostsRaw, Request
  <2> HIDE DEF q
  <2>2. RequestOK(q)
    BY <1>1, <1>2, <2>1 DEF RequestOK, q
  <2>3. QED
    BY <2>2 DEF q
<1>7. QED
  BY <1>3, <1>4, <1>5, <1>6

\* Nothing is asked next, or one thing is.
OneOrNone(next) == next = <<>> \/ \E n : next = <<n>> /\ RequestOK(n)

LEMMA ChosenOK ==
  ASSUME NEW p, PageOK(p), NEW inv \in Invs, NEW then \in Invs \cup {None}
  PROVE  LET a == ChooseInventory(p, inv, then) IN PageOK(a.page) /\ OneOrNone(a.next)
<1> DEFINE n == Load("files", inv, None, then)
           r == SelectInventory(p, inv)
<1>1. RequestOK(n) /\ PageOK(r)
  BY LoadOK, SelectionsOK DEF Loads
<1>2. ChooseInventory(p, inv, then) = [page |-> r, next |-> <<n>>]
  BY DEF ChooseInventory, Await
<1> HIDE DEF n, r
<1>3. OneOrNone(<<n>>)
  BY <1>1 DEF OneOrNone
<1>4. QED
  BY <1>1, <1>2, <1>3

LEMMA ShownOK ==
  ASSUME NEW p, PageOK(p), NEW then \in Invs \cup {None}
  PROVE  LET a == InventoryShown(p, then) IN PageOK(a.page) /\ OneOrNone(a.next)
<1>1. CASE then = None
  BY <1>1 DEF InventoryShown, Page, OneOrNone
<1>2. CASE then # None
  <2>1. InventoryShown(p, then) = ChooseInventory(p, then, None) /\ then \in Invs
    BY <1>2 DEF InventoryShown
  <2>2. QED
    BY <2>1, ChosenOK
<1>3. QED
  BY <1>1, <1>2

LEMMA HeardOK ==
  ASSUME NEW p, PageOK(p), NEW q, RequestOK(q), q.status = "answered"
  PROVE  LET a == Heard(p, q) IN PageOK(a.page) /\ OneOrNone(a.next)
<1>1. p = [x \in PageFields |-> p[x]] /\ IsPage(p) /\ IsRequest(q) /\ q.then \in Invs \cup {None}
  BY DEF PageOK, IsPage, RequestOK
<1>2. CASE q.op = "list"
  <2> DEFINE d == [p EXCEPT !.options = q.answer]
             inv == Preferred(q.answer)
  <2>1. q.answer \subseteq Invs
    BY <1>2 DEF RequestOK
  <2>2. inv \in Invs
    BY <2>1, PreferredIsListed, EditorAssumption
  <2>3. PageOK(d)
    BY <1>1, <2>1 DEF PageOK, IsPage, PageFields
  <2>4. Heard(p, q) = ChooseInventory(d, inv, q.then)
    BY <1>2 DEF Heard, AfterList
  <2> HIDE DEF d, inv
  <2>5. QED
    BY <1>1, <2>2, <2>3, <2>4, ChosenOK
<1>3. CASE q.op = "files"
  <2>1. CASE p.topTab = "ops"
    <3> DEFINE n == LoadOps(p, q.then)
    <3>1. RequestOK(n)
      BY <1>1, LoadOK DEF LoadOps, PageOK, Loads
    <3>2. Heard(p, q) = [page |-> p, next |-> <<n>>]
      BY <1>3, <2>1 DEF Heard, AfterFiles, Await
    <3> HIDE DEF n
    <3>3. OneOrNone(<<n>>)
      BY <3>1 DEF OneOrNone
    <3>4. QED
      BY <3>2, <3>3
  <2>2. CASE p.topTab # "ops"
    <3>1. Heard(p, q) = InventoryShown(DrawEmptyState(p), q.then)
      BY <1>3, <2>2 DEF Heard, AfterFiles
    <3>2. QED
      BY <1>1, <3>1, DrawingsOK, ShownOK
  <2>3. QED
    BY <2>1, <2>2
<1>4. CASE q.op = "ops"
  <2> DEFINE d == [p EXCEPT !.opsArg = q.answer]
  <2>1. PageOK(d)
    BY <1>1 DEF PageOK, IsPage, PageFields
  <2>2. Heard(p, q) = InventoryShown(RenderOps(d), q.then)
    BY <1>4 DEF Heard, AfterOps
  <2> HIDE DEF d
  <2>3. QED
    BY <1>1, <2>1, <2>2, DrawingsOK, ShownOK
<1>5. CASE q.op \in OwnTab
  <2> DEFINE f == [p EXCEPT !.entries = q.answer]
             s == [p EXCEPT !.entries = q.answer, !.pending = NoEdits]
             h == [p EXCEPT !.hosts = q.answer, !.hostsRaw = q.answer]
             g == [p EXCEPT !.hostsDirty = FALSE, !.hosts = q.answer, !.hostsRaw = q.answer]
  <2>1. ASSUME q.op \in {"file", "save"} PROVE PageOK(f) /\ PageOK(s)
    <3>1. EntriesOK(q.answer) /\ EditsOK(NoEdits) /\ DOMAIN NoEdits = {}
      BY <2>1, EmptyOK, NoBody DEF RequestOK
    <3>2. QED
      BY <1>1, <3>1 DEF PageOK, IsPage, PageFields
  <2>2. ASSUME q.op \in {"hosts", "saveHosts"} PROVE PageOK(h) /\ PageOK(g)
    <3>1. q.answer \in Edit /\ IsEdit(q.answer)
      BY <2>2 DEF RequestOK, Edit, IsEdit
    <3>2. QED
      BY <1>1, <3>1 DEF PageOK, IsPage, PageFields
  <2>3. /\ q.op = "file" => Heard(p, q) = Page(RenderFile(f))
        /\ q.op = "save" => Heard(p, q) = Page(RenderFile(s))
        /\ q.op = "hosts" => Heard(p, q) = Page(RenderHosts(h))
        /\ q.op = "saveHosts" => Heard(p, q) = Page(RenderHosts(g))
    BY DEF Heard, AfterFile, AfterSave, AfterHosts, AfterSaveHosts
  <2> HIDE DEF f, s, h, g
  <2>4. \E r : PageOK(r) /\ Heard(p, q) = [page |-> r, next |-> <<>>]
    BY <1>5, <2>1, <2>2, <2>3, DrawingsOK DEF OwnTab, Page
  <2>5. QED
    BY <2>4 DEF OneOrNone
<1>6. CASE q.op \in {"create", "delete"}
  <2> DEFINE n == Load("list", None, None, q.then)
  <2>1. RequestOK(n)
    BY <1>1, LoadOK DEF Loads
  <2>2. Heard(p, q) = [page |-> p, next |-> <<n>>]
    BY <1>6 DEF Heard, Await
  <2> HIDE DEF n
  <2>3. OneOrNone(<<n>>)
    BY <2>1 DEF OneOrNone
  <2>4. QED
    BY <2>2, <2>3
<1>7. QED
  BY <1>1, <1>2, <1>3, <1>4, <1>5, <1>6, HeardKinds DEF OwnTab, OfInventory

-----------------------------------------------------------------------------
(* What a person does, alternative by alternative: the page becomes r and  *)
(* the requests go out.                                                    *)

ToFiles(name, r, requests) ==
  /\ name = "tab" /\ page.topTab = "ops" /\ r = SwitchToFiles(page) /\ requests = <<>>

ToOps(name, r, requests) ==
  /\ name = "tab" /\ page.topTab = "files"
  /\ r = SwitchToOps(page) /\ requests = <<LoadOps(r, None)>>

OpensFile(name, r, requests) ==
  /\ name \in {"file", "search"} /\ (name = "file" => page.topTab = "files")
  /\ \E path \in Files :
       r = SelectFile(page, path) /\ requests = <<Load("file", page.inventory, path, None)>>

OpensHosts(name, r, requests) ==
  /\ name = "hosts" /\ page.topTab = "files"
  /\ r = SelectHosts(page) /\ requests = <<Load("hosts", page.inventory, HOSTS_VIEW, None)>>

PicksInventory(name, r, requests) ==
  /\ name = "inventory"
  /\ \E inv \in page.options :
       r = SelectInventory(page, inv) /\ requests = <<Load("files", inv, None, None)>>

AsksForInventory(name, r, requests) ==
  /\ name \in {"create", "delete"} /\ r = page
  /\ \E then \in Invs \cup {None} :
       /\ name = "create" => then \in Invs
       /\ requests = <<Request(name, page.inventory, None, NoEdits, then)>>

TypesValue(name, r, requests) ==
  /\ name = "type" /\ page.view = "file" /\ requests = <<>>
  /\ \E k \in DOMAIN page.entries.vals, v \in Values : r = OnFieldChange(page, k, v)

TypesHosts(name, r, requests) ==
  /\ name = "typeHosts" /\ page.view \in {"hosts", "hostsRaw"} /\ requests = <<>>
  /\ \E v \in Values : r \in {ChangeHostCard(page, v), AddHost(page, v), ChangeHostsText(page, v)}

SaveOf(q) ==
  \/ page.view = "file" /\ q = SaveForm(page)
  \/ page.view = "fileRaw" /\ q = SaveRaw(page)
  \/ page.view = "hosts" /\ q = SaveHostsForm(page)
  \/ page.view = "hostsRaw" /\ q = SaveHostsRaw(page)

SavesView(name, r, requests) ==
  name = "save" /\ r = page /\ \E q : requests = <<q>> /\ SaveOf(q)

TogglesView(name, r, requests) ==
  /\ name = "toggle" /\ requests = <<>>
  /\ \/ page.view \in {"file", "fileRaw"} /\ r = ToggleRawMode(page)
     \/ page.view \in {"hosts", "hostsRaw"} /\ r = ToggleHostsMode(page)

Operates(name, r, requests) ==
  /\ name = "ops" /\ page.view = "ops" /\ requests = <<>>
  /\ \/ \E mode : r = RenderOps([page EXCEPT !.opsMode = mode])
     \/ \E fields : r = [page EXCEPT !.opsFields = fields]

Does(name, r, requests) ==
  \/ ToFiles(name, r, requests) \/ ToOps(name, r, requests)
  \/ OpensFile(name, r, requests) \/ OpensHosts(name, r, requests)
  \/ PicksInventory(name, r, requests) \/ AsksForInventory(name, r, requests)
  \/ TypesValue(name, r, requests) \/ TypesHosts(name, r, requests)
  \/ SavesView(name, r, requests) \/ TogglesView(name, r, requests)
  \/ Operates(name, r, requests)

LEMMA PersonDoes ==
  ASSUME IsPage(page), PersonActs
  PROVE  \E name, r, requests : Act(name, r, requests) /\ Does(name, r, requests)
<1>1. CASE SwitchTab
  BY <1>1 DEF SwitchTab, Does, ToFiles, ToOps
<1>2. CASE ClickFile
  <2>1. PICK path \in Files : page.topTab = "files" /\ OpenFile("file", path)
    BY <1>2 DEF ClickFile, RenderSidebar
  <2>2. OpensFile("file", SelectFile(page, path), <<Load("file", page.inventory, path, None)>>)
    BY <2>1 DEF OpensFile
  <2>3. QED
    BY <2>1, <2>2 DEF OpenFile, Does
<1>3. CASE ClickSearchResult
  <2>1. PICK path \in Files : OpenFile("search", path)
    BY <1>3 DEF ClickSearchResult
  <2>2. OpensFile("search", SelectFile(page, path), <<Load("file", page.inventory, path, None)>>)
    BY <2>1 DEF OpensFile
  <2>3. QED
    BY <2>1, <2>2 DEF OpenFile, Does
<1>4. CASE ClickHosts
  BY <1>4 DEF ClickHosts, Does, OpensHosts
<1>5. CASE PickInventory
  <2>1. PICK inv \in page.options :
          LET c == ChooseInventory(page, inv, None) IN Act("inventory", c.page, c.next)
    BY <1>5 DEF PickInventory
  <2> DEFINE r == SelectInventory(page, inv)
             next == <<Load("files", inv, None, None)>>
  <2>2. ChooseInventory(page, inv, None) = [page |-> r, next |-> next]
    BY DEF ChooseInventory, Await
  <2>3. PicksInventory("inventory", r, next)
    BY DEF PicksInventory
  <2> HIDE DEF r, next
  <2>4. Act("inventory", r, next)
    BY <2>1, <2>2
  <2>5. QED
    BY <2>3, <2>4 DEF Does
<1>6. CASE CreateInventory
  <2>1. PICK then \in Invs :
          Act("create", page, <<Request("create", page.inventory, None, NoEdits, then)>>)
    BY <1>6 DEF CreateInventory
  <2>2. AsksForInventory("create", page, <<Request("create", page.inventory, None, NoEdits, then)>>)
    BY DEF AsksForInventory
  <2>3. QED
    BY <2>1, <2>2 DEF Does
<1>7. CASE DeleteInventory
  <2>1. AsksForInventory("delete", page, <<Request("delete", page.inventory, None, NoEdits, None)>>)
    BY DEF AsksForInventory
  <2>2. QED
    BY <1>7, <2>1 DEF Does, DeleteInventory
<1>8. CASE TypeValue
  <2>1. PICK k \in DOMAIN page.entries.vals, v \in Values :
          page.view = "file" /\ Act("type", OnFieldChange(page, k, v), <<>>)
    BY <1>8 DEF TypeValue
  <2>2. TypesValue("type", OnFieldChange(page, k, v), <<>>)
    BY <2>1 DEF TypesValue
  <2>3. QED
    BY <2>1, <2>2 DEF Does
<1>9. CASE TypeHosts
  <2>1. PICK v, r :
          /\ v \in Values
          /\ page.view \in {"hosts", "hostsRaw"} /\ Act("typeHosts", r, <<>>)
          /\ r \in {ChangeHostCard(page, v), AddHost(page, v), ChangeHostsText(page, v)}
    BY <1>9 DEF TypeHosts
  <2>2. TypesHosts("typeHosts", r, <<>>)
    BY <2>1 DEF TypesHosts
  <2>3. QED
    BY <2>1, <2>2 DEF Does
<1>10. CASE ClickSave
  <2>1. PICK q : SaveOf(q) /\ Act("save", page, <<q>>)
    BY <1>10 DEF ClickSave, SaveOf
  <2>2. SavesView("save", page, <<q>>)
    BY <2>1 DEF SavesView
  <2>3. QED
    BY <2>1, <2>2 DEF Does
<1>11. CASE ClickToggle
  BY <1>11 DEF ClickToggle, Does, TogglesView
<1>12. CASE ChooseOperation
  <2>1. PICK mode : page.view = "ops" /\ Act("ops", RenderOps([page EXCEPT !.opsMode = mode]), <<>>)
    BY <1>12 DEF ChooseOperation
  <2>2. Operates("ops", RenderOps([page EXCEPT !.opsMode = mode]), <<>>)
    BY <2>1 DEF Operates
  <2>3. QED
    BY <2>1, <2>2 DEF Does
<1>13. CASE FillOperation
  <2>1. PICK g : page.view = "ops" /\ Act("ops", [page EXCEPT !.opsFields[page.opsMode] = g], <<>>)
    BY <1>13 DEF FillOperation
  <2> DEFINE fields == [page.opsFields EXCEPT ![page.opsMode] = g]
  <2>2. [page EXCEPT !.opsFields[page.opsMode] = g] = [page EXCEPT !.opsFields = fields]
    BY DEF IsPage, PageFields
  <2> HIDE DEF fields
  <2>3. Operates("ops", [page EXCEPT !.opsFields = fields], <<>>)
    BY <2>1 DEF Operates
  <2>4. QED
    BY <2>1, <2>2, <2>3 DEF Does
<1>14. QED
  BY <1>1, <1>2, <1>3, <1>4, <1>5, <1>6, <1>7, <1>8, <1>9, <1>10, <1>11, <1>12, <1>13 DEF PersonActs

-----------------------------------------------------------------------------
(* Types are kept.                                                         *)

\* Where the elements of a list come from.
LEMMA ElementsLeft ==
  ASSUME NEW s, IsList(s), NEW i \in DOMAIN s
  PROVE  LET t == RemoveAt(s, i) IN
         /\ DOMAIN t = 1..(Len(s) - 1) /\ Len(t) = Len(s) - 1 /\ DOMAIN s = 1..Len(s) /\ Len(s) \in Nat
         /\ \A j \in DOMAIN t : \E m \in DOMAIN s : t[j] = s[m]
<1> DEFINE t == RemoveAt(s, i)
<1>1. /\ DOMAIN s = 1..Len(s) /\ Len(s) \in Nat /\ IsList(t) /\ DOMAIN t = 1..(Len(s) - 1)
      /\ \A j \in 1..(Len(s) - 1) : t[j] = IF j < i THEN s[j] ELSE s[j + 1]
  BY ListPositions, ListLeft
<1>2. Len(t) \in Nat /\ DOMAIN t = 1..Len(t)
  BY <1>1, ListPositions
<1> HIDE DEF t
<1>3. Len(t) = Len(s) - 1
  <2>1. \A m, n \in Nat : 1..m = 1..n => m = n
    OBVIOUS
  <2>2. Len(s) - 1 \in Nat
    BY <1>1
  <2>3. QED
    BY <1>1, <1>2, <2>1, <2>2
<1>4. ASSUME NEW j \in DOMAIN t PROVE \E m \in DOMAIN s : t[j] = s[m]
  <2>1. j \in DOMAIN s /\ j + 1 \in DOMAIN s
    BY <1>1
  <2>2. QED
    BY <1>1, <2>1
<1>5. QED
  BY <1>1, <1>3, <1>4 DEF t

LEMMA ElementsJoined ==
  ASSUME NEW s, IsList(s), NEW q
  PROVE  LET t == s \o <<q>> IN
         /\ DOMAIN s = 1..Len(s) /\ Len(s) \in Nat
         /\ DOMAIN t = 1..(Len(s) + 1) /\ Len(t) = Len(s) + 1 /\ t[Len(s) + 1] = q
         /\ \A j \in DOMAIN t : t[j] = q \/ (j \in DOMAIN s /\ t[j] = s[j])
<1> DEFINE t == s \o <<q>>
<1>1. /\ DOMAIN s = 1..Len(s) /\ Len(s) \in Nat /\ IsList(t) /\ DOMAIN t = 1..(Len(s) + 1)
      /\ \A j \in 1..Len(s) : t[j] = s[j]
      /\ t[Len(s) + 1] = q
  BY ListPositions, ListJoined
<1>2. Len(t) \in Nat /\ DOMAIN t = 1..Len(t)
  BY <1>1, ListPositions
<1> HIDE DEF t
<1>3. Len(t) = Len(s) + 1
  BY <1>1, <1>2
<1>4. QED
  BY <1>1, <1>3 DEF t

LEMMA InitTypes == Init => TypesHold
<1> SUFFICES ASSUME Init PROVE TypesHold
  OBVIOUS
<1>1. Shape
  BY InitShape
<1>2. PICK may, exists \in Existing :
        /\ disk = [exists |-> exists,
                   texts |-> [inv \in Invs |-> [f \in Files |-> [k \in Keys |-> Blank]]],
                   hosts |-> [inv \in Invs |-> Blank]]
        /\ page = [topTab |-> "files", options |-> exists, inventory |-> Preferred(exists),
                   currentPath |-> None, entries |-> NoEntries, pending |-> NoEdits, rawMode |-> FALSE,
                   hosts |-> NoHosts, hostsRaw |-> NoHosts, hostsMode |-> "form", hostsDirty |-> FALSE,
                   opsArg |-> None, opsMode |-> "add", opsFields |-> InitialFields,
                   view |-> "empty", text |-> NoHosts]
  BY DEF Init
<1>3. exists \subseteq Invs /\ Sample \in exists /\ Blank \in Contents
  BY EditorAssumption DEF Contents
<1>4. DiskOK(disk)
  BY <1>2, <1>3 DEF DiskOK
<1>5. Preferred(exists) \in Invs
  BY <1>3, PreferredIsListed
<1>6. PageOK(page)
  BY <1>1, <1>2, <1>3, <1>5, EmptyOK DEF PageOK, Shape, Views
<1>7. inFlight = <<>>
  BY DEF Init
<1>8. QED
  BY <1>1, <1>4, <1>6, <1>7, EditorAssumption DEF TypesHold

LEMMA DoesTypes ==
  ASSUME PageOK(page), NEW name, NEW r, NEW requests, Does(name, r, requests)
  PROVE  PageOK(r) /\ OneOrNone(requests)
<1> DEFINE p == page
<1>0. p.inventory \in Invs /\ p.options \subseteq Invs /\ IsPage(p) /\ None \in Invs \cup {None}
      /\ OneOrNone(<<>>)
  BY DEF PageOK, OneOrNone
<1>1. \A q : RequestOK(q) => OneOrNone(<<q>>)
  BY DEF OneOrNone
<1>2. CASE ToFiles(name, r, requests)
  BY <1>0, <1>2, SelectionsOK DEF ToFiles
<1>3. CASE ToOps(name, r, requests)
  <2>1. r = SwitchToOps(p) /\ requests = <<LoadOps(r, None)>>
    BY <1>3 DEF ToOps
  <2>2. PageOK(r)
    BY <2>1, SelectionsOK
  <2>3. RequestOK(LoadOps(r, None))
    BY <2>2, LoadOK DEF LoadOps, PageOK, Loads
  <2>4. QED
    BY <1>1, <2>1, <2>2, <2>3
<1>4. CASE OpensFile(name, r, requests)
  <2>1. PICK path \in Files :
          r = SelectFile(p, path) /\ requests = <<Load("file", p.inventory, path, None)>>
    BY <1>4 DEF OpensFile
  <2>2. RequestOK(Load("file", p.inventory, path, None))
    BY <1>0, LoadOK DEF Loads
  <2>3. QED
    BY <1>1, <2>1, <2>2, SelectionsOK
<1>5. CASE OpensHosts(name, r, requests)
  <2>1. RequestOK(Load("hosts", p.inventory, HOSTS_VIEW, None))
    BY <1>0, LoadOK DEF Loads
  <2>2. QED
    BY <1>1, <1>5, <2>1, SelectionsOK DEF OpensHosts
<1>6. CASE PicksInventory(name, r, requests)
  <2>1. PICK inv \in Invs : r = SelectInventory(p, inv) /\ requests = <<Load("files", inv, None, None)>>
    BY <1>0, <1>6 DEF PicksInventory
  <2>2. RequestOK(Load("files", inv, None, None))
    BY LoadOK DEF Loads
  <2>3. QED
    BY <1>1, <2>1, <2>2, SelectionsOK
<1>7. CASE AsksForInventory(name, r, requests)
  <2>1. PICK then \in Invs \cup {None} :
          /\ name = "create" => then \in Invs
          /\ requests = <<Request(name, p.inventory, None, NoEdits, then)>>
    BY <1>7 DEF AsksForInventory
  <2> DEFINE q == Request(name, p.inventory, None, NoEdits, then)
  <2>2. name \in {"create", "delete"} /\ r = p
    BY <1>7 DEF AsksForInventory
  <2>3. IsRequest(q)
    BY <2>2, Asked
  <2>4. q.op = name /\ q.inv = p.inventory /\ q.then = then /\ q.status = "sent"
    BY DEF Request
  <2> HIDE DEF q
  <2>5. RequestOK(q)
    BY <1>0, <2>1, <2>2, <2>3, <2>4 DEF RequestOK
  <2>6. QED
    BY <1>1, <2>1, <2>2, <2>5 DEF q
<1>8. CASE TypesValue(name, r, requests)
  BY <1>0, <1>8, TypingOK DEF TypesValue
<1>9. CASE TypesHosts(name, r, requests)
  BY <1>0, <1>9, TypingOK DEF TypesHosts
<1>10. CASE SavesView(name, r, requests)
  BY <1>1, <1>10, SavesOK DEF SavesView, SaveOf
<1>11. CASE TogglesView(name, r, requests)
  BY <1>0, <1>11, TogglesOK DEF TogglesView
<1>12. CASE Operates(name, r, requests)
  <2>1. CASE \E mode : r = RenderOps([p EXCEPT !.opsMode = mode])
    <3>1. PICK mode : r = RenderOps([p EXCEPT !.opsMode = mode])
      BY <2>1
    <3>2. PageOK(RenderOps([p EXCEPT !.opsMode = mode]))
      BY TogglesOK
    <3>3. QED
      BY <1>0, <1>12, <3>1, <3>2 DEF Operates
  <2>2. CASE \E fields : r = [p EXCEPT !.opsFields = fields]
    <3>1. PICK fields : r = [p EXCEPT !.opsFields = fields]
      BY <2>2
    <3>2. PageOK([p EXCEPT !.opsFields = fields])
      BY TogglesOK
    <3>3. QED
      BY <1>0, <1>12, <3>1, <3>2 DEF Operates
  <2>3. QED
    BY <1>12, <2>1, <2>2 DEF Operates
<1>13. QED
  BY <1>2, <1>3, <1>4, <1>5, <1>6, <1>7, <1>8, <1>9, <1>10, <1>11, <1>12 DEF Does

LEMMA ServedTypes ==
  ASSUME TypesHold, NEW i \in DOMAIN inFlight, Serve(i)
  PROVE  /\ DiskOK(disk') /\ page' = page /\ DOMAIN inFlight' = DOMAIN inFlight
         /\ Len(inFlight') = Len(inFlight) /\ \A j \in DOMAIN inFlight' : RequestOK(inFlight'[j])
<1> DEFINE q == inFlight[i]
<1>1. RequestOK(q) /\ DiskOK(disk) /\ IsList(inFlight)
  BY DEF TypesHold, Shape
<1>2. /\ DiskOK(disk')
      /\ \E r : RequestOK(r) /\ inFlight' = [inFlight EXCEPT ![i] = r]
  <2>1. CASE Accepts(disk, q)
    <3>1. disk' = Effect(disk, q)
      BY <2>1 DEF Serve
    <3>2. DiskOK(disk')
      BY <1>1, <2>1, <3>1, EffectOK
    <3> DEFINE r == [q EXCEPT !.status = "answered", !.answer = Answer(disk', q)]
    <3>3. inFlight' = [inFlight EXCEPT ![i] = r]
      BY <2>1 DEF Serve
    <3>4. RequestOK(r)
      BY <1>1, <2>1, <3>2, AnswerOK
    <3>5. QED
      BY <3>2, <3>3, <3>4
  <2>2. CASE ~Accepts(disk, q)
    <3> DEFINE r == [q EXCEPT !.status = "refused"]
    <3>1. disk' = disk /\ inFlight' = [inFlight EXCEPT ![i] = r]
      BY <2>2 DEF Serve
    <3>2. RequestOK(r)
      BY <1>1 DEF RequestOK, IsRequest
    <3>3. QED
      BY <1>1, <3>1, <3>2
  <2>3. QED
    BY <2>1, <2>2
<1> HIDE DEF q
<1>3. PICK r : RequestOK(r) /\ inFlight' = [inFlight EXCEPT ![i] = r]
  BY <1>2
<1>4. /\ IsList(inFlight') /\ DOMAIN inFlight' = DOMAIN inFlight
      /\ \A j \in DOMAIN inFlight : inFlight'[j] = IF j = i THEN r ELSE inFlight[j]
  BY <1>1, <1>3, ListReplaced
<1>5. Len(inFlight') = Len(inFlight)
  BY <1>1, <1>4, ListPositions
<1>6. page' = page
  BY DEF Serve
<1>7. QED
  BY <1>2, <1>3, <1>4, <1>5, <1>6 DEF TypesHold

LEMMA NextKeepsTypes == TypesHold /\ [Next]_vars => TypesHold'
<1> SUFFICES ASSUME TypesHold, [Next]_vars PROVE TypesHold'
  OBVIOUS
<1>0. /\ Shape /\ Shape' /\ PageOK(page) /\ DiskOK(disk) /\ IsList(inFlight)
      /\ \A i \in DOMAIN inFlight : RequestOK(inFlight[i])
      /\ Len(inFlight) \in Nat /\ Len(inFlight) <= MaxInFlight /\ MaxInFlight \in Nat
      /\ inFlight \o <<>> = inFlight
  BY NextKeepsShape, ListPositions, EditorAssumption DEF TypesHold, Shape
<1>1. ASSUME NEW t, IsList(t), \A j \in DOMAIN t : RequestOK(t[j]), NEW next, OneOrNone(next)
      PROVE  LET u == t \o next IN
             /\ \A j \in DOMAIN u : RequestOK(u[j])
             /\ Len(next) \in {0, 1} /\ Len(u) = Len(t) + Len(next)
  <2>1. CASE next = <<>>
    BY <1>1, <2>1, ListPositions
  <2>2. ASSUME NEW n, next = <<n>>, RequestOK(n)
        PROVE  LET u == t \o next IN
               /\ \A j \in DOMAIN u : RequestOK(u[j])
               /\ Len(next) \in {0, 1} /\ Len(u) = Len(t) + Len(next)
    <3> DEFINE u == t \o <<n>>
    <3>1. /\ Len(u) = Len(t) + 1
          /\ \A j \in DOMAIN u : u[j] = n \/ (j \in DOMAIN t /\ u[j] = t[j])
      BY <1>1, ElementsJoined
    <3> HIDE DEF u
    <3>2. \A j \in DOMAIN u : RequestOK(u[j])
      BY <1>1, <2>2, <3>1
    <3>3. Len(next) = 1
      BY <2>2
    <3>4. QED
      BY <2>2, <3>1, <3>2, <3>3 DEF u
  <2>3. QED
    BY <1>1, <2>1, <2>2 DEF OneOrNone
<1>2. CASE PersonActs
  <2>1. PICK name, r, requests : Act(name, r, requests) /\ Does(name, r, requests)
    BY <1>0, <1>2, PersonDoes DEF PageOK
  <2>2. PageOK(r) /\ OneOrNone(requests)
    BY <1>0, <2>1, DoesTypes
  <2>3. /\ page' = r /\ disk' = disk /\ inFlight' = inFlight \o requests
        /\ Len(inFlight) + Len(requests) <= MaxInFlight
    BY <2>1 DEF Act
  <2> DEFINE u == inFlight \o requests
  <2>4. /\ \A j \in DOMAIN u : RequestOK(u[j])
        /\ Len(u) = Len(inFlight) + Len(requests)
    BY <1>0, <1>1, <2>2
  <2>5. inFlight' = u
    BY <2>3
  <2> HIDE DEF u
  <2>6. QED
    BY <1>0, <2>2, <2>3, <2>4, <2>5 DEF TypesHold
<1>3. ASSUME NEW i \in DOMAIN inFlight, Serve(i) PROVE TypesHold'
  BY <1>0, <1>3, ServedTypes DEF TypesHold
<1>4. ASSUME NEW i \in DOMAIN inFlight PROVE
        LET t == RemoveAt(inFlight, i) IN
        /\ IsList(t) /\ Len(t) = Len(inFlight) - 1 /\ \A j \in DOMAIN t : RequestOK(t[j])
  BY <1>0, <1>4, ElementsLeft, RequestLeaves
<1>5. ASSUME NEW i \in DOMAIN inFlight, Hear(i) PROVE TypesHold'
  <2> DEFINE t == RemoveAt(inFlight, i)
             a == Heard(page, inFlight[i])
  <2>1. page' = a.page /\ inFlight' = t \o a.next /\ disk' = disk
    BY <1>5 DEF Hear
  <2>2. PageOK(a.page) /\ OneOrNone(a.next)
    BY <1>0, <1>5, HeardOK DEF Hear
  <2>3. IsList(t) /\ Len(t) = Len(inFlight) - 1 /\ \A j \in DOMAIN t : RequestOK(t[j])
    BY <1>4
  <2> DEFINE next == a.next
             u == t \o next
  <2> HIDE DEF t, a, next
  <2>4. /\ \A j \in DOMAIN u : RequestOK(u[j])
        /\ Len(next) \in {0, 1} /\ Len(u) = Len(t) + Len(next)
    BY <1>1, <2>2, <2>3 DEF next
  <2>5. inFlight' = u
    BY <2>1 DEF next
  <2> HIDE DEF u
  <2>6. Len(u) <= MaxInFlight
    <3>1. Len(inFlight) \in Nat /\ Len(inFlight) <= MaxInFlight /\ MaxInFlight \in Nat
      BY <1>0
    <3>2. Len(u) = Len(inFlight) - 1 + Len(next) /\ Len(next) \in {0, 1}
      BY <2>3, <2>4
    <3>3. \A k \in {0, 1} : Len(inFlight) - 1 + k <= MaxInFlight
      BY <3>1
    <3>4. QED
      BY <3>2, <3>3, Zenon
  <2>7. QED
    BY <1>0, <2>1, <2>2, <2>4, <2>5, <2>6 DEF TypesHold
<1>6. ASSUME NEW i \in DOMAIN inFlight, Fail(i) PROVE TypesHold'
  <2>1. page' = page /\ disk' = disk /\ inFlight' = RemoveAt(inFlight, i)
    BY <1>6 DEF Fail
  <2>2. Len(inFlight') = Len(inFlight) - 1 /\ \A j \in DOMAIN inFlight' : RequestOK(inFlight'[j])
    BY <1>4, <2>1
  <2>3. QED
    BY <1>0, <2>1, <2>2 DEF TypesHold
<1>7. CASE UNCHANGED vars
  BY <1>0, <1>7 DEF vars, TypesHold
<1>8. QED
  BY <1>2, <1>3, <1>5, <1>6, <1>7 DEF Next

\* Every variable of the editor keeps its type: in particular what the page
\* holds as read or typed is of an inventory and of a file, and no more requests
\* are awaited than the bound allows.
THEOREM EditorTypeCorrect == Spec => []TypeOK
<1>1. Init => TypesHold /\ OpsInv
  BY InitTypes, InitOps
<1>2. TypesHold /\ OpsInv /\ [Next]_vars => (TypesHold /\ OpsInv)'
  BY NextKeepsTypes, NextKeepsOps DEF TypesHold
<1>3. TypesHold /\ OpsInv => TypeOK
  BY DEF TypesHold, OpsInv, PageOK, IsPage, DiskOK, EditsOK, Views, TypeOK
<1>4. QED
  BY <1>1, <1>2, <1>3, PTL DEF Spec

-----------------------------------------------------------------------------
(* The invariant Current: how the page and the answers on their way stand  *)
(* to the disk.                                                            *)

\* The page will load its list of inventories again.
Relists(q) == q.op = "list" \/ (q.op \in {"create", "delete"} /\ q.status = "answered")

\* The page will load something.
Renews(q) == q.op \in Loads \/ Relists(q)

IsSaved(q) == q.op \in {"save", "saveHosts"} /\ q.status = "answered"

ServedInOrder(s) ==
  \A i, j \in DOMAIN s : i < j /\ s[j].status # "sent" => s[i].status # "sent"

\* The last load, if it is not of a file or of the hosts, is of the inventory.
LoadsTheInventory(p, s) ==
  \A i \in DOMAIN s :
    s[i].op \in {"files", "ops"} /\ (\A j \in DOMAIN s : j > i => s[j].op \notin Loads) =>
      s[i].inv = p.inventory

\* What q was answered is so on disk d.
AnsweredFrom(d, q) ==
  /\ q.op \in {"files", "ops"} \cup OwnTab => q.inv \in d.exists
  /\ q.op = "ops" => q.answer = q.inv
  /\ q.op \in {"file", "save"} => q.answer = GetFile(d, q.inv, q.path)
  /\ q.op \in {"hosts", "saveHosts"} => q.answer = GetHosts(d, q.inv)

\* An answer stands unless something will be loaded after it.
AnswersStand(s, d) ==
  \A i \in DOMAIN s :
    s[i].status = "answered" /\ (\A j \in DOMAIN s : j > i => ~Renews(s[j])) => AnsweredFrom(d, s[i])

LoadedIsOnDisk(p, d) ==
  /\ p.currentPath \in Files => p.entries = GetFile(d, p.inventory, p.currentPath)
  /\ p.currentPath = HOSTS_VIEW => p.hostsRaw = GetHosts(d, p.inventory)

DrawnBySelection(p) ==
  /\ p.topTab = "ops" => p.view = "ops" /\ p.opsArg = p.inventory
  /\ p.topTab = "files" =>
       /\ p.currentPath = None => p.view = "empty"
       /\ p.currentPath = HOSTS_VIEW => p.view \in {"hosts", "hostsRaw"}
       /\ p.currentPath \in Files => p.view \in {"file", "fileRaw"}

\* The tab of the operations keeps what the Files tab had loaded.
OpsTabKeeps(p, s, d) ==
  p.topTab = "ops" /\ (\A i \in DOMAIN s : ~Relists(s[i])) => LoadedIsOnDisk(p, d)

OnDisk(p, d) == p.inventory \in d.exists /\ LoadedIsOnDisk(p, d) /\ DrawnBySelection(p)

\* With nothing on its way that the page will show, it shows what is on disk.
Rests(p, s, d) == (\A i \in DOMAIN s : ~Renews(s[i]) /\ ~IsSaved(s[i])) => OnDisk(p, d)

Current(p, s, d) ==
  /\ ServedInOrder(s) /\ LoadsTheInventory(p, s) /\ AnswersStand(s, d)
  /\ OpsTabKeeps(p, s, d) /\ Rests(p, s, d)

CurrentInv == AsExpected => Current(page, inFlight, disk)

-----------------------------------------------------------------------------
(* How the list of requests can change under it.                           *)

LEMMA CurrentAtRest ==
  ASSUME NEW p, NEW d
  PROVE  Current(p, <<>>, d) <=> OnDisk(p, d)
BY DEF Current, ServedInOrder, LoadsTheInventory, AnswersStand, OpsTabKeeps, Rests, OnDisk

LEMMA CurrentWithLoad ==
  ASSUME NEW p, NEW s, IsList(s), NEW d, NEW q, q.op \in Loads, q.status = "sent",
         ServedInOrder(s), q.op \in {"files", "ops"} => q.inv = p.inventory,
         q.op # "list" => OpsTabKeeps(p, s, d)
  PROVE  Current(p, s \o <<q>>, d)
<1> DEFINE t == s \o <<q>>
           n == Len(s) + 1
<1>1. /\ DOMAIN s = 1..Len(s) /\ Len(s) \in Nat /\ DOMAIN t = 1..n /\ t[n] = q
      /\ \A j \in 1..Len(s) : t[j] = s[j]
  BY ListPositions, ListJoined
<1> HIDE DEF t
<1>2. n \in DOMAIN t /\ \A j \in DOMAIN t : j # n => j < n /\ j \in DOMAIN s /\ t[j] = s[j]
  BY <1>1
<1>3. \A i, j \in DOMAIN s : i \in DOMAIN t /\ t[i] = s[i]
  BY <1>1
<1> HIDE DEF n
<1>4. ServedInOrder(t)
  BY <1>1, <1>2 DEF ServedInOrder
<1>5. Renews(t[n])
  BY <1>1 DEF Renews
<1>6. LoadsTheInventory(p, t)
  BY <1>1, <1>2 DEF LoadsTheInventory
<1>7. AnswersStand(t, d)
  BY <1>1, <1>2, <1>5 DEF AnswersStand
<1>8. OpsTabKeeps(p, t, d)
  BY <1>1, <1>2, <1>3 DEF OpsTabKeeps, Relists
<1>9. Rests(p, t, d)
  BY <1>2, <1>5 DEF Rests
<1>10. QED
  BY <1>4, <1>6, <1>7, <1>8, <1>9 DEF Current, t

LEMMA CurrentWithOther ==
  ASSUME NEW p, NEW s, IsList(s), NEW d, NEW q, q.op \notin Loads, q.status = "sent", Current(p, s, d)
  PROVE  Current(p, s \o <<q>>, d)
<1> DEFINE t == s \o <<q>>
           n == Len(s) + 1
<1>1. /\ DOMAIN s = 1..Len(s) /\ Len(s) \in Nat /\ DOMAIN t = 1..n /\ t[n] = q
      /\ \A j \in 1..Len(s) : t[j] = s[j]
  BY ListPositions, ListJoined
<1> HIDE DEF t
<1>2. n \in DOMAIN t /\ \A j \in DOMAIN t : j # n => j < n /\ j \in DOMAIN s /\ t[j] = s[j]
  BY <1>1
<1>3. \A i \in DOMAIN s : i \in DOMAIN t /\ t[i] = s[i]
  BY <1>1
<1>4. ~Renews(q) /\ ~Relists(q)
  BY DEF Renews, Relists, Loads
<1> HIDE DEF n
<1>5. ServedInOrder(t)
  BY <1>1, <1>2 DEF ServedInOrder, Current
<1>6. LoadsTheInventory(p, t)
  BY <1>1, <1>2, <1>3 DEF LoadsTheInventory, Current, Loads
<1>7. AnswersStand(t, d)
  BY <1>1, <1>2, <1>3 DEF AnswersStand, Current
<1>8. OpsTabKeeps(p, t, d)
  BY <1>3 DEF OpsTabKeeps, Current
<1>9. Rests(p, t, d)
  BY <1>3 DEF Rests, Current
<1>10. QED
  BY <1>5, <1>6, <1>7, <1>8, <1>9 DEF Current, t

LEMMA CurrentRedrawn ==
  ASSUME NEW p, NEW r, NEW s, NEW d, Current(p, s, d), r.inventory = p.inventory, r.topTab = p.topTab,
         LoadedIsOnDisk(p, d) => LoadedIsOnDisk(r, d),
         DrawnBySelection(p) => DrawnBySelection(r)
  PROVE  Current(r, s, d)
BY DEF Current, LoadsTheInventory, OpsTabKeeps, Rests, OnDisk

\* A request leaves: the oldest, or one that nothing would have been loaded for.
LEMMA CurrentLeft ==
  ASSUME NEW p, NEW s, IsList(s), NEW d, NEW i \in DOMAIN s, Current(p, s, d), Renews(s[i]) => i = 1
  PROVE  LET t == RemoveAt(s, i) IN
         /\ ServedInOrder(t) /\ LoadsTheInventory(p, t) /\ AnswersStand(t, d)
         /\ ~Relists(s[i]) => OpsTabKeeps(p, t, d)
         /\ ~Renews(s[i]) /\ ~IsSaved(s[i]) => Rests(p, t, d)
<1> DEFINE t == RemoveAt(s, i)
           To(j) == IF j < i THEN j ELSE j + 1
<1>1. /\ DOMAIN s = 1..Len(s) /\ Len(s) \in Nat /\ DOMAIN t = 1..(Len(s) - 1)
      /\ \A j \in 1..(Len(s) - 1) : t[j] = IF j < i THEN s[j] ELSE s[j + 1]
  BY ListPositions, ListLeft
<1> HIDE DEF t
<1>2. \A j \in DOMAIN t : To(j) \in DOMAIN s /\ t[j] = s[To(j)] /\ To(j) # i
  BY <1>1
<1>3. \A m \in DOMAIN s : m # i => \E j \in DOMAIN t : m = To(j)
  <2> SUFFICES ASSUME NEW m \in DOMAIN s, m # i PROVE \E j \in DOMAIN t : m = To(j)
    OBVIOUS
  <2>1. CASE m < i
    <3>1. m \in DOMAIN t /\ To(m) = m
      BY <2>1, <1>1
    <3>2. QED
      BY <3>1
  <2>2. CASE m > i
    <3>1. m - 1 \in DOMAIN t /\ To(m - 1) = m
      BY <2>2, <1>1
    <3>2. QED
      BY <3>1
  <2>3. QED
    BY <2>1, <2>2, <1>1
<1>4. \A j, m \in DOMAIN t : m > j <=> To(m) > To(j)
  BY <1>1
<1>5. \A j, m \in DOMAIN t : j < m <=> To(j) < To(m)
  BY <1>1
<1>6. i = 1 => \A j \in DOMAIN t : ~(i > To(j))
  BY <1>1
<1> HIDE DEF To
<1>7. ServedInOrder(t)
  BY <1>2, <1>5 DEF ServedInOrder, Current
<1>8. ASSUME NEW j \in DOMAIN t, \A m \in DOMAIN t : m > j => t[m].op \notin Loads
      PROVE  \A m \in DOMAIN s : m > To(j) => s[m].op \notin Loads
  <2> SUFFICES ASSUME NEW m \in DOMAIN s, m > To(j) PROVE s[m].op \notin Loads
    OBVIOUS
  <2>1. CASE m = i
    BY <1>6, <2>1 DEF Renews
  <2>2. CASE m # i
    <3>1. PICK n \in DOMAIN t : m = To(n)
      BY <1>3, <2>2
    <3>2. n > j
      BY <1>4, <3>1
    <3>3. QED
      BY <1>2, <1>8, <3>1, <3>2
  <2>3. QED
    BY <2>1, <2>2
<1>9. LoadsTheInventory(p, t)
  BY <1>2, <1>8 DEF LoadsTheInventory, Current
<1>10. ASSUME NEW j \in DOMAIN t, \A m \in DOMAIN t : m > j => ~Renews(t[m])
       PROVE  \A m \in DOMAIN s : m > To(j) => ~Renews(s[m])
  <2> SUFFICES ASSUME NEW m \in DOMAIN s, m > To(j) PROVE ~Renews(s[m])
    OBVIOUS
  <2>1. CASE m = i
    BY <1>6, <2>1
  <2>2. CASE m # i
    <3>1. PICK n \in DOMAIN t : m = To(n)
      BY <1>3, <2>2
    <3>2. n > j
      BY <1>4, <3>1
    <3>3. QED
      BY <1>2, <1>10, <3>1, <3>2
  <2>3. QED
    BY <2>1, <2>2
<1>11. AnswersStand(t, d)
  BY <1>2, <1>10 DEF AnswersStand, Current
<1>12. ~Relists(s[i]) => OpsTabKeeps(p, t, d)
  BY <1>2, <1>3 DEF OpsTabKeeps, Current
<1>13. ~Renews(s[i]) /\ ~IsSaved(s[i]) => Rests(p, t, d)
  BY <1>2, <1>3 DEF Rests, Current
<1>14. QED
  BY <1>7, <1>9, <1>11, <1>12, <1>13 DEF t

-----------------------------------------------------------------------------
(* What the handlers of a person's steps do to it.                         *)

LEMMA InitCurrent == Init => CurrentInv
<1> SUFFICES ASSUME Init PROVE Current(page, inFlight, disk)
  BY DEF CurrentInv
<1>1. PICK exists \in Existing :
        /\ disk.exists = exists /\ page.topTab = "files" /\ page.inventory = Preferred(exists)
        /\ page.currentPath = None /\ page.view = "empty" /\ inFlight = <<>>
  BY DEF Init
<1>2. page.inventory \in disk.exists /\ None \notin Files \cup {HOSTS_VIEW}
  BY <1>1, PreferredIsListed, EditorAssumption
<1>3. OnDisk(page, disk)
  BY <1>1, <1>2 DEF OnDisk, LoadedIsOnDisk, DrawnBySelection
<1>4. QED
  BY <1>1, <1>3, CurrentAtRest

\* A page of the same selection with what it had loaded.
SameLoaded(p, r) ==
  /\ r.inventory = p.inventory /\ r.currentPath = p.currentPath
  /\ r.entries = p.entries /\ r.hostsRaw = p.hostsRaw

LEMMA LoadedStill ==
  ASSUME NEW p, NEW r, SameLoaded(p, r), NEW d
  PROVE  LoadedIsOnDisk(r, d) <=> LoadedIsOnDisk(p, d)
BY DEF SameLoaded, LoadedIsOnDisk

LEMMA DrawnLoaded ==
  ASSUME NEW p, NEW r, OnlyDrawn(p, r)
  PROVE  SameLoaded(p, r)
BY DEF OnlyDrawn, SameSelection, SameLoaded

\* Drawing what is selected.
LEMMA DrawnOnDisk ==
  ASSUME NEW p, IsPage(p), p.topTab = "files", NEW d, p.inventory \in d.exists, LoadedIsOnDisk(p, d)
  PROVE  /\ p.currentPath = None => OnDisk(DrawEmptyState(p), d)
         /\ p.currentPath \in Files => OnDisk(RenderFile(p), d)
         /\ p.currentPath = HOSTS_VIEW => OnDisk(RenderHosts(p), d)
<1>1. ASSUME NEW r, OnlyDrawn(p, r), DrawnBySelection(r) PROVE OnDisk(r, d)
  BY <1>1, DrawnLoaded, LoadedStill DEF OnDisk, OnlyDrawn, SameSelection
<1>2. ASSUME p.currentPath = None PROVE OnDisk(DrawEmptyState(p), d)
  <2> DEFINE r == DrawEmptyState(p)
  <2>1. OnlyDrawn(p, r) /\ r.view = "empty"
    BY Drawings
  <2> HIDE DEF r
  <2>2. DrawnBySelection(r)
    BY <1>2, <2>1, EditorAssumption DEF DrawnBySelection, OnlyDrawn, SameSelection
  <2>3. QED
    BY <1>1, <2>1, <2>2 DEF r
<1>3. ASSUME p.currentPath \in Files PROVE OnDisk(RenderFile(p), d)
  <2> DEFINE r == RenderFile(p)
  <2>1. OnlyDrawn(p, r) /\ r.view \in {"file", "fileRaw"}
    BY Drawings
  <2> HIDE DEF r
  <2>2. DrawnBySelection(r)
    BY <1>3, <2>1, EditorAssumption DEF DrawnBySelection, OnlyDrawn, SameSelection
  <2>3. QED
    BY <1>1, <2>1, <2>2 DEF r
<1>4. ASSUME p.currentPath = HOSTS_VIEW PROVE OnDisk(RenderHosts(p), d)
  <2> DEFINE r == RenderHosts(p)
  <2>1. OnlyDrawn(p, r) /\ r.view \in {"hosts", "hostsRaw"}
    BY Drawings
  <2> HIDE DEF r
  <2>2. DrawnBySelection(r)
    BY <1>4, <2>1, EditorAssumption DEF DrawnBySelection, OnlyDrawn, SameSelection
  <2>3. QED
    BY <1>1, <2>1, <2>2 DEF r
<1>5. QED
  BY <1>2, <1>3, <1>4

LEMMA ToFilesOnDisk ==
  ASSUME NEW p, IsPage(p), NEW d, OnDisk(p, d)
  PROVE  OnDisk(SwitchToFiles(p), d)
<1> DEFINE f == [p EXCEPT !.topTab = "files"]
<1>1. IsPage(f) /\ f.topTab = "files" /\ SameLoaded(p, f)
  BY DEF IsPage, PageFields, SameLoaded
<1>2. /\ f.currentPath = HOSTS_VIEW => SwitchToFiles(p) = RenderHosts(f)
      /\ f.currentPath = None => SwitchToFiles(p) = DrawEmptyState(f)
      /\ f.currentPath \in Files => SwitchToFiles(p) = RenderFile(f)
  BY EditorAssumption, <1>1 DEF SwitchToFiles, SameLoaded
<1> HIDE DEF f
<1>3. f.inventory \in d.exists /\ LoadedIsOnDisk(f, d)
  BY <1>1, LoadedStill DEF OnDisk, SameLoaded
<1>4. f.currentPath \in Files \cup {HOSTS_VIEW, None}
  BY <1>1 DEF IsPage, Paths
<1>5. QED
  BY <1>1, <1>2, <1>3, <1>4, DrawnOnDisk

LEMMA TypedOnDisk ==
  ASSUME NEW p, IsPage(p), NEW d, OnDisk(p, d), NEW v, NEW r,
         \/ \E k : r = OnFieldChange(p, k, v)
         \/ r = ChangeHostCard(p, v) \/ r = ChangeHostsText(p, v)
         \/ (r = AddHost(p, v) /\ p.topTab = "files" /\ p.currentPath = HOSTS_VIEW)
  PROVE  OnDisk(r, d)
<1>1. ASSUME NEW c, SameLoaded(p, c), c.topTab = p.topTab, c.view = p.view, c.opsArg = p.opsArg
      PROVE  OnDisk(c, d)
  BY <1>1, LoadedStill DEF OnDisk, DrawnBySelection, SameLoaded
<1>2. ASSUME NEW k, r = OnFieldChange(p, k, v) PROVE OnDisk(r, d)
  <2> DEFINE pending == [j \in DOMAIN p.pending \cup {k} |->
                           IF j = k THEN Read(p.entries.inv, p.entries.path, v) ELSE p.pending[j]]
  <2>1. r = [p EXCEPT !.pending = pending]
    BY <1>2 DEF OnFieldChange, IsPage, PageFields
  <2> HIDE DEF pending
  <2>2. SameLoaded(p, r) /\ r.topTab = p.topTab /\ r.view = p.view /\ r.opsArg = p.opsArg
    BY <2>1 DEF IsPage, PageFields, SameLoaded
  <2>3. QED
    BY <1>1, <2>2
<1> DEFINE hosts == [p.hosts EXCEPT !.val = v, !.gone = FALSE]
           text == [p.text EXCEPT !.val = v]
           c == ChangeHostCard(p, v)
<1>3. c = [p EXCEPT !.hosts = hosts, !.hostsDirty = TRUE]
  BY DEF ChangeHostCard, IsPage, PageFields
<1>4. ChangeHostsText(p, v) = [p EXCEPT !.text = text, !.hostsDirty = TRUE]
  BY DEF ChangeHostsText, IsPage, PageFields
<1>5. IsPage(c)
  BY TypedHosts
<1> HIDE DEF hosts, text, c
<1>6. SameLoaded(p, c) /\ c.topTab = p.topTab /\ c.view = p.view /\ c.opsArg = p.opsArg
  BY <1>3 DEF IsPage, PageFields, SameLoaded
<1>7. OnDisk(c, d)
  BY <1>1, <1>6
<1>8. CASE r = ChangeHostsText(p, v)
  <2>1. SameLoaded(p, r) /\ r.topTab = p.topTab /\ r.view = p.view /\ r.opsArg = p.opsArg
    BY <1>4, <1>8 DEF IsPage, PageFields, SameLoaded
  <2>2. QED
    BY <1>1, <2>1
<1>9. CASE r = RenderHosts(c) /\ p.topTab = "files" /\ p.currentPath = HOSTS_VIEW
  <2>1. c.currentPath = HOSTS_VIEW /\ c.topTab = "files" /\ c.inventory \in d.exists /\ LoadedIsOnDisk(c, d)
    BY <1>6, <1>7, <1>9 DEF SameLoaded, OnDisk
  <2>2. QED
    BY <1>5, <1>9, <2>1, DrawnOnDisk
<1>10. QED
  BY <1>2, <1>7, <1>8, <1>9 DEF AddHost, c

\* What is drawn over what is shown is of the same kind.
LEMMA ToggledOnDisk ==
  ASSUME NEW p, IsPage(p), DrawnBySelection(p), NEW r,
         \/ p.view \in {"file", "fileRaw"} /\ r = ToggleRawMode(p)
         \/ p.view \in {"hosts", "hostsRaw"} /\ r = ToggleHostsMode(p)
  PROVE  DrawnBySelection(r)
<1> DEFINE d == [p EXCEPT !.rawMode = ~p.rawMode]
           h == [p EXCEPT !.hostsMode = IF p.hostsMode = "raw" THEN "form" ELSE "raw"]
<1>1. ToggleRawMode(p) = RenderFile(d) /\ ToggleHostsMode(p) = RenderHosts(h)
  BY DEF ToggleRawMode, ToggleHostsMode, IsPage, PageFields
<1>2. IsPage(d) /\ IsPage(h) /\ SameSelection(p, d) /\ SameSelection(p, h)
  BY DEF IsPage, PageFields, SameSelection
<1> HIDE DEF d, h
<1>3. p.topTab \in {"files", "ops"} /\ p.currentPath \in Files \cup {HOSTS_VIEW, None}
  BY DEF IsPage, Paths
<1>4. CASE p.view \in {"file", "fileRaw"} /\ r = RenderFile(d)
  <2>1. p.topTab = "files" /\ p.currentPath \in Files
    BY <1>3, <1>4 DEF DrawnBySelection
  <2>2. SameSelection(d, r) /\ r.view \in {"file", "fileRaw"}
    BY <1>2, <1>4, Drawings DEF OnlyDrawn
  <2>3. QED
    BY <1>2, <2>1, <2>2, EditorAssumption DEF DrawnBySelection, SameSelection
<1>5. CASE p.view \in {"hosts", "hostsRaw"} /\ r = RenderHosts(h)
  <2>1. p.topTab = "files" /\ p.currentPath = HOSTS_VIEW
    BY <1>3, <1>5 DEF DrawnBySelection
  <2>2. SameSelection(h, r) /\ r.view \in {"hosts", "hostsRaw"}
    BY <1>2, <1>5, Drawings DEF OnlyDrawn
  <2>3. QED
    BY <1>2, <2>1, <2>2, EditorAssumption DEF DrawnBySelection, SameSelection
<1>6. QED
  BY <1>1, <1>4, <1>5

LEMMA OperatedOnDisk ==
  ASSUME NEW p, IsPage(p), p.view = "ops", NEW r,
         \/ \E mode : r = RenderOps([p EXCEPT !.opsMode = mode])
         \/ \E fields : r = [p EXCEPT !.opsFields = fields]
  PROVE  SameLoaded(p, r) /\ r.topTab = p.topTab /\ (DrawnBySelection(p) => DrawnBySelection(r))
<1>1. SameLoaded(p, r) /\ r.topTab = p.topTab /\ r.view = "ops" /\ r.opsArg = p.opsArg
  <2>1. ASSUME NEW fields, r = [p EXCEPT !.opsFields = fields]
        PROVE  SameLoaded(p, r) /\ r.topTab = p.topTab /\ r.view = "ops" /\ r.opsArg = p.opsArg
    BY <2>1 DEF IsPage, PageFields, SameLoaded
  <2>2. ASSUME NEW mode, r = RenderOps([p EXCEPT !.opsMode = mode])
        PROVE  SameLoaded(p, r) /\ r.topTab = p.topTab /\ r.view = "ops" /\ r.opsArg = p.opsArg
    BY <2>2 DEF RenderOps, Draw, IsPage, PageFields, SameLoaded
  <2>3. QED
    BY <2>1, <2>2
<1>2. p.topTab \in {"files", "ops"} /\ p.currentPath \in Files \cup {HOSTS_VIEW, None}
  BY DEF IsPage, Paths
<1>3. QED
  BY <1>1, <1>2 DEF DrawnBySelection, SameLoaded

LEMMA DiscardedLoaded ==
  ASSUME NEW p, IsPage(p)
  PROVE  SameLoaded(p, SwitchToOps(p)) /\ SwitchToOps(p).topTab = "ops"
<1> DEFINE d == Discarded(p)
<1>1. IsPage(d) /\ SameLoaded(p, d)
  BY DiscardedPage DEF SameLoaded, SameSelection
<1>2. SwitchToOps(p) = [d EXCEPT !.topTab = "ops"]
  BY DEF SwitchToOps
<1> HIDE DEF d
<1>3. QED
  BY <1>1, <1>2 DEF IsPage, PageFields, SameLoaded

LEMMA LoadSent ==
  ASSUME NEW op \in Loads, NEW inv, NEW path, NEW then
  PROVE  LET q == Load(op, inv, path, then) IN
         q.op \in Loads /\ q.op = op /\ q.inv = inv /\ q.path = path /\ q.status = "sent"
BY DEF Load, Request

\* An inventory is selected, and its files are asked for.
ChoosesInventory(r, next) ==
  /\ r.currentPath = None
  /\ \E n : next = <<n>> /\ n.op = "files" /\ n.status = "sent" /\ n.inv = r.inventory

LEMMA Chosen ==
  ASSUME NEW p, IsPage(p), NEW inv, NEW then
  PROVE  LET r == SelectInventory(p, inv) IN
         /\ r.topTab = p.topTab /\ ChoosesInventory(r, <<Load("files", inv, None, then)>>)
<1> DEFINE r == SelectInventory(p, inv)
           n == Load("files", inv, None, then)
<1>1. n.op = "files" /\ n.status = "sent" /\ n.inv = inv
  BY LoadSent DEF Loads
<1>2. r.topTab = p.topTab /\ r.currentPath = None /\ r.inventory = inv
  BY SelectedInventory
<1> HIDE DEF r, n
<1>3. QED
  BY <1>1, <1>2 DEF ChoosesInventory, r, n

LEMMA CurrentChosen ==
  ASSUME NEW r, NEW next, ChoosesInventory(r, next), NEW s, IsList(s), NEW d, ServedInOrder(s)
  PROVE  Current(r, s \o next, d)
<1>1. PICK n : next = <<n>> /\ n.op = "files" /\ n.status = "sent" /\ n.inv = r.inventory
  BY DEF ChoosesInventory
<1>2. LoadedIsOnDisk(r, d)
  BY EditorAssumption DEF ChoosesInventory, LoadedIsOnDisk
<1>3. n.op \in Loads /\ OpsTabKeeps(r, s, d)
  BY <1>1, <1>2 DEF Loads, OpsTabKeeps
<1>4. Current(r, s \o <<n>>, d)
  BY <1>1, <1>3, CurrentWithLoad
<1>5. QED
  BY <1>1, <1>4

LEMMA ActKeepsCurrent ==
  ASSUME Shape, CurrentInv, AsExpected', NEW name, NEW r, NEW requests,
         Act(name, r, requests), Does(name, r, requests)
  PROVE  Current(page', inFlight', disk')
<1> DEFINE p == page
           s == inFlight
           d == disk
<1>1. /\ page' = r /\ inFlight' = s \o requests /\ disk' = d
      /\ Current(p, s, d)
      /\ name \in {"type", "typeHosts", "save", "tab"} => s = <<>>
      /\ name = "search" => p.topTab = "files"
  BY Acted DEF Act, CurrentInv
<1>2. IsPage(p) /\ IsList(s) /\ s \o <<>> = s /\ ServedInOrder(s)
  BY <1>1, ListPositions DEF Shape, Current
<1>3. s = <<>> => OnDisk(p, d) /\ <<>> \o <<>> = <<>>
  BY <1>1, CurrentAtRest
<1> SUFFICES Current(r, s \o requests, d)
  BY <1>1
<1>4. ASSUME NEW q, requests = <<q>>, q.op \in Loads, q.status = "sent",
             q.op \in {"files", "ops"} => q.inv = r.inventory, OpsTabKeeps(r, s, d)
      PROVE  Current(r, s \o requests, d)
  BY <1>2, <1>4, CurrentWithLoad
<1>5. CASE ToFiles(name, r, requests)
  <2>1. s = <<>> /\ requests = <<>> /\ r = SwitchToFiles(p)
    BY <1>1, <1>5 DEF ToFiles
  <2>2. OnDisk(r, d)
    BY <1>2, <1>3, <2>1, ToFilesOnDisk
  <2>3. QED
    BY <1>2, <2>1, <2>2, CurrentAtRest
<1>6. CASE ToOps(name, r, requests)
  <2>1. s = <<>> /\ requests = <<LoadOps(r, None)>> /\ r = SwitchToOps(p)
    BY <1>1, <1>6 DEF ToOps
  <2>2. LoadedIsOnDisk(r, d)
    BY <1>2, <1>3, <2>1, DiscardedLoaded, LoadedStill DEF OnDisk
  <2> DEFINE q == LoadOps(r, None)
  <2>3. q.op \in Loads /\ q.status = "sent" /\ q.inv = r.inventory
    BY LoadSent DEF LoadOps, Loads
  <2>4. OpsTabKeeps(r, s, d)
    BY <2>2 DEF OpsTabKeeps
  <2> HIDE DEF q
  <2>5. requests = <<q>>
    BY <2>1 DEF q
  <2>6. QED
    BY <1>4, <2>3, <2>4, <2>5
<1>7. CASE OpensFile(name, r, requests)
  <2>1. PICK path \in Files :
          r = SelectFile(p, path) /\ requests = <<Load("file", p.inventory, path, None)>>
    BY <1>7 DEF OpensFile
  <2> DEFINE q == Load("file", p.inventory, path, None)
  <2>2. q.op = "file" /\ q.op \in Loads /\ q.status = "sent"
    BY LoadSent DEF Loads
  <2>3. r.topTab = p.topTab /\ p.topTab = "files"
    BY <1>1, <1>2, <1>7, <2>1, SelectedFile DEF OpensFile
  <2>4. OpsTabKeeps(r, s, d)
    BY <2>3 DEF OpsTabKeeps
  <2>5. requests = <<q>>
    BY <2>1
  <2> HIDE DEF q
  <2>6. QED
    BY <1>4, <2>2, <2>4, <2>5
<1>8. CASE OpensHosts(name, r, requests)
  <2> DEFINE q == Load("hosts", p.inventory, HOSTS_VIEW, None)
  <2>1. q.op = "hosts" /\ q.op \in Loads /\ q.status = "sent"
    BY LoadSent DEF Loads
  <2>2. r.topTab = "files" /\ requests = <<q>>
    BY <1>2, <1>8, SelectedHosts DEF OpensHosts
  <2>3. OpsTabKeeps(r, s, d)
    BY <2>2 DEF OpsTabKeeps
  <2> HIDE DEF q
  <2>4. QED
    BY <1>4, <2>1, <2>2, <2>3
<1>9. CASE PicksInventory(name, r, requests)
  <2>1. PICK inv : r = SelectInventory(p, inv) /\ requests = <<Load("files", inv, None, None)>>
    BY <1>9 DEF PicksInventory
  <2>2. ChoosesInventory(r, requests)
    BY <1>2, <2>1, Chosen
  <2>3. QED
    BY <1>2, <2>2, CurrentChosen
<1>10. CASE AsksForInventory(name, r, requests)
  <2>1. PICK then : requests = <<Request(name, p.inventory, None, NoEdits, then)>>
    BY <1>10 DEF AsksForInventory
  <2> DEFINE q == Request(name, p.inventory, None, NoEdits, then)
  <2>2. q.op = name /\ q.status = "sent"
    BY DEF Request
  <2>3. r = p /\ name \notin Loads
    BY <1>10 DEF AsksForInventory, Loads
  <2> HIDE DEF q
  <2>4. Current(p, s \o <<q>>, d)
    BY <1>1, <1>2, <2>2, <2>3, CurrentWithOther
  <2>5. QED
    BY <2>1, <2>3, <2>4 DEF q
<1>11. CASE TypesValue(name, r, requests)
  <2>1. s = <<>> /\ requests = <<>>
    BY <1>1, <1>11 DEF TypesValue
  <2>2. OnDisk(r, d)
    BY <1>2, <1>3, <1>11, <2>1, TypedOnDisk DEF TypesValue
  <2>3. QED
    BY <1>2, <2>1, <2>2, CurrentAtRest
<1>12. CASE TypesHosts(name, r, requests)
  <2>1. s = <<>> /\ requests = <<>> /\ p.view \in {"hosts", "hostsRaw"}
    BY <1>1, <1>12 DEF TypesHosts
  <2>2. p.topTab = "files" /\ p.currentPath = HOSTS_VIEW
    BY <1>2, <1>3, <2>1 DEF OnDisk, DrawnBySelection, IsPage, Paths
  <2>3. PICK v : r \in {ChangeHostCard(p, v), AddHost(p, v), ChangeHostsText(p, v)}
    BY <1>12 DEF TypesHosts
  <2>4. OnDisk(r, d)
    BY <1>2, <1>3, <2>1, <2>2, <2>3, TypedOnDisk
  <2>5. QED
    BY <1>2, <2>1, <2>4, CurrentAtRest
<1>13. CASE SavesView(name, r, requests)
  <2>1. PICK q : requests = <<q>> /\ SaveOf(q)
    BY <1>13 DEF SavesView
  <2>2. q.op \in Saves /\ q.status = "sent" /\ q.op \notin Loads /\ r = p
    BY <1>13, <2>1 DEF SavesView, SaveOf, SaveForm, SaveRaw, SaveHostsForm, SaveHostsRaw, Request, Saves, Loads
  <2>3. QED
    BY <1>1, <1>2, <2>1, <2>2, CurrentWithOther
<1>14. CASE TogglesView(name, r, requests)
  <2>1. SameLoaded(p, r) /\ r.topTab = p.topTab
    BY <1>2, <1>14, Toggled, DrawnLoaded DEF TogglesView, OnlyDrawn, SameSelection
  <2>2. DrawnBySelection(p) => DrawnBySelection(r)
    BY <1>2, <1>14, ToggledOnDisk DEF TogglesView
  <2>3. Current(r, s, d)
    BY <1>1, <2>1, <2>2, LoadedStill, CurrentRedrawn DEF SameLoaded
  <2>4. QED
    BY <1>2, <1>14, <2>3 DEF TogglesView
<1>15. CASE Operates(name, r, requests)
  <2>1. SameLoaded(p, r) /\ r.topTab = p.topTab /\ (DrawnBySelection(p) => DrawnBySelection(r))
    BY <1>2, <1>15, OperatedOnDisk DEF Operates
  <2>2. Current(r, s, d)
    BY <1>1, <2>1, LoadedStill, CurrentRedrawn DEF SameLoaded
  <2>3. QED
    BY <1>2, <1>15, <2>2 DEF Operates
<1>16. QED
  BY <1>5, <1>6, <1>7, <1>8, <1>9, <1>10, <1>11, <1>12, <1>13, <1>14, <1>15 DEF Does

-----------------------------------------------------------------------------
(* What the server, the answers and the network do to it.                  *)

\* What Serve makes of a request, and of the disk.
Outcome(d, e, q) ==
  IF Accepts(d, q) THEN [q EXCEPT !.status = "answered", !.answer = Answer(e, q)]
                   ELSE [q EXCEPT !.status = "refused"]

LEMMA OutcomeOf ==
  ASSUME NEW d, NEW e, DiskOK(d), NEW q, IsRequest(q), e = IF Accepts(d, q) THEN Effect(d, q) ELSE d
  PROVE  LET r == Outcome(d, e, q) IN
         /\ r.op = q.op /\ r.inv = q.inv /\ r.path = q.path /\ r.body = q.body
         /\ r.status = (IF Accepts(d, q) THEN "answered" ELSE "refused")
         /\ e # d => Accepts(d, q) /\ q.op \in {"save", "saveHosts", "create", "delete"}
         /\ Accepts(d, q) => q.op # "raw" /\ AnsweredFrom(e, r)
<1> DEFINE r == Outcome(d, e, q)
           a == Answer(e, q)
<1>1. CASE ~Accepts(d, q)
  BY <1>1 DEF Outcome, IsRequest
<1>2. CASE Accepts(d, q)
  <2>1. r = [q EXCEPT !.status = "answered", !.answer = a]
    BY <1>2 DEF Outcome
  <2>2. e # d => q.op \in {"save", "saveHosts", "create", "delete"}
    BY <1>2 DEF Effect
  <2>3. /\ q.op = "ops" => a = q.inv
        /\ q.op \in {"file", "save"} => a = GetFile(e, q.inv, q.path)
        /\ q.op \in {"hosts", "saveHosts"} => a = GetHosts(e, q.inv)
    BY DEF Answer
  <2> HIDE DEF a, r
  <2>4. r.op = q.op /\ r.inv = q.inv /\ r.path = q.path /\ r.body = q.body
        /\ r.status = "answered" /\ r.answer = a
    BY <2>1 DEF IsRequest
  <2>5. q.op \in {"files", "ops"} \cup OwnTab => q.inv \in e.exists
    <3> SUFFICES ASSUME q.op \in {"files", "ops"} \cup OwnTab PROVE q.inv \in e.exists
      OBVIOUS
    <3>1. q.inv \in d.exists
      BY <1>2 DEF OwnTab, Accepts, ResolveFile
    <3>2. e.exists = d.exists
      BY <1>2 DEF Effect, OwnTab, UpdateFile, PutHosts, DiskOK
    <3>3. QED
      BY <3>1, <3>2
  <2>6. AnsweredFrom(e, r)
    BY <2>3, <2>4, <2>5 DEF AnsweredFrom
  <2>7. q.op # "raw"
    BY <1>2 DEF Accepts
  <2>8. QED
    BY <1>2, <2>2, <2>4, <2>6, <2>7 DEF r
<1>3. QED
  BY <1>1, <1>2

LEMMA ServedCurrent ==
  ASSUME NEW p, NEW s, IsList(s), NEW d, DiskOK(d), NEW kept, Underway(p, s, kept), Current(p, s, d),
         NEW k \in DOMAIN s, IsRequest(s[k]), s[k].status = "sent",
         \A j \in 1..k-1 : s[j].status # "sent",
         NEW e, e = IF Accepts(d, s[k]) THEN Effect(d, s[k]) ELSE d
  PROVE  Current(p, [s EXCEPT ![k] = Outcome(d, e, s[k])], e)
<1> DEFINE q == s[k]
           r == Outcome(d, e, q)
           t == [s EXCEPT ![k] = r]
           ok == Accepts(d, q)
<1>1. /\ r.op = q.op /\ r.inv = q.inv
      /\ r.status = (IF ok THEN "answered" ELSE "refused")
      /\ e # d => ok /\ q.op \in {"save", "saveHosts", "create", "delete"}
      /\ ok => q.op # "raw" /\ AnsweredFrom(e, r)
  BY OutcomeOf
<1>2. DOMAIN t = DOMAIN s /\ \A j \in DOMAIN s : t[j] = IF j = k THEN r ELSE s[j]
  BY ListReplaced
<1>3. /\ \A j \in DOMAIN s : j # k => j < k \/ j > k
      /\ \A j \in DOMAIN s : j < k => s[j].status # "sent"
      /\ \A j \in DOMAIN s : ~(j > j) /\ (j > k => ~(j < k))
      /\ \A i, j \in DOMAIN s : i < j <=> j > i
  BY ListPositions
<1>4. q.op \in Loads \cup Saves \cup {"create", "delete"} /\ q.status = "sent"
  BY DEF IsRequest
<1> HIDE DEF q, r, t, ok
<1>5. ServedInOrder(t)
  <2> SUFFICES ASSUME NEW i \in DOMAIN s, NEW j \in DOMAIN s, i < j, t[j].status # "sent"
               PROVE  t[i].status # "sent"
    BY <1>2 DEF ServedInOrder
  <2>1. CASE i = k
    BY <1>1, <1>2, <2>1
  <2>2. CASE i # k /\ j = k
    BY <1>2, <1>3, <2>2
  <2>3. CASE i # k /\ j # k
    BY <1>2, <2>3 DEF ServedInOrder, Current
  <2>4. QED
    BY <2>1, <2>2, <2>3
<1>6. \A j \in DOMAIN s : t[j].op = s[j].op /\ t[j].inv = s[j].inv
  BY <1>1, <1>2 DEF q
<1>7. LoadsTheInventory(p, t)
  BY <1>2, <1>6 DEF LoadsTheInventory, Current
\* Unless it renews something once it is served, the disk is as it was.
<1>8. /\ ~Renews(r) /\ ~IsSaved(r) => e = d
      /\ ~Renews(r) /\ k # 1 => e = d
      /\ ~Renews(r) => ~Renews(q)
  <2>1. ~Renews(r) => q.op \notin Loads /\ (q.op \in {"create", "delete"} => ~ok)
    BY <1>1 DEF Renews, Relists
  <2>2. ~Renews(r) => ~Renews(q)
    BY <1>4, <2>1 DEF Renews, Relists, Loads
  <2>3. k # 1 => q.op \notin Saves
    BY DEF Underway, q
  <2>4. QED
    BY <1>1, <2>1, <2>2, <2>3 DEF IsSaved, Saves
<1>9. AnswersStand(t, e)
  <2> SUFFICES ASSUME NEW i \in DOMAIN s, t[i].status = "answered",
                      \A j \in DOMAIN s : j > i => ~Renews(t[j])
               PROVE  AnsweredFrom(e, t[i])
    BY <1>2 DEF AnswersStand
  <2>1. CASE i = k
    BY <1>1, <1>2, <2>1
  <2>2. CASE i # k
    <3>1. t[i] = s[i]
      BY <1>2, <2>2
    <3>2. i < k
      <4>1. ~(k < i)
        BY <3>1, <1>4 DEF ServedInOrder, Current, q
      <4>2. QED
        BY <1>3, <2>2, <4>1
    <3>3. ~Renews(r) /\ k # 1
      BY <1>2, <1>3, <3>2, ListPositions
    <3>4. \A j \in DOMAIN s : j > i => ~Renews(s[j])
      BY <1>2, <1>8, <3>3 DEF q
    <3>5. AnsweredFrom(d, s[i])
      BY <3>1, <3>4 DEF AnswersStand, Current
    <3>6. QED
      BY <1>8, <3>1, <3>3, <3>5
  <2>3. QED
    BY <2>1, <2>2
<1>10. OpsTabKeeps(p, t, e)
  <2> SUFFICES ASSUME p.topTab = "ops", \A j \in DOMAIN s : ~Relists(t[j])
               PROVE  LoadedIsOnDisk(p, e)
    BY <1>2 DEF OpsTabKeeps
  <2>1. q.op \in OfAnyTab
    BY DEF Underway, q
  <2>2. ~Relists(r) /\ t[k] = r
    BY <1>2
  <2>3. e = d
    BY <1>1, <2>1, <2>2 DEF Relists, OfAnyTab
  <2>4. ~Relists(q)
    BY <1>1, <1>4, <2>2 DEF Relists
  <2>5. \A j \in DOMAIN s : ~Relists(s[j])
    BY <1>2, <2>4 DEF q
  <2>6. QED
    BY <2>3, <2>5 DEF OpsTabKeeps, Current
<1>11. Rests(p, t, e)
  <2> SUFFICES ASSUME \A j \in DOMAIN s : ~Renews(t[j]) /\ ~IsSaved(t[j])
               PROVE  OnDisk(p, e)
    BY <1>2 DEF Rests
  <2>1. ~Renews(r) /\ ~IsSaved(r)
    BY <1>2
  <2>2. ~Renews(q) /\ ~IsSaved(q)
    BY <1>4, <1>8, <2>1 DEF IsSaved
  <2>3. \A j \in DOMAIN s : ~Renews(s[j]) /\ ~IsSaved(s[j])
    BY <1>2, <2>2 DEF q
  <2>4. QED
    BY <1>8, <2>1, <2>3 DEF Rests, Current
<1>12. QED
  BY <1>5, <1>7, <1>9, <1>10, <1>11 DEF Current, t, r, q

\* What the answer brings is shown, if it is of what is selected.
LEMMA HeardOnDisk ==
  ASSUME NEW p, IsPage(p), p.topTab = "files", NEW q, IsRequest(q), q.status = "answered", q.op \in OwnTab,
         q.inv = p.inventory, q.path = p.currentPath, NEW d, AnsweredFrom(d, q)
  PROVE  OnDisk(Heard(p, q).page, d)
<1> DEFINE f == [p EXCEPT !.entries = q.answer]
           s == [p EXCEPT !.entries = q.answer, !.pending = NoEdits]
           h == [p EXCEPT !.hosts = q.answer, !.hostsRaw = q.answer]
           g == [p EXCEPT !.hostsDirty = FALSE, !.hosts = q.answer, !.hostsRaw = q.answer]
<1>1. q.inv \in d.exists
  BY DEF AnsweredFrom
<1>2. ASSUME q.op \in {"file", "save"} PROVE OnDisk(RenderFile(f), d) /\ OnDisk(RenderFile(s), d)
  <2>1. q.path \in Files /\ q.answer = GetFile(d, q.inv, q.path) /\ DOMAIN NoEdits = {}
    BY <1>2, NoBody DEF IsRequest, AnsweredFrom
  <2>2. ASSUME NEW c, IsPage(c), SameSelection(p, c), c.entries = q.answer PROVE OnDisk(RenderFile(c), d)
    <3>1. LoadedIsOnDisk(c, d)
      BY <2>1, <2>2, EditorAssumption DEF LoadedIsOnDisk, SameSelection
    <3>2. c.topTab = "files" /\ c.inventory \in d.exists /\ c.currentPath \in Files
      BY <1>1, <2>1, <2>2 DEF SameSelection
    <3>3. QED
      BY <2>2, <3>1, <3>2, DrawnOnDisk
  <2>3. IsPage(f) /\ SameSelection(p, f) /\ f.entries = q.answer
    BY DEF IsPage, PageFields, SameSelection
  <2>4. IsPage(s) /\ SameSelection(p, s) /\ s.entries = q.answer
    BY <2>1 DEF IsPage, PageFields, SameSelection
  <2> HIDE DEF f, s
  <2>5. QED
    BY <2>2, <2>3, <2>4
<1>3. ASSUME q.op \in {"hosts", "saveHosts"} PROVE OnDisk(RenderHosts(h), d) /\ OnDisk(RenderHosts(g), d)
  <2>1. /\ q.path = HOSTS_VIEW /\ q.answer = GetHosts(d, q.inv)
        /\ q.answer = Read(q.inv, HOSTS_VIEW, q.answer.val)
    BY <1>3 DEF IsRequest, AnsweredFrom
  <2>2. ASSUME NEW c, IsPage(c), SameSelection(p, c), c.hostsRaw = q.answer PROVE OnDisk(RenderHosts(c), d)
    <3>1. LoadedIsOnDisk(c, d)
      BY <2>1, <2>2, EditorAssumption DEF LoadedIsOnDisk, SameSelection
    <3>2. c.topTab = "files" /\ c.inventory \in d.exists /\ c.currentPath = HOSTS_VIEW
      BY <1>1, <2>1, <2>2 DEF SameSelection
    <3>3. QED
      BY <2>2, <3>1, <3>2, DrawnOnDisk
  <2>3. IsEdit(q.answer)
    <3>1. \A inv, val : IsEdit(Read(inv, HOSTS_VIEW, val))
      BY DEF IsEdit, Read
    <3>2. QED
      BY <2>1, <3>1
  <2>4. IsPage(h) /\ SameSelection(p, h) /\ h.hostsRaw = q.answer
    BY <2>3 DEF IsPage, PageFields, SameSelection
  <2>5. IsPage(g) /\ SameSelection(p, g) /\ g.hostsRaw = q.answer
    BY <2>3 DEF IsPage, PageFields, SameSelection
  <2> HIDE DEF h, g
  <2>6. QED
    BY <2>2, <2>4, <2>5
<1>4. /\ q.op = "file" => Heard(p, q).page = RenderFile(f)
      /\ q.op = "save" => Heard(p, q).page = RenderFile(s)
      /\ q.op = "hosts" => Heard(p, q).page = RenderHosts(h)
      /\ q.op = "saveHosts" => Heard(p, q).page = RenderHosts(g)
  BY DEF Heard, Page, AfterFile, AfterSave, AfterHosts, AfterSaveHosts
<1> HIDE DEF f, s, h, g
<1>5. QED
  BY <1>2, <1>3, <1>4 DEF OwnTab

\* How the rest of a handler of an inventory goes on.
OfTheList(p, q, r, next) ==
  /\ r = p
  /\ \E n : /\ next = <<n>> /\ n.status = "sent"
            /\ \/ q.op \in {"create", "delete"} /\ n.op = "list"
               \/ q.op = "files" /\ p.topTab = "ops" /\ n.op = "ops" /\ n.inv = p.inventory

ShowsTheTab(p, q, r, next) ==
  /\ next = <<>> /\ SameLoaded(p, r) /\ r.topTab = p.topTab
  /\ \/ q.op = "files" /\ p.topTab = "files" /\ r.view = "empty"
     \/ q.op = "ops" /\ r.view = "ops" /\ r.opsArg = q.answer

LEMMA Continues ==
  ASSUME NEW p, IsPage(p), NEW q, q.op \in OfInventory
  PROVE  LET r == Heard(p, q).page
             next == Heard(p, q).next IN
         OfTheList(p, q, r, next) \/ ShowsTheTab(p, q, r, next) \/ ChoosesInventory(r, next)
<1>1. ASSUME NEW c, IsPage(c), ShowsTheTab(p, q, c, <<>>), NEW then
      PROVE  LET a == InventoryShown(c, then) IN
             ShowsTheTab(p, q, a.page, a.next) \/ ChoosesInventory(a.page, a.next)
  <2>1. CASE then = None
    <3>1. InventoryShown(c, then) = [page |-> c, next |-> <<>>]
      BY <2>1 DEF InventoryShown, Page
    <3>2. QED
      BY <1>1, <3>1
  <2>2. CASE then # None
    <3> DEFINE r == SelectInventory(c, then)
               next == <<Load("files", then, None, None)>>
    <3>1. InventoryShown(c, then) = [page |-> r, next |-> next]
      BY <2>2 DEF InventoryShown, ChooseInventory, Await
    <3>2. ChoosesInventory(r, next)
      BY <1>1, Chosen
    <3> HIDE DEF r, next
    <3>3. QED
      BY <3>1, <3>2
  <2>3. QED
    BY <2>1, <2>2
<1>2. CASE q.op = "list"
  <2> DEFINE c == [p EXCEPT !.options = q.answer]
             inv == Preferred(q.answer)
             r == SelectInventory(c, inv)
             next == <<Load("files", inv, None, q.then)>>
  <2>1. Heard(p, q) = [page |-> r, next |-> next]
    BY <1>2 DEF Heard, AfterList, ChooseInventory, Await
  <2>2. IsPage(c)
    BY DEF IsPage, PageFields
  <2> HIDE DEF c, inv
  <2>3. ChoosesInventory(r, next)
    BY <2>2, Chosen
  <2> HIDE DEF r, next
  <2>4. QED
    BY <2>1, <2>3
<1>3. CASE q.op = "files" /\ p.topTab = "ops"
  <2> DEFINE n == LoadOps(p, q.then)
  <2>1. Heard(p, q) = [page |-> p, next |-> <<n>>]
    BY <1>3 DEF Heard, AfterFiles, Await
  <2>2. n.op = "ops" /\ n.inv = p.inventory /\ n.status = "sent"
    BY LoadSent DEF LoadOps, Loads
  <2> HIDE DEF n
  <2>3. OfTheList(p, q, p, <<n>>)
    BY <1>3, <2>2 DEF OfTheList
  <2>4. QED
    BY <2>1, <2>3
<1>4. CASE q.op = "files" /\ p.topTab # "ops"
  <2> DEFINE c == DrawEmptyState(p)
  <2>1. Heard(p, q) = InventoryShown(c, q.then)
    BY <1>4 DEF Heard, AfterFiles
  <2>2. IsPage(c) /\ OnlyDrawn(p, c) /\ c.view = "empty" /\ p.topTab = "files"
    BY <1>4, Drawings DEF IsPage
  <2> HIDE DEF c
  <2>3. ShowsTheTab(p, q, c, <<>>)
    BY <1>4, <2>2, DrawnLoaded DEF ShowsTheTab, OnlyDrawn, SameSelection
  <2>4. QED
    BY <1>1, <2>1, <2>2, <2>3
<1>5. CASE q.op = "ops"
  <2> DEFINE o == [p EXCEPT !.opsArg = q.answer]
             c == RenderOps(o)
  <2>1. Heard(p, q) = InventoryShown(c, q.then)
    BY <1>5 DEF Heard, AfterOps
  <2>2. IsPage(o) /\ SameLoaded(p, o) /\ o.topTab = p.topTab /\ o.opsArg = q.answer
    BY DEF IsPage, PageFields, SameLoaded
  <2> HIDE DEF o
  <2>3. IsPage(c) /\ OnlyDrawn(o, c) /\ c.view = "ops"
    BY <2>2, Drawings
  <2>4. c.opsArg = o.opsArg
    BY <2>2 DEF RenderOps, Draw, IsPage, PageFields
  <2> HIDE DEF c
  <2>5. SameLoaded(p, c) /\ c.topTab = p.topTab
    BY <2>2, <2>3 DEF OnlyDrawn, SameSelection, SameLoaded
  <2>6. ShowsTheTab(p, q, c, <<>>)
    BY <1>5, <2>2, <2>3, <2>4, <2>5 DEF ShowsTheTab
  <2>7. QED
    BY <1>1, <2>1, <2>3, <2>6
<1>6. CASE q.op \in {"create", "delete"}
  <2> DEFINE n == Load("list", None, None, q.then)
  <2>1. Heard(p, q) = [page |-> p, next |-> <<n>>]
    BY <1>6 DEF Heard, Await
  <2>2. n.op = "list" /\ n.status = "sent"
    BY LoadSent DEF Loads
  <2> HIDE DEF n
  <2>3. OfTheList(p, q, p, <<n>>)
    BY <1>6, <2>2 DEF OfTheList
  <2>4. QED
    BY <2>1, <2>3
<1>7. QED
  BY <1>2, <1>3, <1>4, <1>5, <1>6 DEF OfInventory

LEMMA HeardCurrent ==
  ASSUME NEW p, IsPage(p), NEW s, IsList(s), \A j \in DOMAIN s : IsRequest(s[j]),
         NEW d, NEW kept, Agree(p, s, kept), Current(p, s, d), NEW i \in DOMAIN s, i = 1, s[i].status = "answered"
  PROVE  Current(Heard(p, s[i]).page, RemoveAt(s, i) \o Heard(p, s[i]).next, d)
<1> DEFINE q == s[i]
           t == RemoveAt(s, i)
           r == Heard(p, q).page
           next == Heard(p, q).next
<1>1. IsRequest(q) /\ q.status = "answered" /\ IsList(t) /\ t \o <<>> = t
  BY ListLeft, ListPositions
<1>2. /\ DOMAIN s = 1..Len(s) /\ Len(s) \in Nat /\ DOMAIN t = 1..(Len(s) - 1)
      /\ \A m \in 1..(Len(s) - 1) : t[m] = IF m < i THEN s[m] ELSE s[m + 1]
  BY ListPositions, ListLeft
<1>3. /\ ServedInOrder(t) /\ LoadsTheInventory(p, t) /\ AnswersStand(t, d)
      /\ ~Relists(q) => OpsTabKeeps(p, t, d)
  BY CurrentLeft
<1> HIDE DEF t
<1>4. \A j \in DOMAIN s : j > i => j - 1 \in DOMAIN t /\ t[j - 1] = s[j]
  BY <1>2
<1>5. (\A m \in DOMAIN t : ~Renews(t[m])) => AnsweredFrom(d, q)
  <2> SUFFICES ASSUME \A m \in DOMAIN t : ~Renews(t[m]) PROVE AnsweredFrom(d, q)
    OBVIOUS
  <2>1. \A j \in DOMAIN s : j > i => ~Renews(s[j])
    BY <1>4
  <2>2. QED
    BY <1>1, <2>1 DEF AnswersStand, Current
<1>6. NothingLoads(t) =>
        /\ q.op \in Loads /\ p.topTab = "files" => AskedFor(p, q)
        /\ q.op \in {"files", "ops"} => q.inv = p.inventory
        /\ q.op \in {"save", "saveHosts"} => q.inv = p.inventory /\ q.path = p.currentPath
  <2> SUFFICES ASSUME NothingLoads(t)
               PROVE  /\ q.op \in Loads /\ p.topTab = "files" => AskedFor(p, q)
                      /\ q.op \in {"files", "ops"} => q.inv = p.inventory
                      /\ q.op \in {"save", "saveHosts"} => q.inv = p.inventory /\ q.path = p.currentPath
    OBVIOUS
  <2>1. \A j \in DOMAIN s : j > i => s[j].op \notin Loads
    BY <1>4 DEF NothingLoads
  <2>2. q.op \in {"save", "saveHosts"} => NothingLoads(s)
    <3>1. \A j \in DOMAIN s : j = i \/ j > i
      BY <1>2
    <3>2. QED
      BY <2>1, <3>1 DEF NothingLoads, Loads
  <2>3. QED
    BY <2>1, <2>2 DEF Agree, Settles, LoadsTheInventory, Current
<1>7. (\A m \in DOMAIN t : ~Renews(t[m])) => NothingLoads(t)
  BY DEF NothingLoads, Renews
<1>8. /\ p.topTab \in {"files", "ops"} /\ (p.topTab = "ops" => q.op \in OfAnyTab)
      /\ (p.topTab = "files" => q.op # "ops")
  BY DEF Agree, Underway, IsPage
<1> HIDE DEF q, r, next
<1>9. CASE q.op \in OwnTab
  <2>1. next = <<>> /\ SameSelection(p, r)
    BY <1>1, <1>9, HeardOwnTab DEF OwnTab, r, next
  <2>2. p.topTab = "files"
    BY <1>8, <1>9 DEF OwnTab, OfAnyTab
  <2>3. NothingLoads(t) => q.inv = p.inventory /\ q.path = p.currentPath
    <3>1. CASE q.op \in {"save", "saveHosts"}
      BY <1>6, <3>1
    <3>2. CASE q.op = "file"
      BY <1>6, <2>2, <3>2 DEF AskedFor, Loads
    <3>3. CASE q.op = "hosts"
      BY <1>1, <1>6, <2>2, <3>3 DEF AskedFor, Loads, IsRequest
    <3>4. QED
      BY <1>9, <3>1, <3>2, <3>3 DEF OwnTab
  <2>4. ASSUME \A m \in DOMAIN t : ~Renews(t[m]) PROVE OnDisk(r, d)
    BY <1>1, <1>5, <1>7, <1>9, <2>2, <2>3, <2>4, HeardOnDisk DEF r
  <2>5. LoadsTheInventory(r, t) /\ OpsTabKeeps(r, t, d) /\ Rests(r, t, d)
    BY <1>3, <2>1, <2>2, <2>4 DEF SameSelection, LoadsTheInventory, OpsTabKeeps, Rests
  <2>6. Current(r, t, d)
    BY <1>3, <2>5 DEF Current
  <2>7. QED
    BY <1>1, <2>1, <2>6 DEF q, t, r, next
<1>10. CASE q.op \in OfInventory
  <2>1. OfTheList(p, q, r, next) \/ ShowsTheTab(p, q, r, next) \/ ChoosesInventory(r, next)
    BY <1>10, Continues DEF r, next
  <2>2. CASE OfTheList(p, q, r, next)
    <3>1. PICK n : /\ next = <<n>> /\ n.status = "sent"
                   /\ \/ q.op \in {"create", "delete"} /\ n.op = "list"
                      \/ q.op = "files" /\ p.topTab = "ops" /\ n.op = "ops" /\ n.inv = p.inventory
      BY <2>2 DEF OfTheList
    <3>2. r = p /\ n.op \in Loads
      BY <2>2, <3>1 DEF OfTheList, Loads
    <3>3. n.op # "list" => OpsTabKeeps(p, t, d)
      BY <1>3, <3>1 DEF Relists
    <3>4. Current(p, t \o <<n>>, d)
      BY <1>1, <1>3, <3>1, <3>2, <3>3, CurrentWithLoad
    <3>5. QED
      BY <3>1, <3>2, <3>4 DEF q, t, r, next
  <2>3. CASE ShowsTheTab(p, q, r, next)
    <3>1. /\ next = <<>> /\ SameLoaded(p, r) /\ r.topTab = p.topTab
          /\ \/ q.op = "files" /\ p.topTab = "files" /\ r.view = "empty"
             \/ q.op = "ops" /\ r.view = "ops" /\ r.opsArg = q.answer
      BY <2>3 DEF ShowsTheTab
    <3>2. ~Relists(q) /\ q.op \in Loads
      BY <3>1 DEF Relists, Loads
    <3>3. LoadsTheInventory(r, t) /\ OpsTabKeeps(r, t, d)
      BY <1>3, <3>1, <3>2, LoadedStill DEF SameLoaded, LoadsTheInventory, OpsTabKeeps
    <3>4. ASSUME \A m \in DOMAIN t : ~Renews(t[m]) PROVE OnDisk(r, d)
      <4>1. AnsweredFrom(d, q) /\ NothingLoads(t)
        BY <1>5, <1>7, <3>4
      <4>2. r.inventory = q.inv /\ r.inventory \in d.exists /\ (q.op = "ops" => q.answer = r.inventory)
        BY <1>6, <3>1, <4>1 DEF AnsweredFrom, SameLoaded
      <4>3. CASE q.op = "files" /\ p.topTab = "files" /\ r.view = "empty"
        <5>1. r.currentPath = None
          BY <1>6, <3>1, <3>2, <4>1, <4>3 DEF AskedFor, SameLoaded
        <5>2. QED
          BY <3>1, <4>2, <4>3, <5>1, EditorAssumption DEF OnDisk, LoadedIsOnDisk, DrawnBySelection
      <4>4. CASE q.op = "ops" /\ r.view = "ops" /\ r.opsArg = q.answer
        <5>1. r.topTab = "ops"
          BY <1>8, <3>1, <4>4
        <5>2. LoadedIsOnDisk(r, d)
          BY <3>3, <3>4, <5>1 DEF OpsTabKeeps, Renews
        <5>3. QED
          BY <4>2, <4>4, <5>1, <5>2 DEF OnDisk, DrawnBySelection
      <4>5. QED
        BY <3>1, <4>3, <4>4
    <3>5. Current(r, t, d)
      BY <1>3, <3>3, <3>4 DEF Current, Rests
    <3>6. QED
      BY <1>1, <3>1, <3>5 DEF q, t, r, next
  <2>4. CASE ChoosesInventory(r, next)
    BY <1>1, <1>3, <2>4, CurrentChosen DEF q, t, r, next
  <2>5. QED
    BY <2>1, <2>2, <2>3, <2>4
<1>11. QED
  BY <1>1, <1>9, <1>10, HeardKinds DEF q

\* A request that is lost, or refused, and was no load nor answered.
LEMMA FailedCurrent ==
  ASSUME NEW p, NEW s, IsList(s), NEW d, NEW i \in DOMAIN s, Current(p, s, d),
         s[i].op \notin Loads, s[i].status # "answered"
  PROVE  Current(p, RemoveAt(s, i), d)
<1>1. ~Renews(s[i]) /\ ~Relists(s[i]) /\ ~IsSaved(s[i])
  BY DEF Renews, Relists, IsSaved, Loads
<1>2. QED
  BY <1>1, CurrentLeft DEF Current

LEMMA FailedUnanswered ==
  ASSUME Shape, NEW i \in DOMAIN inFlight, Fail(i), AsExpected'
  PROVE  inFlight[i].status # "answered"
<1> DEFINE missed == \/ person.missed \/ inFlight[i].op \in Loads
                     \/ inFlight[i].status = "answered"
           losses == IF inFlight[i].status = "refused" THEN person.losses ELSE person.losses + 1
<1>1. person' = [person EXCEPT !.losses = losses, !.missed = missed]
  BY DEF Fail
<1> HIDE DEF losses, missed
<1>2. person'.missed = missed
  <2>1. person = [f \in PersonFields |-> person[f]]
    BY DEF Shape, IsPerson
  <2>2. QED
    BY <1>1, <2>1 DEF PersonFields
<1>3. QED
  BY <1>2 DEF AsExpected, missed

LEMMA ServedFirst ==
  ASSUME Shape, NEW i \in DOMAIN inFlight, Serve(i), AsExpected'
  PROVE  /\ \A j \in 1..i-1 : inFlight[j].status # "sent"
         /\ inFlight[i].status = "sent"
         /\ disk' = IF Accepts(disk, inFlight[i]) THEN Effect(disk, inFlight[i]) ELSE disk
         /\ inFlight' = [inFlight EXCEPT ![i] = Outcome(disk, disk', inFlight[i])]
<1> DEFINE ordered == person.ordered /\ \A j \in 1..i-1 : inFlight[j].status # "sent"
<1>1. person' = [person EXCEPT !.ordered = ordered]
  BY DEF Serve
<1> HIDE DEF ordered
<1>2. person'.ordered = ordered
  <2>1. person = [f \in PersonFields |-> person[f]]
    BY DEF Shape, IsPerson
  <2>2. QED
    BY <1>1, <2>1 DEF PersonFields
<1>3. \A j \in 1..i-1 : inFlight[j].status # "sent"
  BY <1>2 DEF AsExpected, ordered
<1>4. QED
  BY <1>3 DEF Serve, Outcome

LEMMA NextKeepsCurrent == TypesHold /\ AgreeInv /\ CurrentInv /\ [Next]_vars => CurrentInv'
<1> SUFFICES ASSUME TypesHold, AgreeInv, CurrentInv, [Next]_vars, AsExpected'
             PROVE  Current(page', inFlight', disk')
  BY DEF CurrentInv
<1>0. /\ Shape /\ DiskOK(disk) /\ IsPage(page) /\ IsList(inFlight)
      /\ \A i \in DOMAIN inFlight : IsRequest(inFlight[i])
  BY DEF TypesHold, Shape
<1>1. CASE PersonActs
  <2>1. PICK name, r, requests : Act(name, r, requests) /\ Does(name, r, requests)
    BY <1>0, <1>1, PersonDoes
  <2>2. QED
    BY <1>0, <2>1, ActKeepsCurrent
<1>2. ASSUME NEW i \in DOMAIN inFlight, Serve(i) PROVE Current(page', inFlight', disk')
  <2>1. /\ \A j \in 1..i-1 : inFlight[j].status # "sent"
        /\ inFlight[i].status = "sent"
        /\ disk' = IF Accepts(disk, inFlight[i]) THEN Effect(disk, inFlight[i]) ELSE disk
        /\ inFlight' = [inFlight EXCEPT ![i] = Outcome(disk, disk', inFlight[i])]
    BY <1>0, <1>2, ServedFirst
  <2>2. page' = page /\ AsExpected
    BY <1>0, <1>2, Served
  <2>3. Underway(page, inFlight, person.kept) /\ Current(page, inFlight, disk)
    BY <2>2 DEF AgreeInv, Agree, CurrentInv
  <2> DEFINE e == disk'
  <2>4. e = IF Accepts(disk, inFlight[i]) THEN Effect(disk, inFlight[i]) ELSE disk
    BY <2>1
  <2>5. inFlight' = [inFlight EXCEPT ![i] = Outcome(disk, e, inFlight[i])]
    BY <2>1
  <2> HIDE DEF e
  <2>6. Current(page, [inFlight EXCEPT ![i] = Outcome(disk, e, inFlight[i])], e)
    BY <1>0, <2>1, <2>3, <2>4, ServedCurrent
  <2>7. QED
    BY <2>2, <2>5, <2>6 DEF e
<1>3. ASSUME NEW i \in DOMAIN inFlight, Hear(i) PROVE Current(page', inFlight', disk')
  <2>1. /\ AsExpected /\ i = 1 /\ inFlight[i].status = "answered"
        /\ page' = Heard(page, inFlight[i]).page
        /\ inFlight' = RemoveAt(inFlight, i) \o Heard(page, inFlight[i]).next
    BY <1>0, <1>3, HeardBy
  <2>2. Agree(page, inFlight, person.kept) /\ Current(page, inFlight, disk) /\ disk' = disk
    BY <1>3, <2>1 DEF AgreeInv, CurrentInv, Hear
  <2>3. Current(Heard(page, inFlight[i]).page,
                RemoveAt(inFlight, i) \o Heard(page, inFlight[i]).next, disk)
    BY <1>0, <2>1, <2>2, HeardCurrent
  <2>4. QED
    BY <2>1, <2>2, <2>3
<1>4. ASSUME NEW i \in DOMAIN inFlight, Fail(i) PROVE Current(page', inFlight', disk')
  <2>1. /\ AsExpected /\ inFlight[i].op \notin Loads /\ inFlight[i].status # "answered"
        /\ page' = page /\ inFlight' = RemoveAt(inFlight, i) /\ disk' = disk
    BY <1>0, <1>4, Failed, FailedUnanswered DEF Fail
  <2>2. Current(page, inFlight, disk)
    BY <2>1 DEF CurrentInv
  <2>3. QED
    BY <1>0, <2>1, <2>2, FailedCurrent
<1>5. CASE UNCHANGED vars
  BY <1>5 DEF vars, CurrentInv, AsExpected
<1>6. QED
  BY <1>1, <1>2, <1>3, <1>4, <1>5 DEF Next

LEMMA CurrentAlways == Spec => [](TypesHold /\ AgreeInv /\ CurrentInv)
<1>1. Init => TypesHold /\ AgreeInv /\ CurrentInv
  BY InitTypes, InitAgrees, InitCurrent
<1>2. TypesHold /\ AgreeInv /\ CurrentInv /\ [Next]_vars => (TypesHold /\ AgreeInv /\ CurrentInv)'
  BY NextKeepsTypes, NextKeepsAgree, NextKeepsCurrent DEF TypesHold
<1>3. QED
  BY <1>1, <1>2, PTL DEF Spec

\* Once nothing is awaited, the page shows what is selected as it is on disk, in
\* whatever order files, hosts, tabs and inventories were clicked while the
\* answers were on their way.
THEOREM SelectionsShown == Spec => []SelectionIsShown
<1>1. TypesHold /\ CurrentInv => SelectionIsShown
  <2> SUFFICES ASSUME TypesHold, CurrentInv, AsExpected, inFlight = <<>>
               PROVE  /\ page.inventory \in disk.exists
                      /\ page.topTab = "ops" => page.view = "ops" /\ page.opsArg = page.inventory
                      /\ page.topTab = "files" =>
                           CASE page.currentPath = None -> page.view = "empty"
                             [] page.currentPath = HOSTS_VIEW ->
                                  /\ page.view \in {"hosts", "hostsRaw"}
                                  /\ page.hostsRaw = GetHosts(disk, page.inventory)
                             [] OTHER ->
                                  /\ page.view \in {"file", "fileRaw"}
                                  /\ page.entries = GetFile(disk, page.inventory, page.currentPath)
    BY DEF SelectionIsShown
  <2>1. OnDisk(page, disk)
    BY CurrentAtRest DEF CurrentInv
  <2>2. page.currentPath \in Files \cup {HOSTS_VIEW, None} /\ None # HOSTS_VIEW
    BY EditorAssumption DEF TypesHold, Shape, IsPage, Paths
  <2>3. QED
    BY <2>1, <2>2 DEF OnDisk, LoadedIsOnDisk, DrawnBySelection
<1>2. QED
  BY <1>1, CurrentAlways, PTL

-----------------------------------------------------------------------------
(* The invariant Followed: where an edit of the form is on its way to.     *)

\* Behind the hosts, nothing is pending that was not discarded.
HostsLeaveNothing(p) ==
  p.currentPath = HOSTS_VIEW => \A k \in DOMAIN p.pending : p.pending[k].gone

\* A save that is awaited carries all that is pending.
SavesCarryPending(p, s) ==
  \A i \in DOMAIN s : s[i].op = "save" =>
    \A k \in DOMAIN p.pending :
      p.pending[k].gone \/ (k \in DOMAIN s[i].body /\ s[i].body[k] = p.pending[k])

Deleted(s, inv) == \E j \in DOMAIN s : s[j].op = "delete" /\ s[j].status = "answered" /\ s[j].inv = inv

\* What a save wrote is there until the save is heard, or the inventory is not.
Wrote(d, q) == q.inv \in d.exists /\ \A k \in DOMAIN q.body : d.texts[q.inv][q.path][k] = q.body[k].val

SavedIsOnDisk(s, d) ==
  \A i \in DOMAIN s :
    s[i].op = "save" /\ s[i].status = "answered" => Deleted(s, s[i].inv) \/ Wrote(d, s[i])

Followed(p, s, d) == HostsLeaveNothing(p) /\ SavesCarryPending(p, s) /\ SavedIsOnDisk(s, d)

FollowedInv == AsExpected => Followed(page, inFlight, disk)

\* No edit is added but for those that were discarded.
PendingStays(p, r) ==
  \A k \in DOMAIN r.pending :
    r.pending[k].gone \/ (k \in DOMAIN p.pending /\ r.pending[k] = p.pending[k])

LEMMA DiscardedPending ==
  ASSUME NEW p, IsPage(p)
  PROVE  LET r == Discarded(p) IN
         /\ DOMAIN r.pending = DOMAIN p.pending /\ PendingStays(p, r)
         /\ p.currentPath # HOSTS_VIEW => \A k \in DOMAIN r.pending : r.pending[k].gone
         /\ p.currentPath = HOSTS_VIEW => r.pending = p.pending
<1> DEFINE r == Discarded(p)
<1>1. CASE ~HasUnsavedChanges(p)
  <2>1. r = p
    BY <1>1 DEF Discarded
  <2>2. p.currentPath # HOSTS_VIEW => DOMAIN p.pending = {}
    BY <1>1, NoBody DEF HasUnsavedChanges
  <2>3. QED
    BY <2>1, <2>2 DEF PendingStays
<1>2. CASE HasUnsavedChanges(p) /\ p.currentPath = HOSTS_VIEW
  <2> DEFINE hosts == [p.hosts EXCEPT !.gone = TRUE]
  <2>1. r = [p EXCEPT !.hosts = hosts]
    BY <1>2 DEF Discarded, IsPage, PageFields
  <2>2. r.pending = p.pending
    BY <2>1 DEF IsPage, PageFields
  <2>3. QED
    BY <1>2, <2>2 DEF PendingStays
<1>3. CASE HasUnsavedChanges(p) /\ p.currentPath # HOSTS_VIEW
  <2> DEFINE gone == [k \in DOMAIN p.pending |-> [p.pending[k] EXCEPT !.gone = TRUE]]
  <2>1. r = [p EXCEPT !.pending = gone]
    BY <1>3 DEF Discarded, IsPage, PageFields
  <2>2. DOMAIN gone = DOMAIN p.pending /\ \A k \in DOMAIN p.pending : gone[k].gone
    BY DEF IsPage, IsEdit
  <2> HIDE DEF gone
  <2>3. r.pending = gone
    BY <2>1 DEF IsPage, PageFields
  <2>4. QED
    BY <1>3, <2>2, <2>3 DEF PendingStays
<1>4. QED
  BY <1>1, <1>2, <1>3

\* Pending edits come from typing and leave by a file that is opened.
LEMMA ActPending ==
  ASSUME IsPage(page), NEW name, NEW r, NEW requests, Does(name, r, requests)
  PROVE  /\ ~TypesValue(name, r, requests) =>
              PendingStays(page, r) /\ (HostsLeaveNothing(page) => HostsLeaveNothing(r))
         /\ ~OpensFile(name, r, requests) => DOMAIN page.pending \subseteq DOMAIN r.pending
         /\ OpensFile(name, r, requests) => name \in {"file", "search"} /\ DOMAIN r.pending = {}
<1> DEFINE p == page
           Kept == /\ PendingStays(p, r) /\ (HostsLeaveNothing(p) => HostsLeaveNothing(r))
                   /\ DOMAIN p.pending \subseteq DOMAIN r.pending
<1>0. None # HOSTS_VIEW /\ HOSTS_VIEW \notin Files
  BY EditorAssumption
<1>1. ASSUME r.pending = p.pending, r.currentPath = p.currentPath \/ r.currentPath = None PROVE Kept
  BY <1>0, <1>1 DEF PendingStays, HostsLeaveNothing
<1>2. CASE ToFiles(name, r, requests)
  <2> DEFINE f == [p EXCEPT !.topTab = "files"]
  <2>1. r \in {RenderHosts(f), DrawEmptyState(f), RenderFile(f)}
    BY <1>0, <1>2 DEF ToFiles, SwitchToFiles
  <2>2. IsPage(f) /\ f.pending = p.pending /\ f.currentPath = p.currentPath
    BY DEF IsPage, PageFields
  <2> HIDE DEF f
  <2>3. OnlyDrawn(f, r)
    BY <2>1, <2>2, Drawings
  <2>4. Kept /\ ~OpensFile(name, r, requests)
    BY <1>1, <1>2, <2>2, <2>3 DEF OnlyDrawn, SameSelection, ToFiles, OpensFile
  <2>5. QED
    BY <2>4
<1>3. CASE ToOps(name, r, requests)
  <2> DEFINE d == Discarded(p)
  <2>1. r = [d EXCEPT !.topTab = "ops"]
    BY <1>3 DEF ToOps, SwitchToOps
  <2>2. /\ IsPage(d) /\ d.currentPath = p.currentPath
        /\ DOMAIN d.pending = DOMAIN p.pending /\ PendingStays(p, d)
        /\ p.currentPath = HOSTS_VIEW => d.pending = p.pending
    BY DiscardedPage, DiscardedPending DEF SameSelection
  <2> HIDE DEF d
  <2>3. r.pending = d.pending /\ r.currentPath = d.currentPath
    BY <2>1, <2>2 DEF IsPage, PageFields
  <2>4. Kept /\ ~OpensFile(name, r, requests)
    BY <1>3, <2>2, <2>3 DEF PendingStays, HostsLeaveNothing, ToOps, OpensFile
  <2>5. QED
    BY <2>4
<1>4. CASE OpensFile(name, r, requests)
  <2>1. r.pending = NoEdits /\ r.currentPath \in Files /\ name \in {"file", "search"}
    BY <1>4, SelectedFile DEF OpensFile
  <2>2. QED
    BY <1>0, <1>4, <2>1, NoBody DEF PendingStays, HostsLeaveNothing
<1>5. CASE OpensHosts(name, r, requests)
  <2> DEFINE d == Discarded(p)
  <2>1. r = [d EXCEPT !.currentPath = HOSTS_VIEW, !.hostsMode = "form", !.hostsDirty = FALSE]
    BY <1>5 DEF OpensHosts, SelectHosts
  <2>2. /\ IsPage(d)
        /\ DOMAIN d.pending = DOMAIN p.pending /\ PendingStays(p, d)
        /\ p.currentPath # HOSTS_VIEW => \A k \in DOMAIN d.pending : d.pending[k].gone
        /\ p.currentPath = HOSTS_VIEW => d.pending = p.pending
    BY DiscardedPage, DiscardedPending
  <2> HIDE DEF d
  <2>3. r.pending = d.pending
    BY <2>1, <2>2 DEF IsPage, PageFields
  <2>4. Kept /\ ~OpensFile(name, r, requests)
    BY <1>5, <2>2, <2>3 DEF PendingStays, HostsLeaveNothing, OpensHosts, OpensFile
  <2>5. QED
    BY <2>4
<1>6. CASE PicksInventory(name, r, requests)
  <2>1. PICK inv : r = SelectInventory(p, inv)
    BY <1>6 DEF PicksInventory
  <2>2. r.pending = p.pending /\ r.currentPath = None
    BY <2>1 DEF SelectInventory, IsPage, PageFields
  <2>3. Kept /\ ~OpensFile(name, r, requests)
    BY <1>1, <1>6, <2>2 DEF PicksInventory, OpensFile
  <2>4. QED
    BY <2>3
<1>7. CASE AsksForInventory(name, r, requests) \/ SavesView(name, r, requests)
  <2>1. Kept /\ ~OpensFile(name, r, requests)
    BY <1>1, <1>7 DEF AsksForInventory, SavesView, OpensFile
  <2>2. QED
    BY <2>1
<1>8. CASE TypesValue(name, r, requests)
  <2>1. PICK k, v : r = OnFieldChange(p, k, v)
    BY <1>8 DEF TypesValue
  <2> DEFINE pending == [j \in DOMAIN p.pending \cup {k} |->
                           IF j = k THEN Read(p.entries.inv, p.entries.path, v) ELSE p.pending[j]]
  <2>2. r = [p EXCEPT !.pending = pending]
    BY <2>1 DEF OnFieldChange, IsPage, PageFields
  <2>3. DOMAIN p.pending \subseteq DOMAIN pending
    OBVIOUS
  <2> HIDE DEF pending
  <2>4. r.pending = pending
    BY <2>2 DEF IsPage, PageFields
  <2>5. ~OpensFile(name, r, requests)
    BY <1>8 DEF TypesValue, OpensFile
  <2>6. QED
    BY <1>8, <2>3, <2>4, <2>5
<1>9. CASE TypesHosts(name, r, requests)
  <2>1. PICK v : r \in {ChangeHostCard(p, v), AddHost(p, v), ChangeHostsText(p, v)}
    BY <1>9 DEF TypesHosts
  <2> DEFINE hosts == [p.hosts EXCEPT !.val = v, !.gone = FALSE]
             text == [p.text EXCEPT !.val = v]
             c == ChangeHostCard(p, v)
  <2>2. c = [p EXCEPT !.hosts = hosts, !.hostsDirty = TRUE]
    BY DEF ChangeHostCard, IsPage, PageFields
  <2>3. ChangeHostsText(p, v) = [p EXCEPT !.text = text, !.hostsDirty = TRUE]
    BY DEF ChangeHostsText, IsPage, PageFields
  <2>4. IsPage(c)
    BY TypedHosts
  <2> HIDE DEF hosts, text, c
  <2>5. c.pending = p.pending /\ c.currentPath = p.currentPath
    BY <2>2 DEF IsPage, PageFields
  <2>6. RenderHosts(c).pending = p.pending /\ RenderHosts(c).currentPath = p.currentPath
    BY <2>4, <2>5, Drawings DEF OnlyDrawn, SameSelection
  <2>7. ChangeHostsText(p, v).pending = p.pending /\ ChangeHostsText(p, v).currentPath = p.currentPath
    BY <2>3 DEF IsPage, PageFields
  <2>8. Kept /\ ~OpensFile(name, r, requests)
    BY <1>1, <1>9, <2>1, <2>5, <2>6, <2>7 DEF AddHost, TypesHosts, OpensFile, c
  <2>9. QED
    BY <2>8
<1>10. CASE TogglesView(name, r, requests)
  <2>1. OnlyDrawn(p, r)
    BY <1>10, Toggled DEF TogglesView
  <2>2. Kept /\ ~OpensFile(name, r, requests)
    BY <1>1, <1>10, <2>1 DEF OnlyDrawn, SameSelection, TogglesView, OpensFile
  <2>3. QED
    BY <2>2
<1>11. CASE Operates(name, r, requests)
  <2>1. CASE \E fields : r = [p EXCEPT !.opsFields = fields]
    BY <2>1, <1>1, <1>11 DEF IsPage, PageFields, Operates, OpensFile
  <2>2. CASE \E mode : r = RenderOps([p EXCEPT !.opsMode = mode])
    BY <2>2, <1>1, <1>11 DEF RenderOps, Draw, IsPage, PageFields, Operates, OpensFile
  <2>3. QED
    BY <1>11, <2>1, <2>2 DEF Operates
<1>12. QED
  BY <1>2, <1>3, <1>4, <1>5, <1>6, <1>7, <1>8, <1>9, <1>10, <1>11 DEF Does

LEMMA FollowedPage ==
  ASSUME NEW p, NEW r, NEW s, NEW d, Followed(p, s, d), PendingStays(p, r),
         HostsLeaveNothing(p) => HostsLeaveNothing(r)
  PROVE  Followed(r, s, d)
BY DEF Followed, SavesCarryPending, PendingStays

LEMMA FollowedJoined ==
  ASSUME NEW p, NEW s, IsList(s), NEW d, Followed(p, s, d), NEW q, q.status = "sent",
         q.op = "save" => q.body = p.pending
  PROVE  Followed(p, s \o <<q>>, d)
<1> DEFINE t == s \o <<q>>
<1>1. /\ DOMAIN s = 1..Len(s) /\ Len(s) \in Nat /\ DOMAIN t = 1..(Len(s) + 1)
      /\ \A j \in 1..Len(s) : t[j] = s[j]
      /\ t[Len(s) + 1] = q
  BY ListPositions, ListJoined
<1> HIDE DEF t
<1>2. \A j \in DOMAIN t : t[j] = q \/ (j \in DOMAIN s /\ t[j] = s[j])
  BY <1>1
<1>3. \A j \in DOMAIN s : j \in DOMAIN t /\ t[j] = s[j]
  BY <1>1
<1>4. SavesCarryPending(p, t)
  BY <1>2 DEF Followed, SavesCarryPending
<1>5. \A inv : Deleted(s, inv) => Deleted(t, inv)
  BY <1>3 DEF Deleted
<1>6. SavedIsOnDisk(t, d)
  BY <1>2, <1>5 DEF Followed, SavedIsOnDisk
<1>7. QED
  BY <1>4, <1>6 DEF Followed, t

LEMMA ActAsks ==
  ASSUME NEW name, NEW r, NEW requests, Does(name, r, requests)
  PROVE  \/ requests = <<>>
         \/ \E q : requests = <<q>> /\ q.status = "sent" /\ (q.op = "save" => q.body = r.pending)
<1>1. \A op \in Loads : \A inv, path, then :
        LET q == Load(op, inv, path, then) IN q.status = "sent" /\ q.op # "save"
  BY LoadSent DEF Loads
<1>2. CASE \/ ToFiles(name, r, requests) \/ TypesValue(name, r, requests) \/ TypesHosts(name, r, requests)
           \/ TogglesView(name, r, requests) \/ Operates(name, r, requests)
  BY <1>2 DEF ToFiles, TypesValue, TypesHosts, TogglesView, Operates
<1>3. CASE ToOps(name, r, requests)
  BY <1>1, <1>3 DEF ToOps, LoadOps, Loads
<1>4. CASE OpensFile(name, r, requests) \/ OpensHosts(name, r, requests) \/ PicksInventory(name, r, requests)
  <2>1. PICK op, inv, path : op \in Loads /\ requests = <<Load(op, inv, path, None)>>
    BY <1>4 DEF OpensFile, OpensHosts, PicksInventory, Loads
  <2>2. QED
    BY <1>1, <2>1
<1>5. CASE AsksForInventory(name, r, requests)
  <2>1. PICK then : requests = <<Request(name, page.inventory, None, NoEdits, then)>>
    BY <1>5 DEF AsksForInventory
  <2>2. name # "save"
    BY <1>5 DEF AsksForInventory
  <2>3. QED
    BY <2>1, <2>2 DEF Request
<1>6. CASE SavesView(name, r, requests)
  <2>1. PICK q : requests = <<q>> /\ SaveOf(q)
    BY <1>6 DEF SavesView
  <2>2. q.status = "sent" /\ (q.op = "save" => q.body = page.pending) /\ r = page
    BY <1>6, <2>1 DEF SavesView, SaveOf, SaveForm, SaveRaw, SaveHostsForm, SaveHostsRaw, Request
  <2>3. QED
    BY <2>1, <2>2
<1>7. QED
  BY <1>2, <1>3, <1>4, <1>5, <1>6 DEF Does

LEMMA ActKeepsFollowed ==
  ASSUME Shape, AgreeInv, FollowedInv, AsExpected', NEW name, NEW r, NEW requests,
         Act(name, r, requests), Does(name, r, requests)
  PROVE  Followed(page', inFlight', disk')
<1> DEFINE p == page
           s == inFlight
<1>1. /\ page' = r /\ inFlight' = s \o requests /\ disk' = disk
      /\ AsExpected /\ Followed(p, s, disk) /\ Agree(p, s, person.kept)
      /\ name = "type" => s = <<>>
  BY Acted DEF Act, FollowedInv, AgreeInv
<1>2. IsPage(p) /\ IsList(s) /\ s \o <<>> = s
  BY ListPositions DEF Shape
<1>3. Followed(r, s, disk)
  <2>1. CASE TypesValue(name, r, requests)
    <3>1. s = <<>> /\ p.view = "file"
      BY <1>1, <2>1 DEF TypesValue
    <3>2. DrawnIsMine(p, person.kept)
      BY <1>1, <3>1, NothingAwaited
    <3>3. p.currentPath \in Files
      BY <3>1, <3>2 DEF DrawnIsMine
    <3>4. SameSelection(p, r)
      BY <1>2, <2>1, Typed DEF TypesValue
    <3>5. HostsLeaveNothing(r)
      BY <3>3, <3>4, EditorAssumption DEF HostsLeaveNothing, SameSelection
    <3>6. QED
      BY <3>1, <3>5 DEF Followed, SavesCarryPending, SavedIsOnDisk
  <2>2. CASE ~TypesValue(name, r, requests)
    BY <1>1, <1>2, <2>2, ActPending, FollowedPage DEF Followed
  <2>3. QED
    BY <2>1, <2>2
<1>4. CASE requests = <<>>
  BY <1>1, <1>2, <1>3, <1>4
<1>5. ASSUME NEW q, requests = <<q>>, q.status = "sent", q.op = "save" => q.body = r.pending
      PROVE  Followed(page', inFlight', disk')
  BY <1>1, <1>2, <1>3, <1>5, FollowedJoined
<1>6. QED
  BY <1>4, <1>5, ActAsks

LEMMA SavedText ==
  ASSUME NEW d, DiskOK(d), NEW q, q.op = "save", EditsOK(q.body), Accepts(d, q)
  PROVE  Wrote(Effect(d, q), q)
<1> DEFINE text == [k \in Keys |-> IF k \in DOMAIN q.body THEN q.body[k].val
                                 ELSE d.texts[q.inv][q.path][k]]
           texts == [d.texts EXCEPT ![q.inv] = [d.texts[q.inv] EXCEPT ![q.path] = text]]
           e == Effect(d, q)
<1>1. q.inv \in d.exists /\ q.inv \in Invs /\ q.path \in Files
  BY DEF Accepts, ResolveFile, DiskOK
<1>2. e = [d EXCEPT !.texts = texts]
  BY <1>1 DEF Effect, UpdateFile, DiskOK
<1>3. texts[q.inv][q.path] = text
  BY <1>1 DEF DiskOK
<1>4. \A k \in DOMAIN q.body : text[k] = q.body[k].val
  BY DEF EditsOK
<1> HIDE DEF text, texts, e
<1>5. e.exists = d.exists /\ e.texts = texts
  BY <1>2 DEF DiskOK
<1>6. QED
  BY <1>1, <1>3, <1>4, <1>5 DEF Wrote, e

\* What another request does to the text that a save has written.
LEMMA WroteStill ==
  ASSUME NEW d, DiskOK(d), NEW q, NEW w, Accepts(d, q), q.op # "save", Wrote(d, w)
  PROVE  Wrote(Effect(d, q), w) \/ (q.op = "delete" /\ q.inv = w.inv)
<1> DEFINE e == Effect(d, q)
<1>1. w.inv \in d.exists /\ w.inv \in Invs
  BY DEF Wrote, DiskOK
<1>2. CASE q.op = "saveHosts"
  <2>1. e.exists = d.exists /\ e.texts = d.texts
    BY <1>2 DEF Effect, PutHosts, DiskOK
  <2>2. QED
    BY <2>1 DEF Wrote
<1>3. CASE q.op = "create"
  <2>1. w.inv # q.then /\ w.inv \in e.exists
    BY <1>1, <1>3 DEF Accepts, Effect, CloneInventory
  <2>2. e.texts = [d.texts EXCEPT ![q.then] = d.texts[q.inv]]
    BY <1>3 DEF Effect, CloneInventory
  <2> HIDE DEF e
  <2>3. e.texts[w.inv] = d.texts[w.inv]
    BY <1>1, <2>1, <2>2 DEF DiskOK
  <2>4. QED
    BY <2>1, <2>3 DEF Wrote, e
<1>4. CASE q.op = "delete"
  <2>1. e = [d EXCEPT !.exists = d.exists \ {q.inv}]
    BY <1>4 DEF Effect, RemoveInventory, DiskOK
  <2> HIDE DEF e
  <2>2. e.exists = d.exists \ {q.inv} /\ e.texts = d.texts
    BY <2>1 DEF DiskOK
  <2>3. QED
    BY <1>1, <1>4, <2>2 DEF Wrote, e
<1>5. CASE q.op \notin {"save", "saveHosts", "create", "delete"}
  BY <1>5 DEF Effect
<1>6. QED
  BY <1>2, <1>3, <1>4, <1>5

LEMMA ServedFollowed ==
  ASSUME NEW p, NEW s, IsList(s), NEW d, DiskOK(d), NEW kept, Underway(p, s, kept), Followed(p, s, d),
         NEW k \in DOMAIN s, RequestOK(s[k]), s[k].status = "sent",
         NEW e, e = IF Accepts(d, s[k]) THEN Effect(d, s[k]) ELSE d
  PROVE  Followed(p, [s EXCEPT ![k] = Outcome(d, e, s[k])], e)
<1> DEFINE q == s[k]
           r == Outcome(d, e, q)
           t == [s EXCEPT ![k] = r]
           ok == Accepts(d, q)
<1>1. /\ r.op = q.op /\ r.inv = q.inv /\ r.path = q.path /\ r.body = q.body
      /\ r.status = (IF ok THEN "answered" ELSE "refused")
  BY OutcomeOf DEF RequestOK
<1>2. DOMAIN t = DOMAIN s /\ \A j \in DOMAIN s : t[j] = IF j = k THEN r ELSE s[j]
  BY ListReplaced
<1>3. q.status = "sent" /\ (q.op = "save" => EditsOK(q.body)) /\ e = IF ok THEN Effect(d, q) ELSE d
  BY DEF RequestOK
<1>4. \A i \in DOMAIN s : i # k => s[i].op # "save" \/ q.op # "save"
  BY DEF Underway, Saves
<1> HIDE DEF q, r, t
<1>5. SavesCarryPending(p, t)
  BY <1>1, <1>2 DEF SavesCarryPending, Followed, q
<1>6. \A inv : Deleted(s, inv) => Deleted(t, inv)
  BY <1>2, <1>3 DEF Deleted, q
<1>7. SavedIsOnDisk(t, e)
  <2> SUFFICES ASSUME NEW i \in DOMAIN s, t[i].op = "save", t[i].status = "answered"
               PROVE  Deleted(t, t[i].inv) \/ Wrote(e, t[i])
    BY <1>2 DEF SavedIsOnDisk
  <2>1. CASE i = k
    <3>1. t[i] = r /\ ok /\ q.op = "save"
      BY <1>1, <1>2, <2>1
    <3>2. Wrote(e, q)
      BY <1>3, <3>1, SavedText
    <3>3. QED
      BY <1>1, <3>1, <3>2 DEF Wrote
  <2>2. CASE i # k
    <3>1. t[i] = s[i] /\ q.op # "save"
      BY <1>2, <1>4, <2>2
    <3>2. Deleted(s, s[i].inv) \/ Wrote(d, s[i])
      BY <3>1 DEF SavedIsOnDisk, Followed
    <3>3. CASE ok /\ q.op = "delete" /\ q.inv = s[i].inv
      <4>1. t[k] = r /\ r.op = "delete" /\ r.status = "answered" /\ r.inv = s[i].inv
        BY <1>1, <1>2, <3>3
      <4>2. QED
        BY <1>2, <3>1, <4>1 DEF Deleted
    <3>4. CASE ~(ok /\ q.op = "delete" /\ q.inv = s[i].inv)
      <4>1. Wrote(d, s[i]) => Wrote(e, s[i])
        BY <1>3, <3>1, <3>4, WroteStill
      <4>2. QED
        BY <1>6, <3>1, <3>2, <4>1
    <3>5. QED
      BY <3>3, <3>4
  <2>3. QED
    BY <2>1, <2>2
<1>8. QED
  BY <1>5, <1>7 DEF Followed, t, r, q

\* The pending edits leave by the answer to a save; the path by another inventory.
LEMMA HeardPending ==
  ASSUME NEW p, IsPage(p), NEW q, IsRequest(q), q.status = "answered"
  PROVE  LET r == Heard(p, q).page IN
         /\ r.pending = p.pending \/ (q.op = "save" /\ r.pending = NoEdits)
         /\ r.currentPath = p.currentPath \/ r.currentPath = None
<1> DEFINE Kept(r) == /\ r.pending = p.pending
                      /\ r.currentPath = p.currentPath \/ r.currentPath = None
<1>1. p = [x \in PageFields |-> p[x]]
  BY DEF IsPage
<1>2. ASSUME NEW c, IsPage(c), Kept(c), NEW inv, NEW then PROVE Kept(ChooseInventory(c, inv, then).page)
  BY <1>2 DEF ChooseInventory, Await, SelectInventory, IsPage, PageFields
<1>3. ASSUME NEW c, IsPage(c), Kept(c), NEW then PROVE Kept(InventoryShown(c, then).page)
  BY <1>2, <1>3 DEF InventoryShown, Page
<1>4. CASE q.op = "list"
  <2> DEFINE c == [p EXCEPT !.options = q.answer]
  <2>1. Heard(p, q) = ChooseInventory(c, Preferred(q.answer), q.then)
    BY <1>4 DEF Heard, AfterList
  <2>2. IsPage(c) /\ Kept(c)
    BY <1>1 DEF IsPage, PageFields
  <2> HIDE DEF c
  <2>3. QED
    BY <1>2, <2>1, <2>2
<1>5. CASE q.op = "files" /\ p.topTab = "ops"
  BY <1>5 DEF Heard, AfterFiles, Await
<1>6. CASE q.op = "files" /\ p.topTab # "ops"
  <2> DEFINE c == DrawEmptyState(p)
  <2>1. Heard(p, q) = InventoryShown(c, q.then)
    BY <1>6 DEF Heard, AfterFiles
  <2>2. IsPage(c) /\ Kept(c)
    BY Drawings DEF OnlyDrawn, SameSelection
  <2> HIDE DEF c
  <2>3. QED
    BY <1>3, <2>1, <2>2
<1>7. CASE q.op = "ops"
  <2> DEFINE o == [p EXCEPT !.opsArg = q.answer]
             c == RenderOps(o)
  <2>1. Heard(p, q) = InventoryShown(c, q.then)
    BY <1>7 DEF Heard, AfterOps
  <2>2. IsPage(o) /\ Kept(o)
    BY <1>1 DEF IsPage, PageFields
  <2> HIDE DEF o
  <2>3. IsPage(c) /\ Kept(c)
    BY <2>2, Drawings DEF OnlyDrawn, SameSelection
  <2> HIDE DEF c
  <2>4. QED
    BY <1>3, <2>1, <2>3
<1>8. CASE q.op \in {"create", "delete"}
  BY <1>8 DEF Heard, Await
<1>9. CASE q.op \in OwnTab
  <2> DEFINE f == [p EXCEPT !.entries = q.answer]
             s == [p EXCEPT !.entries = q.answer, !.pending = NoEdits]
             h == [p EXCEPT !.hosts = q.answer, !.hostsRaw = q.answer]
             g == [p EXCEPT !.hostsDirty = FALSE, !.hosts = q.answer, !.hostsRaw = q.answer]
  <2>1. /\ q.op = "file" => Heard(p, q).page = RenderFile(f)
        /\ q.op = "save" => Heard(p, q).page = RenderFile(s)
        /\ q.op = "hosts" => Heard(p, q).page = RenderHosts(h)
        /\ q.op = "saveHosts" => Heard(p, q).page = RenderHosts(g)
    BY DEF Heard, Page, AfterFile, AfterSave, AfterHosts, AfterSaveHosts
  <2>2. /\ f.pending = p.pending /\ f.currentPath = p.currentPath
        /\ s.pending = NoEdits /\ s.currentPath = p.currentPath
        /\ h.pending = p.pending /\ h.currentPath = p.currentPath
        /\ g.pending = p.pending /\ g.currentPath = p.currentPath
        /\ \A x \in PageFields : x \in DOMAIN f /\ x \in DOMAIN s /\ x \in DOMAIN h /\ x \in DOMAIN g
    BY <1>1 DEF PageFields
  <2>3. IsPage(f) /\ IsPage(s)
    BY NoBody DEF IsPage, PageFields
  <2>4. q.op \in {"hosts", "saveHosts"} => IsPage(h) /\ IsPage(g)
    <3>1. \A inv, val : IsEdit(Read(inv, HOSTS_VIEW, val))
      BY DEF IsEdit, Read
    <3>2. q.op \in {"hosts", "saveHosts"} => q.answer = Read(q.inv, HOSTS_VIEW, q.answer.val)
      BY DEF IsRequest
    <3>3. q.op \in {"hosts", "saveHosts"} => IsEdit(q.answer)
      BY <3>1, <3>2
    <3>4. QED
      BY <3>3 DEF IsPage, PageFields
  <2> HIDE DEF f, s, h, g
  <2>5. QED
    BY <1>9, <2>1, <2>2, <2>3, <2>4, Drawings DEF OnlyDrawn, SameSelection, OwnTab
<1>10. QED
  BY <1>4, <1>5, <1>6, <1>7, <1>8, <1>9, HeardKinds DEF OfInventory

LEMMA NoSaveFollowed ==
  ASSUME NEW r, NEW s, NEW d, HostsLeaveNothing(r), \A j \in DOMAIN s : s[j].op # "save"
  PROVE  Followed(r, s, d)
BY DEF Followed, SavesCarryPending, SavedIsOnDisk

LEMMA HeardFollowed ==
  ASSUME NEW p, IsPage(p), NEW s, IsList(s), \A j \in DOMAIN s : IsRequest(s[j]),
         NEW d, NEW kept, Underway(p, s, kept), HostsLeaveNothing(p),
         NEW i \in DOMAIN s, i = 1, s[i].status = "answered"
  PROVE  Followed(Heard(p, s[i]).page, RemoveAt(s, i) \o Heard(p, s[i]).next, d)
<1> DEFINE q == s[i]
           t == RemoveAt(s, i)
           r == Heard(p, q).page
           next == Heard(p, q).next
<1>1. IsRequest(q) /\ q.status = "answered" /\ IsList(t) /\ t \o <<>> = t
  BY ListLeft, ListPositions
<1>2. \A j \in DOMAIN t : t[j].op # "save"
  <2>1. /\ DOMAIN s = 1..Len(s) /\ Len(s) \in Nat /\ DOMAIN t = 1..(Len(s) - 1)
        /\ \A m \in 1..(Len(s) - 1) : t[m] = IF m < i THEN s[m] ELSE s[m + 1]
    BY ListPositions, ListLeft
  <2> HIDE DEF t
  <2>2. \A j \in DOMAIN t : j + 1 \in DOMAIN s /\ j + 1 # 1 /\ t[j] = s[j + 1]
    BY <2>1
  <2>3. QED
    BY <2>2 DEF Underway, Saves
<1>3. /\ r.pending = p.pending \/ r.pending = NoEdits
      /\ r.currentPath = p.currentPath \/ r.currentPath = None
  BY <1>1, HeardPending
<1>4. HostsLeaveNothing(r)
  BY <1>3, NoBody, EditorAssumption DEF HostsLeaveNothing
<1>5. next = <<>> \/ \E n : next = <<n>> /\ n.op # "save"
  <2>1. CASE q.op \in OwnTab
    BY <1>1, <2>1, HeardOwnTab DEF OwnTab
  <2>2. CASE q.op \in OfInventory
    BY <2>2, Continues DEF OfTheList, ShowsTheTab, ChoosesInventory
  <2>3. QED
    BY <1>1, <2>1, <2>2, HeardKinds
<1> HIDE DEF q, t, r, next
<1>6. CASE next = <<>>
  BY <1>1, <1>2, <1>4, <1>6, NoSaveFollowed DEF q, t, r, next
<1>7. ASSUME NEW n, next = <<n>>, n.op # "save" PROVE Followed(r, t \o next, d)
  <2> DEFINE u == t \o <<n>>
  <2>1. \A j \in DOMAIN u : u[j] = n \/ (j \in DOMAIN t /\ u[j] = t[j])
    BY <1>1, ElementsJoined
  <2> HIDE DEF u
  <2>2. \A j \in DOMAIN u : u[j].op # "save"
    BY <1>2, <1>7, <2>1
  <2>3. Followed(r, u, d)
    BY <1>4, <2>2, NoSaveFollowed
  <2>4. QED
    BY <1>7, <2>3 DEF u
<1>8. QED
  BY <1>5, <1>6, <1>7 DEF q, t, r, next

LEMMA FailedFollowed ==
  ASSUME NEW p, NEW s, IsList(s), NEW d, NEW i \in DOMAIN s, Followed(p, s, d), s[i].status # "answered"
  PROVE  Followed(p, RemoveAt(s, i), d)
<1> DEFINE t == RemoveAt(s, i)
<1>1. /\ DOMAIN s = 1..Len(s) /\ Len(s) \in Nat /\ DOMAIN t = 1..(Len(s) - 1)
      /\ \A m \in 1..(Len(s) - 1) : t[m] = IF m < i THEN s[m] ELSE s[m + 1]
  BY ListPositions, ListLeft
<1>2. \A j \in DOMAIN t : \E m \in DOMAIN s : t[j] = s[m]
  BY ElementsLeft
<1> HIDE DEF t
<1>3. \A m \in DOMAIN s : m # i => \E j \in DOMAIN t : t[j] = s[m]
  <2> SUFFICES ASSUME NEW m \in DOMAIN s, m # i PROVE \E j \in DOMAIN t : t[j] = s[m]
    OBVIOUS
  <2>1. CASE m < i
    <3>1. m \in DOMAIN t /\ t[m] = s[m]
      BY <1>1, <2>1
    <3>2. QED
      BY <3>1
  <2>2. CASE m > i
    <3>1. m - 1 \in DOMAIN t /\ t[m - 1] = s[m]
      BY <1>1, <2>2
    <3>2. QED
      BY <3>1
  <2>3. QED
    BY <1>1, <2>1, <2>2
<1>4. \A inv : Deleted(s, inv) => Deleted(t, inv)
  <2> SUFFICES ASSUME NEW inv, Deleted(s, inv) PROVE Deleted(t, inv)
    OBVIOUS
  <2>1. PICK m \in DOMAIN s : s[m].op = "delete" /\ s[m].status = "answered" /\ s[m].inv = inv
    BY DEF Deleted
  <2>2. PICK j \in DOMAIN t : t[j] = s[m]
    BY <1>3, <2>1
  <2>3. QED
    BY <2>1, <2>2 DEF Deleted
<1>5. SavedIsOnDisk(t, d)
  BY <1>2, <1>4 DEF SavedIsOnDisk, Followed
<1>6. SavesCarryPending(p, t)
  BY <1>2 DEF SavesCarryPending, Followed
<1>7. QED
  BY <1>5, <1>6 DEF Followed, t

LEMMA InitFollowed == Init => FollowedInv
<1> SUFFICES ASSUME Init PROVE Followed(page, inFlight, disk)
  BY DEF FollowedInv
<1>1. page.currentPath = None /\ inFlight = <<>> /\ DOMAIN inFlight = {}
  BY DEF Init
<1>2. QED
  BY <1>1, NoSaveFollowed, EditorAssumption DEF HostsLeaveNothing

LEMMA NextKeepsFollowed == TypesHold /\ AgreeInv /\ FollowedInv /\ [Next]_vars => FollowedInv'
<1> SUFFICES ASSUME TypesHold, AgreeInv, FollowedInv, [Next]_vars, AsExpected'
             PROVE  Followed(page', inFlight', disk')
  BY DEF FollowedInv
<1>0. /\ Shape /\ DiskOK(disk) /\ IsPage(page) /\ IsList(inFlight)
      /\ \A i \in DOMAIN inFlight : IsRequest(inFlight[i]) /\ RequestOK(inFlight[i])
  BY DEF TypesHold, Shape
<1>1. CASE PersonActs
  <2>1. PICK name, r, requests : Act(name, r, requests) /\ Does(name, r, requests)
    BY <1>0, <1>1, PersonDoes
  <2>2. QED
    BY <1>0, <2>1, ActKeepsFollowed
<1>2. ASSUME NEW i \in DOMAIN inFlight, Serve(i) PROVE Followed(page', inFlight', disk')
  <2>1. /\ inFlight[i].status = "sent"
        /\ disk' = IF Accepts(disk, inFlight[i]) THEN Effect(disk, inFlight[i]) ELSE disk
        /\ inFlight' = [inFlight EXCEPT ![i] = Outcome(disk, disk', inFlight[i])]
    BY <1>0, <1>2, ServedFirst
  <2>2. page' = page /\ AsExpected
    BY <1>0, <1>2, Served
  <2>3. Underway(page, inFlight, person.kept) /\ Followed(page, inFlight, disk)
    BY <2>2 DEF AgreeInv, Agree, FollowedInv
  <2> DEFINE e == disk'
  <2>4. e = IF Accepts(disk, inFlight[i]) THEN Effect(disk, inFlight[i]) ELSE disk
    BY <2>1
  <2>5. inFlight' = [inFlight EXCEPT ![i] = Outcome(disk, e, inFlight[i])]
    BY <2>1
  <2> HIDE DEF e
  <2>6. Followed(page, [inFlight EXCEPT ![i] = Outcome(disk, e, inFlight[i])], e)
    BY <1>0, <2>1, <2>3, <2>4, ServedFollowed
  <2>7. QED
    BY <2>2, <2>5, <2>6 DEF e
<1>3. ASSUME NEW i \in DOMAIN inFlight, Hear(i) PROVE Followed(page', inFlight', disk')
  <2>1. /\ AsExpected /\ i = 1 /\ inFlight[i].status = "answered"
        /\ page' = Heard(page, inFlight[i]).page
        /\ inFlight' = RemoveAt(inFlight, i) \o Heard(page, inFlight[i]).next
    BY <1>0, <1>3, HeardBy
  <2>2. Underway(page, inFlight, person.kept) /\ HostsLeaveNothing(page) /\ disk' = disk
    BY <1>3, <2>1 DEF AgreeInv, Agree, FollowedInv, Followed, Hear
  <2>3. Followed(Heard(page, inFlight[i]).page,
                 RemoveAt(inFlight, i) \o Heard(page, inFlight[i]).next, disk)
    BY <1>0, <2>1, <2>2, HeardFollowed
  <2>4. QED
    BY <2>1, <2>2, <2>3
<1>4. ASSUME NEW i \in DOMAIN inFlight, Fail(i) PROVE Followed(page', inFlight', disk')
  <2>1. /\ AsExpected /\ inFlight[i].status # "answered"
        /\ page' = page /\ inFlight' = RemoveAt(inFlight, i) /\ disk' = disk
    BY <1>0, <1>4, Failed, FailedUnanswered DEF Fail
  <2>2. Followed(page, inFlight, disk)
    BY <2>1 DEF FollowedInv
  <2>3. QED
    BY <1>0, <2>1, <2>2, FailedFollowed
<1>5. CASE UNCHANGED vars
  BY <1>5 DEF vars, FollowedInv, AsExpected
<1>6. QED
  BY <1>1, <1>2, <1>3, <1>4, <1>5 DEF Next

LEMMA FollowedAlways == Spec => [](TypesHold /\ AgreeInv /\ FollowedInv)
<1>1. Init => TypesHold /\ AgreeInv /\ FollowedInv
  BY InitTypes, InitAgrees, InitFollowed
<1>2. TypesHold /\ AgreeInv /\ FollowedInv /\ [Next]_vars => (TypesHold /\ AgreeInv /\ FollowedInv)'
  BY NextKeepsTypes, NextKeepsAgree, NextKeepsFollowed DEF TypesHold
<1>3. QED
  BY <1>1, <1>2, PTL DEF Spec

\* The person was asked and agreed.
LEMMA Agreed ==
  ASSUME Shape, NEW name \in {"file", "search"}, NEW r, NEW requests, Act(name, r, requests)
  PROVE  HasUnsavedChanges(page) => person'.agreed
<1> DEFINE agreed == /\ name \in {"tab", "file", "search", "hosts"}
                     /\ HasUnsavedChanges(page) /\ (name = "tab" => page.topTab = "files")
           kept == person.kept \/ (name = "tab" /\ page.topTab = "files" /\ HasUnsavedChanges(page))
           rushed == person.rushed \/ (inFlight # <<>> /\ name \in {"type", "typeHosts", "save"})
           strayed == person.strayed \/ (inFlight # <<>> /\ name = "tab")
                      \/ (page.topTab # "files" /\ name = "search")
           acts == person.acts + 1
<1>1. person' = [person EXCEPT !.acts = acts, !.kept = kept, !.agreed = agreed,
                               !.rushed = rushed, !.strayed = strayed]
  BY DEF Act, Shape, IsPerson
<1>2. HasUnsavedChanges(page) => agreed
  OBVIOUS
<1> HIDE DEF agreed, kept, rushed, strayed, acts
<1>3. person = [f \in PersonFields |-> person[f]]
  BY DEF Shape, IsPerson
<1>4. person'.agreed = agreed
  BY <1>1, <1>3 DEF PersonFields
<1>5. QED
  BY <1>2, <1>4

\* The save that is heard has put the edit on the disk.
LEMMA SavedLeaves ==
  ASSUME Underway(page, inFlight, person.kept), Followed(page, inFlight, disk),
         NEW i \in DOMAIN inFlight, inFlight[i].op = "save", inFlight[i].status = "answered",
         NEW k \in DOMAIN page.pending, ~page.pending[k].gone
  PROVE  LET e == page.pending[k] IN
         disk.texts[e.inv][e.path][k] = e.val \/ DeletionAwaited(e.inv)
<1> DEFINE q == inFlight[i]
           e == page.pending[k]
<1>1. k \in DOMAIN q.body /\ q.body[k] = e
  BY DEF Followed, SavesCarryPending
<1>2. e.inv = q.inv /\ e.path = q.path
  BY <1>1 DEF Underway, Mine
<1>3. Deleted(inFlight, q.inv) \/ Wrote(disk, q)
  BY DEF Followed, SavedIsOnDisk
<1>4. CASE Deleted(inFlight, q.inv)
  BY <1>2, <1>4 DEF Deleted, DeletionAwaited
<1>5. CASE Wrote(disk, q)
  BY <1>1, <1>2, <1>5 DEF Wrote
<1>6. QED
  BY <1>3, <1>4, <1>5

LEMMA EditsStep ==
  ASSUME TypesHold, AgreeInv, FollowedInv, [Next]_vars, AsExpected,
         NEW k \in DOMAIN page.pending, k \notin DOMAIN page'.pending
  PROVE  LET e == page.pending[k] IN
         \/ e.gone \/ person'.agreed
         \/ disk.texts[e.inv][e.path][k] = e.val
         \/ DeletionAwaited(e.inv)
<1>0. /\ Shape /\ IsPage(page) /\ \A i \in DOMAIN inFlight : IsRequest(inFlight[i])
      /\ Underway(page, inFlight, person.kept) /\ Followed(page, inFlight, disk)
  BY DEF TypesHold, Shape, AgreeInv, Agree, FollowedInv
<1>1. CASE PersonActs
  <2>1. PICK name, r, requests : Act(name, r, requests) /\ Does(name, r, requests)
    BY <1>0, <1>1, PersonDoes
  <2>2. page' = r
    BY <2>1 DEF Act
  <2>3. name \in {"file", "search"}
    BY <1>0, <2>1, <2>2, ActPending
  <2>4. HasUnsavedChanges(page) => person'.agreed
    BY <1>0, <2>1, <2>3, Agreed
  <2>5. ~HasUnsavedChanges(page) => page.currentPath = HOSTS_VIEW
    BY NoBody DEF HasUnsavedChanges
  <2>6. page.currentPath = HOSTS_VIEW => page.pending[k].gone
    BY <1>0 DEF Followed, HostsLeaveNothing
  <2>7. QED
    BY <2>4, <2>5, <2>6
<1>2. ASSUME NEW i \in DOMAIN inFlight, Hear(i)
      PROVE  page.pending[k].gone \/ (inFlight[i].op = "save" /\ inFlight[i].status = "answered")
  <2>1. inFlight[i].status = "answered" /\ page' = Heard(page, inFlight[i]).page
    BY <1>0, <1>2, HeardBy
  <2>2. IsRequest(inFlight[i])
    BY <1>0
  <2>3. page'.pending = page.pending \/ inFlight[i].op = "save"
    BY <1>0, <2>1, <2>2, HeardPending
  <2>4. QED
    BY <2>1, <2>3
<1>3. ASSUME NEW i \in DOMAIN inFlight, Serve(i) \/ Fail(i) PROVE FALSE
  BY <1>3 DEF Serve, Fail
<1>4. CASE UNCHANGED vars
  BY <1>4 DEF vars
<1>5. QED
  BY <1>0, <1>1, <1>2, <1>3, <1>4, SavedLeaves DEF Next

\* An edit of a form leaves `pending` only when it is on disk, when the person was
\* asked and agreed, or with the inventory it was for: hasUnsavedChanges looks at
\* one of two kinds of edits, and selectFile and saveForm throw `pending` away.
THEOREM EditsLeave == Spec => EditsLeaveSavedOrDiscarded
<1>1. /\ TypesHold /\ AgreeInv /\ FollowedInv /\ [Next]_vars
      => [AsExpected =>
            \A k \in DOMAIN page.pending \ DOMAIN page'.pending :
              LET e == page.pending[k] IN
              \/ e.gone \/ person'.agreed
              \/ disk.texts[e.inv][e.path][k] = e.val
              \/ DeletionAwaited(e.inv)]_vars
  BY EditsStep
<1>2. QED
  BY <1>1, FollowedAlways, PTL DEF Spec, EditsLeaveSavedOrDiscarded

===============================================================================
