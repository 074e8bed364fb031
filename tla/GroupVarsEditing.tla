-------------------------- MODULE GroupVarsEditing ---------------------------
(***************************************************************************)
(* One group_vars file edited by one person at a time: the form's saves    *)
(* (update_file of backend/main.py) and "Point kubespray at these repos"   *)
(* (configure_offline_yml), each taken as one step.  The updates a form    *)
(* sends are those its rows allow: a row is an entry, its input starts     *)
(* with the entry's value, and a change sends both the switch and the      *)
(* input of the row (onFieldChange of static/app.js).  The input of a row  *)
(* of several lines is a free textarea over the whole block, its key line  *)
(* included: what is typed there may be any text.                          *)
(***************************************************************************)
EXTENDS GroupVars, FiniteSets

CONSTANTS
  Templates,   \* the files an editing session may begin with
  Typed,       \* the texts that may be typed into a one-line input
  Blocks,      \* the texts that may be typed into a textarea, any lines
  Repos,       \* the keys "Point kubespray at these repos" sets, in order
  RepoValue,   \* the value it gives each, as the sequence of its lines
  Urls,        \* the *_download_url keys it only switches on
  FilesRepo,   \* a text that mentions files_repo
  Header,      \* the comment line above what it appends
  MaxKeys,     \* bound: how many keys one save updates
  MaxLines     \* bound: longer files are not explored

\* A block of one entry: the lines below its key line are indented and live.
IsBlockOf(k, value) ==
  /\ value \in Seq(Line) /\ Len(value) > 1
  /\ IsActive(value[1]) /\ value[1].key = k
  /\ \A i \in 2..Len(value) : GoesOn(value[i], 0)

\* A text for one line, or a block.
IsInput(k, value) ==
  (\E text \in Texts \ {Empty} : value = <<Words(text)>>) \/ IsBlockOf(k, value)

ASSUME EditingAssumption ==
  /\ Templates \subseteq Seq(Line)
  /\ Typed \cup {FilesRepo} \subseteq Texts
  /\ Blocks \subseteq Seq(Line)
  /\ Repos \in Seq(Keys) /\ Urls \subseteq Keys
  /\ Urls \cap {Repos[i] : i \in DOMAIN Repos} = {}
  /\ DOMAIN RepoValue = {Repos[i] : i \in DOMAIN Repos}
  /\ \A k \in DOMAIN RepoValue : IsInput(k, RepoValue[k])
  /\ MaxKeys \in Nat /\ MaxLines \in Nat
  /\ Header \in Line /\ Header.hash = 1 /\ Header.key = None /\ ~Header.indent

VARIABLE doc   \* the lines of the file

TypeOK == doc \in Seq(Line)

Init == doc \in {lines \in Templates : Loads(lines)}

-----------------------------------------------------------------------------
(* What a form can send.                                                   *)

\* A block is edited as a whole, its first line included.
BlockInputs(e) == {e.value} \cup Blocks

LineInputs(e) == {e.value} \cup {IF text = Empty THEN <<>> ELSE <<Words(text)>> : text \in Typed}

RowUpdates(e) ==
  [enabled : BOOLEAN, keep : {FALSE}, value : IF e.multiline THEN BlockInputs(e) ELSE LineInputs(e)]

\* Some of the keys shown are updated, each as one of its rows says: of two rows
\* of one key the last touched one counts.
FormUpdates(lines) ==
  LET Of(k) == UNION {RowUpdates(e) : e \in {x \in Entries(lines) : x.key = k}}
      shown == {e.key : e \in Entries(lines)}
      Forms(ks) == {u \in [ks -> UNION {Of(k) : k \in ks}] : \A k \in ks : u[k] \in Of(k)}
  IN  UNION {Forms(ks) : ks \in {ks \in SUBSET shown : Cardinality(ks) \in 1..MaxKeys}}

-----------------------------------------------------------------------------
\* update_file: 400 and nothing written if the result does not load.
Save(updates) ==
  LET new == Rejoin(ApplyUpdates(doc, updates)) IN
  doc' = IF Loads(new) THEN new ELSE doc

\* offline_yml_updates: the repositories, and every download URL that has its
\* templated value.
RepoUpdates(lines) ==
  LET templated == {e \in Entries(lines) :
                      e.key \in Urls /\ ~e.multiline /\ e.value = <<Words(FilesRepo)>>}
      repos == {Repos[i] : i \in DOMAIN Repos}
      urls  == {e.key : e \in templated}
  IN  [k \in repos \cup urls |->
         IF k \in repos THEN [enabled |-> TRUE, keep |-> FALSE, value |-> RepoValue[k]]
         ELSE [enabled |-> TRUE, keep |-> TRUE, value |-> <<>>]]

Configured(lines) == Rejoin(Upsert(lines, RepoUpdates(lines), Header, Repos))

\* configure_offline_yml: written without looking whether it loads.
Configure == doc' = Configured(doc)

Next ==
  /\ \/ \E updates \in FormUpdates(doc) : Save(updates)
     \/ Configure
  /\ Len(doc') <= MaxLines

Spec == Init /\ [][Next]_doc

-----------------------------------------------------------------------------
(* Properties.                                                             *)

\* What a reader of the file sees of an entry, and of the entries of a key from
\* top to bottom.
Shown(e) == [enabled |-> e.enabled, value |-> e.value]

Seen(lines, k) ==
  LET from[s \in 1..(Len(lines) + 1)] ==
        IF s = Len(lines) + 1 THEN <<>>
        ELSE IF IsEntryLine(lines[s]) /\ lines[s].key = k THEN <<Shown(EntryAt(lines, s))>> \o from[s + 1]
        ELSE from[s + 1]
  IN  from[1]

Table(lines) == [k \in Keys |-> Seen(lines, k)]

\* The comment lines that belong to no entry.
Prose(lines) ==
  LET inEntry == UNION {e.start..e.end : e \in Entries(lines)}
      at == Where(lines, LAMBDA i : lines[i].hash > 0 /\ i \notin inEntry)
  IN  [i \in DOMAIN at |-> lines[at[i]]]

\* An active entry is being commented out and an indented comment follows it:
\* from then on that comment reads as a part of the entry.
Swallows(lines, updates) ==
  \E s \in Targeted(lines, updates) :
    /\ IsActive(lines[s]) /\ ~updates[lines[s].key].enabled
    /\ EndOf(lines, s) < Len(lines)
    /\ GoesOn(lines[EndOf(lines, s) + 1], 1)

\* A row's input fits every entry of its key: all are blocks, or none is.
OneKind(lines, k) ==
  \A e, f \in Entries(lines) : e.key = k /\ f.key = k => e.multiline = f.multiline

\* A live line that no entry claims would be claimed by one that is switched on.
NoStray(lines) ==
  LET stray == {i \in DOMAIN lines : GoesOn(lines[i], 0)} IN
  stray # {} => stray \subseteq UNION {e.start..e.end : e \in Entries(lines)}

\* The text neither names another key at column 0 nor begins with an indented
\* line, which the entry above would draw in.
OfKey(k, value) ==
  value # <<>> =>
    /\ ~value[1].indent
    /\ \A i \in DOMAIN value : value[i].indent \/ value[i].key \in {k, None}

\* The form shows each key once, or twins of one kind, neither a stray line nor a
\* remark gets into an entry, and what is sent for a block is a block.
Clean(lines, updates) ==
  /\ NoStray(lines) /\ ~Swallows(lines, updates)
  /\ \A k \in DOMAIN updates : OneKind(lines, k)
  /\ \A e \in Entries(lines) :
       e.key \in DOMAIN updates /\ e.multiline => IsBlockOf(e.key, updates[e.key].value)

\* Whatever is saved for some keys, as long as no text typed for one of them
\* names another: every entry of every other key keeps its place among its
\* likes, its switch and its value, also when blocks above it grow, shrink or
\* fall apart at a blank line, and when remarks are swallowed.
OtherKeysUntouched ==
  LET old == Table(doc) IN
  \A updates \in FormUpdates(doc) : (\A k \in DOMAIN updates : OfKey(k, updates[k].value)) =>
    LET new == Table(ApplyUpdates(doc, updates)) IN
    \A k \in Keys \ DOMAIN updates : new[k] = old[k]

\* A clean save does what its rows say: each entry of an updated key reads back
\* with the switch and the value that were sent.
UpdatesReadBack ==
  LET old == Table(doc) IN
  \A updates \in FormUpdates(doc) : Clean(doc, updates) =>
    LET new == Table(ApplyUpdates(doc, updates)) IN
    \A k \in DOMAIN updates :
      new[k] = [i \in DOMAIN old[k] |->
                  [enabled |-> updates[k].enabled, value |-> updates[k].value]]

\* A row's switch is touched, and its input sent as it stands.
Switch(e, on) == [k \in {e.key} |-> [enabled |-> on, keep |-> FALSE, value |-> e.value]]

\* Switching off a setting, whatever its value became, and on again with its
\* old value gives back the file, remarks and blanks included, but for the
\* blank lines at the end: two saves are as good as none.
SwitchingBackRestores ==
  \A s \in Starts(doc) :
    LET e == EntryAt(doc, s) IN
    (\A f \in Entries(doc) : f.key = e.key => f = e) /\ Clean(doc, Switch(e, FALSE)) =>
      WithoutTail(ApplyUpdates(ApplyUpdates(doc, Switch(e, ~e.enabled)), Switch(e, e.enabled)))
        = WithoutTail(doc)

\* The repository keys that the file has are entries of the kind of their values.
ReposFit(lines) ==
  \A e \in Entries(lines) : e.key \in DOMAIN RepoValue =>
    (e.multiline <=> Len(RepoValue[e.key]) > 1)

\* Pointing the file at the repositories again changes nothing more, whatever
\* was edited, switched off or missing before, but for blank lines at the end:
\* each time takes two of them.
ConfigureIsIdempotent ==
  ReposFit(doc) /\ NoStray(doc) =>
    WithoutTail(Configured(Configured(doc))) = WithoutTail(Configured(doc))

\* Afterwards every repository key is there, switched on, and no key is lost.
ConfigureEnables ==
  LET new == Configured(doc) IN
  /\ \A i \in DOMAIN Repos : \E e \in Entries(new) : e.key = Repos[i] /\ e.enabled
  /\ {e.key : e \in Entries(doc)} \subseteq {e.key : e \in Entries(new)}

-----------------------------------------------------------------------------
(* What the docstring of parser.py says, and the parser does not do.       *)

\* The file after the entry at s is switched, its input left as the form shows it.
Switched(lines, s, on) == ApplyUpdates(lines, Switch(EntryAt(lines, s), on))

\* parser.py:7-9: only the exact line ranges that changed are rewritten, every
\* comment is left untouched: switching a setting off and on again leaves every
\* remark of the file a remark.
RemarksUntouched ==
  \A s \in Starts(doc) :
    IsActive(doc[s]) /\ (\A t \in Starts(doc) \ {s} : doc[t].key # doc[s].key) =>
      LET switchedBack == Switched(Switched(doc, s, FALSE), s, TRUE) IN
      ToSet(Prose(doc)) \subseteq ToSet(switchedBack)
=============================================================================
