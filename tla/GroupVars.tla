------------------------------ MODULE GroupVars ------------------------------
(***************************************************************************)
(* The line-based parser and serializer of backend/parser.py, as pure      *)
(* operators.  A group_vars file is a sequence of lines, most of them      *)
(* commented-out settings; an entry is a column-0 `key: value` line,       *)
(* active or behind "# ", with the lines that continue it.                 *)
(*                                                                         *)
(* A line is abstracted to what the parser tells apart: how many comment   *)
(* marks it has, whether what follows them is indented, and the key and    *)
(* the text.  Texts are opaque.  Descriptions are left out.  Where YAML     *)
(* counts (Loads), what is indented is taken for good YAML, and lists whose *)
(* items stand at column 0 are left out.                                   *)
(***************************************************************************)
EXTENDS Integers, Sequences, SequencesExt

CONSTANTS
  Keys,      \* variable names
  None,      \* the key of a line that is not a column-0 `key: value`
  Texts,     \* what stands after "key:", or on a line without a key
  Empty,     \* no text
  Garbled    \* a text that is itself a `key:` line

ASSUME GroupVarsAssumption ==
  /\ None \notin Keys
  /\ {Empty, Garbled} \subseteq Texts /\ Empty # Garbled

Line == [hash : Nat, indent : BOOLEAN, key : Keys \cup {None}, text : Texts]

Setting(k, text) == [hash |-> 0, indent |-> FALSE, key |-> k, text |-> text]
Words(text) == Setting(None, text)
Item(text) == [Words(text) EXCEPT !.indent = TRUE]
Blank == Words(Empty)

\* ACTIVE_RE and DISABLED_RE, which look at column-0 lines only.
IsActive(line) == line.hash = 0 /\ ~line.indent /\ line.key # None
IsDisabled(line) == line.hash = 1 /\ ~line.indent /\ line.key # None
IsEntryLine(line) == IsActive(line) \/ IsDisabled(line)

\* strip() leaves nothing of the line, its comment marks aside; nothing at all.
HasNothing(line) == line.key = None /\ line.text = Empty
IsBlank(line) == line.hash = 0 /\ HasNothing(line)

Comment(line) == [line EXCEPT !.hash = @ + 1]

\* Mutant of Uncomment: takes a mark off a line that has none.
UncommentUnguarded(line) == [line EXCEPT !.hash = @ - 1]

Uncomment(line) == [line EXCEPT !.hash = IF @ > 0 THEN @ - 1 ELSE 0]

-----------------------------------------------------------------------------
(* parse()                                                                 *)

\* Mutant of Continues: every indented line continues an entry.
ContinuesAny(first, line) == line.indent

\* The line is indented behind its marks, and not by spaces only.
GoesOn(line, hash) == line.indent /\ line.hash = hash /\ ~HasNothing(line)

\* An active entry goes on over indented lines; a disabled one over "#" with at
\* least two spaces, which is how an indented line looks once commented; both
\* end at a line of spaces.
Continues(first, line) == GoesOn(line, first.hash)

Starts(lines) == {i \in DOMAIN lines : IsEntryLine(lines[i])}

\* The line numbers for which Test holds, from the top.
Where(lines, Test(_)) == SelectSeq([i \in DOMAIN lines |-> i], Test)

EndOf(lines, s) ==
  CHOOSE e \in s..Len(lines) :
    /\ \A i \in (s + 1)..e : Continues(lines[s], lines[i])
    /\ e = Len(lines) \/ ~Continues(lines[s], lines[e + 1])

\* An entry's value is its raw_block when it has several lines, and the text
\* after "key:" when it has one.
EntryAt(lines, s) ==
  LET end   == EndOf(lines, s)
      first == lines[s]
  IN  [key       |-> first.key,
       enabled   |-> IsActive(first),
       start     |-> s,
       end       |-> end,
       multiline |-> end > s,
       value     |-> CASE end > s -> [i \in 1..(end - s + 1) |-> Uncomment(lines[s + i - 1])]
                       [] end = s /\ first.text # Empty -> <<Words(first.text)>>
                       [] end = s /\ first.text = Empty -> <<>>]

Entries(lines) == {EntryAt(lines, s) : s \in Starts(lines)}

-----------------------------------------------------------------------------
(* Texts of several lines.  A value is the sequence of its lines.          *)

\* What a line reads as once it stands after "key: "; marks count as text.
AsText(line) == IF line.key = None \/ line.hash > 0 THEN line.text ELSE Garbled

\* strip("\n"): without the empty lines at both ends.
Stripped(lines) ==
  LET filled == {i \in DOMAIN lines : lines[i] # Blank} IN
  IF filled = {} THEN <<>> ELSE SubSeq(lines, Min(filled), Max(filled))

\* Mutant of Rejoin: an empty text gets no newline.
RejoinBare(lines) == IF lines # <<>> /\ Last(lines) = Blank THEN Front(lines) ELSE lines

\* "\n".join(lines), a newline if none ends it, and splitlines() again: a last
\* empty line is taken for that newline.
Rejoin(lines) ==
  CASE lines = <<>> -> <<Blank>>
    [] Len(lines) > 1 /\ Last(lines) = Blank -> Front(lines)
    [] OTHER -> lines

\* Mutant of RenderEntryLines: only the first line of a block is commented out.
RenderFirstCommented(key, enabled, value, multiline) ==
  LET body == IF multiline /\ value # <<>> THEN value
              ELSE <<Setting(key, IF value = <<>> THEN Empty ELSE AsText(Head(value)))>>
  IN  [i \in DOMAIN body |-> IF enabled \/ i > 1 THEN body[i] ELSE Comment(body[i])]

\* A single-line entry is rendered as ONE string: if the value has more lines
\* they follow as they are, and the comment mark reaches the first one only.
RenderEntryLines(key, enabled, value, multiline) ==
  LET Mark(line) == IF enabled THEN line ELSE Comment(line)
      body == IF multiline THEN value ELSE Stripped(value)
  IN  CASE body = <<>> -> <<Mark(Setting(key, Empty))>>
        [] body # <<>> /\ multiline -> [i \in DOMAIN body |-> Mark(body[i])]
        [] body # <<>> /\ ~multiline ->
             <<Mark(Setting(key, AsText(Head(body))))>> \o Tail(body)

-----------------------------------------------------------------------------
(* apply_updates() and upsert().  Updates are a function from keys to      *)
(* [enabled, keep, value]; keep: the update has no value of its own.       *)

Splice(lines, e, new) ==
  SubSeq(lines, 1, e.start - 1) \o new \o SubSeq(lines, e.end + 1, Len(lines))

Replacement(e, upd) ==
  RenderEntryLines(e.key, upd.enabled, IF upd.keep THEN e.value ELSE upd.value, e.multiline)

Targeted(lines, updates) == {s \in Starts(lines) : lines[s].key \in DOMAIN updates}

\* Mutant of Rewritten: top to bottom, with the indices of the old lines.
RewrittenTopDown(lines, updates) ==
  LET upTo[s \in 0..Len(lines)] ==
        IF s \in Targeted(lines, updates)
        THEN LET e == EntryAt(lines, s) IN Splice(upTo[s - 1], e, Replacement(e, updates[e.key]))
        ELSE IF s = 0 THEN lines ELSE upTo[s - 1]
  IN  upTo[Len(lines)]

\* Every entry of an updated key is rewritten, from bottom to top so that the
\* indices of those above stay valid: the text once those from line s on are.
Rewritten(lines, updates) ==
  LET from[s \in 1..(Len(lines) + 1)] ==
        IF s \in Targeted(lines, updates)
        THEN LET e == EntryAt(lines, s) IN Splice(from[s + 1], e, Replacement(e, updates[e.key]))
        ELSE IF s = Len(lines) + 1 THEN lines ELSE from[s + 1]
  IN  from[1]

ApplyUpdates(lines, updates) == Rejoin(Rewritten(lines, updates))

Missing(lines, updates) == DOMAIN updates \ {lines[s].key : s \in Starts(lines)}

\* The lines up to the last that is not blank.
WithoutTail(lines) == SubSeq(lines, 1, SelectLastInSeq(lines, LAMBDA l : ~IsBlank(l)))

\* What is appended for the missing keys: enabled, a value of several lines as a
\* block.
Appended(updates, missing, order) ==
  LET New(k) == RenderEntryLines(k, updates[k].enabled, updates[k].value, Len(updates[k].value) > 1)
  IN  FlattenSeq([i \in DOMAIN order |-> IF order[i] \in missing THEN New(order[i]) ELSE <<>>])

\* Mutants of Upsert: the header is appended when nothing is missing; a key the
\* rewriting lost is not missed.
UpsertAlwaysAppending(lines, updates, header, order) ==
  LET updated == ApplyUpdates(lines, updates)
  IN  WithoutTail(updated) \o <<Blank, header>> \o Appended(updates, Missing(updated, updates), order)

UpsertMissingBefore(lines, updates, header, order) ==
  LET updated == ApplyUpdates(lines, updates)
      missing == Missing(lines, updates)
  IN  IF missing = {} THEN updated
      ELSE WithoutTail(updated) \o <<Blank, header>> \o Appended(updates, missing, order)

\* Keys the file does not have at all are appended under a header, in the order
\* of the updates.
Upsert(lines, updates, header, order) ==
  LET updated == ApplyUpdates(lines, updates)
      missing == Missing(updated, updates)
  IN  IF missing = {} THEN updated
      ELSE WithoutTail(updated) \o <<Blank, header>> \o Appended(updates, missing, order)

-----------------------------------------------------------------------------
\* PyYAML on the lines that are not comments: column-0 text among settings, an
\* indented line before them, and a `key: key:` are errors.
Loads(lines) ==
  LET live == SelectSeq(lines, LAMBDA l : l.hash = 0 /\ ~IsBlank(l)) IN
  (\E i \in DOMAIN live : IsActive(live[i])) =>
    /\ IsActive(live[1])
    /\ \A i \in DOMAIN live : /\ IsActive(live[i]) \/ live[i].indent
                              /\ live[i].key # None => live[i].text # Garbled
=============================================================================
