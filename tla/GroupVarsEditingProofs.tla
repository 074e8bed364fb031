------------------------ MODULE GroupVarsEditingProofs ------------------------
(***************************************************************************)
(* Theorems about the editing of one file, for any file, keys, texts and   *)
(* updates, and any number of saves and configures.                        *)
(***************************************************************************)
EXTENDS GroupVarsEditing, GroupVarsFacts

-----------------------------------------------------------------------------
(* The entries of a key, from a line on.                                   *)

EntryOf(lines, k, s) == IsEntryLine(lines[s]) /\ lines[s].key = k

\* f[s] is what is seen of the entries of k from line s on.
Lists(lines, k, f) ==
  /\ f[Len(lines) + 1] = <<>>
  /\ \A s \in 1..Len(lines) :
       f[s] = IF EntryOf(lines, k, s) THEN <<Shown(EntryAt(lines, s))>> \o f[s + 1] ELSE f[s + 1]

\* The function of Seen.
ListOf(lines, k) ==
  CHOOSE f : f = [s \in 1..(Len(lines) + 1) |->
                   IF s = Len(lines) + 1 THEN <<>>
                   ELSE IF IsEntryLine(lines[s]) /\ lines[s].key = k
                        THEN <<Shown(EntryAt(lines, s))>> \o f[s + 1]
                   ELSE f[s + 1]]

LEMMA SeenIsListed ==
  ASSUME NEW lines \in Seq(Line), NEW k
  PROVE  Lists(lines, k, ListOf(lines, k)) /\ Seen(lines, k) = ListOf(lines, k)[1]
<1> DEFINE len == Len(lines)
           W == {Shown(EntryAt(lines, s)) : s \in 1..len}
           Body(f) == [s \in 1..(len + 1) |->
                        IF s = len + 1 THEN <<>>
                        ELSE IF IsEntryLine(lines[s]) /\ lines[s].key = k
                             THEN <<Shown(EntryAt(lines, s))>> \o f[s + 1]
                        ELSE f[s + 1]]
           View(s) == Shown(EntryAt(lines, s))
           F == [s \in 1..len |-> [x \in Seq(W) |-> IF EntryOf(lines, k, s) THEN <<View(s)>> \o x ELSE x]]
           empty == <<>>
<1>1. len \in Nat /\ empty \in Seq(W) /\ \A s \in 1..len : View(s) \in W
  OBVIOUS
<1> HIDE DEF W, empty
<1>2. F \in [1..len -> [Seq(W) -> Seq(W)]]
  <2>1. ASSUME NEW s \in 1..len, NEW x \in Seq(W)
        PROVE  (IF EntryOf(lines, k, s) THEN <<View(s)>> \o x ELSE x) \in Seq(W)
    <3> DEFINE view == View(s)
    <3>1. view \in W
      BY <1>1
    <3> HIDE DEF view
    <3>2. <<view>> \in Seq(W)
      BY <3>1
    <3>3. <<view>> \o x \in Seq(W)
      BY <3>2, ConcatProperties
    <3>4. QED
      BY <3>3 DEF view
  <2>2. QED
    BY <2>1
<1>3. \A s \in 1..len, x \in Seq(W) : F[s][x] = IF EntryOf(lines, k, s) THEN <<View(s)>> \o x ELSE x
  OBVIOUS
<1> HIDE DEF F, View
<1>4. \E g : g = Body(g)
  <2>1. PICK g : CountsDown(g, len, Seq(W), empty, F)
    BY <1>1, <1>2, Countdown
  <2>2. /\ g \in [1..(len + 1) -> Seq(W)] /\ g[len + 1] = empty
        /\ \A s \in 1..len : g[s] = F[s][g[s + 1]]
    BY <2>1 DEF CountsDown
  <2>3. \A s \in 1..len : s + 1 \in 1..(len + 1) /\ g[s + 1] \in Seq(W)
    BY <2>2, <1>1
  <2>4. \A s \in 1..len : g[s] = IF EntryOf(lines, k, s) THEN <<View(s)>> \o g[s + 1] ELSE g[s + 1]
    BY <2>2, <2>3, <1>3
  <2>5. ASSUME NEW s \in 1..(len + 1) PROVE g[s] = Body(g)[s]
    <3>1. CASE s = len + 1
      BY <3>1, <2>2, <1>1 DEF empty
    <3>2. CASE s # len + 1
      <4>1. s \in 1..len
        BY <3>2, <1>1
      <4>2. QED
        BY <4>1, <3>2, <2>4 DEF EntryOf, View
    <3>3. QED
      BY <3>1, <3>2
  <2> HIDE DEF Body
  <2>6. g = Body(g)
    BY <2>2, <2>5 DEF Body
  <2>7. QED
    BY <2>6
<1> DEFINE from == ListOf(lines, k)
<1>5. from = Body(from)
  BY <1>4 DEF ListOf
<1>6. Seen(lines, k) = from[1]
  BY DEF Seen, ListOf
<1> HIDE DEF from
<1>7. Lists(lines, k, from)
  <2>1. \A s \in 1..(len + 1) : from[s] = Body(from)[s]
    BY <1>5, Zenon
  <2>2. len + 1 \in 1..(len + 1) /\ \A s \in 1..len : s \in 1..(len + 1) /\ s # len + 1
    BY <1>1
  <2>3. QED
    BY <2>1, <2>2, <1>1 DEF Lists, EntryOf
<1>8. QED
  BY <1>6, <1>7 DEF from

\* A function over an interval that does not change from one line to the next
\* is the same at both ends; and what holds at the end and is handed upwards
\* holds everywhere.
LEMMA Upwards ==
  ASSUME NEW a \in Nat, NEW b \in Nat, a <= b, NEW S, b \in S,
         \A s \in a..(b - 1) : s + 1 \in S => s \in S
  PROVE  \A s \in a..b : s \in S
<1> DEFINE T == {j \in 0..(b - a) : b - j \notin S}
<1>1. T = {}
  <2> SUFFICES ASSUME T # {} PROVE FALSE
    OBVIOUS
  <2>1. T \subseteq Nat
    OBVIOUS
  <2>2. PICK j \in T : \A i \in T : j <= i
    BY <2>1, LeastElement
  <2>3. j \in 0..(b - a) /\ b - j \notin S /\ b - a \in Nat
    BY <2>2
  <2>4. j # 0
    BY <2>3
  <2>5. /\ j - 1 \in 0..(b - a) /\ ~(j <= j - 1) /\ b - j \in a..(b - 1)
        /\ (b - j) + 1 = b - (j - 1)
    BY <2>3, <2>4
  <2>6. b - (j - 1) \in S
    BY <2>2, <2>5
  <2>7. QED
    BY <2>3, <2>5, <2>6
<1>2. QED
  <2> TAKE s \in a..b
  <2>1. b - s \in 0..(b - a) /\ b - (b - s) = s
    OBVIOUS
  <2>2. QED
    BY <2>1, <1>1

\* Lines without an entry of k add nothing to what is seen of it.
LEMMA SeenBelow ==
  ASSUME NEW lines \in Seq(Line), NEW k, NEW a \in 1..(Len(lines) + 1), NEW b \in a..(Len(lines) + 1),
         \A s \in a..(b - 1) : ~EntryOf(lines, k, s)
  PROVE  ListOf(lines, k)[a] = ListOf(lines, k)[b]
<1> DEFINE f == ListOf(lines, k)
           S == {s \in 1..(Len(lines) + 1) : f[s] = f[b]}
<1>1. Len(lines) \in Nat /\ a \in Nat /\ b \in Nat /\ a <= b /\ b \in 1..(Len(lines) + 1)
  OBVIOUS
<1>2. Lists(lines, k, f)
  BY SeenIsListed
<1> HIDE DEF f
<1>3. ASSUME NEW s \in a..(b - 1), s + 1 \in S PROVE s \in S
  <2>1. s \in 1..Len(lines) /\ s \in 1..(Len(lines) + 1)
    BY <1>1
  <2>2. QED
    BY <2>1, <1>2, <1>3 DEF Lists
<1>4. b \in S
  BY <1>1
<1> HIDE DEF S
<1>5. \A s \in a..b : s \in S
  BY <1>1, <1>3, <1>4, Upwards
<1>6. a \in S
  BY <1>1, <1>5
<1>7. QED
  BY <1>6 DEF S, f

LEMMA SameIsShown ==
  ASSUME NEW lines, NEW s, NEW text, NEW p, SameEntry(EntryAt(text, p), EntryAt(lines, s))
  PROVE  Shown(EntryAt(text, p)) = Shown(EntryAt(lines, s))
<1> DEFINE e == EntryAt(text, p)
           f == EntryAt(lines, s)
<1>1. /\ [e EXCEPT !.start = 0, !.end = 0].enabled = e.enabled
      /\ [e EXCEPT !.start = 0, !.end = 0].value = e.value
      /\ [f EXCEPT !.start = 0, !.end = 0].enabled = f.enabled
      /\ [f EXCEPT !.start = 0, !.end = 0].value = f.value
  BY DEF EntryAt
<1> HIDE DEF e, f
<1>2. e.enabled = f.enabled /\ e.value = f.value
  BY <1>1 DEF SameEntry, e, f
<1>3. QED
  BY <1>2 DEF Shown, e, f

\* From a line on that stands elsewhere with all that is below it, the same is
\* seen.
LEMMA SeenMoved ==
  ASSUME NEW text \in Seq(Line), NEW moved \in Seq(Line), NEW k, NEW d \in Int, NEW n \in Nat,
         n <= Len(text), n + d >= 0, Len(moved) = Len(text) + d,
         \A i \in (n + 1)..Len(text) : moved[i + d] = text[i]
  PROVE  ListOf(text, k)[n + 1] = ListOf(moved, k)[n + 1 + d]
<1> DEFINE f == ListOf(text, k)
           g == ListOf(moved, k)
           S == {s \in (n + 1)..(Len(text) + 1) : f[s] = g[s + d]}
           last == Len(text) + 1
<1>1. Len(text) \in Nat /\ Len(moved) \in Nat /\ last \in Nat /\ n + 1 \in Nat /\ n + 1 <= last
  OBVIOUS
<1>2. Lists(text, k, f) /\ Lists(moved, k, g)
  BY SeenIsListed
<1> HIDE DEF f, g
<1>3. last \in S
  <2>1. last + d = Len(moved) + 1
    BY <1>1
  <2>2. QED
    BY <2>1, <1>1, <1>2 DEF Lists
<1>4. ASSUME NEW s \in (n + 1)..(last - 1), s + 1 \in S PROVE s \in S
  <2>1. /\ s \in 1..Len(text) /\ s \in (n + 1)..Len(text) /\ s + d \in 1..Len(moved)
        /\ (s + 1) + d = (s + d) + 1 /\ s \in (n + 1)..last /\ s \in Nat
    BY <1>1
  <2>2. f[s + 1] = g[(s + d) + 1]
    BY <1>4, <2>1
  <2>3. moved[s + d] = text[s]
    BY <2>1
  <2>4. EntryOf(moved, k, s + d) <=> EntryOf(text, k, s)
    BY <2>3 DEF EntryOf
  <2>5. CASE ~EntryOf(text, k, s)
    <3>1. f[s] = f[s + 1] /\ g[s + d] = g[(s + d) + 1]
      BY <2>1, <2>4, <2>5, <1>2 DEF Lists
    <3>2. QED
      BY <3>1, <2>1, <2>2
  <2>6. CASE EntryOf(text, k, s)
    <3> DEFINE e == EndOf(text, s)
    <3>1. EndsAt(text, s, e) /\ e \in s..Len(text)
      BY <2>1, EndExists DEF EndsAt
    <3> HIDE DEF e
    <3>2. e \in Nat /\ s <= e /\ s + (e - s) = e /\ \A i \in s..e : s + (i - s) = i
      BY <3>1, <2>1
    <3>3. StandsAt(text, s, e, text, s)
      BY <2>1, <3>1, <3>2 DEF StandsAt
    <3>4. StandsAt(text, s, e, moved, s + d)
      <4>1. n < s /\ s + d >= 1
        BY <2>1, <1>1
      <4>2. QED
        BY <4>1, <2>1, <3>2, <3>3, StandsMoved
    <3>5. s \in Starts(text)
      BY <2>1, <2>6 DEF EntryOf, Starts
    <3>6. SameEntry(EntryAt(moved, s + d), EntryAt(text, s))
      BY <3>4, <3>5, EntryStays DEF e
    <3>7. Shown(EntryAt(moved, s + d)) = Shown(EntryAt(text, s))
      BY <3>6, SameIsShown
    <3>8. f[s] = <<Shown(EntryAt(text, s))>> \o f[s + 1] /\ g[s + d] = <<Shown(EntryAt(moved, s + d))>> \o g[(s + d) + 1]
      BY <2>1, <2>4, <2>6, <1>2 DEF Lists
    <3>9. f[s] = g[s + d]
      BY <3>7, <3>8, <2>2, Zenon
    <3>10. QED
      BY <3>9, <2>1
  <2>7. QED
    BY <2>5, <2>6
<1> HIDE DEF S
<1>5. \A s \in (n + 1)..last : s \in S
  BY <1>1, <1>3, <1>4, Upwards
<1>6. n + 1 \in S
  BY <1>1, <1>5
<1>7. QED
  BY <1>6 DEF S, f, g

-----------------------------------------------------------------------------
(* Texts that name no other key.                                           *)

IsRow(k, value) == value \in Seq(Line) /\ OfKey(k, value)

AreRows(updates) ==
  DOMAIN updates \subseteq Keys /\ \A k \in DOMAIN updates : IsRow(k, updates[k].value)

LEMMA RowIsValue ==
  ASSUME NEW k, NEW value, IsRow(k, value)
  PROVE  IsValue(value)
BY DEF IsRow, OfKey, IsValue

LEMMA RowsAreUpdates ==
  ASSUME NEW updates, AreRows(updates)
  PROVE  AreUpdates(updates)
BY RowIsValue DEF AreRows, AreUpdates

\* No line of the text begins an entry of another key.
IsOfKey(k, lines) == \A i \in 1..Len(lines) : IsEntryLine(lines[i]) => lines[i].key = k

LEMMA IndentedIsNoEntry ==
  ASSUME NEW line, line.indent
  PROVE  ~IsEntryLine(line)
BY DEF IsEntryLine, IsActive, IsDisabled

LEMMA EntryIsRow ==
  ASSUME NEW lines \in Seq(Line), NEW s \in Starts(lines)
  PROVE  IsRow(lines[s].key, EntryAt(lines, s).value)
<1> DEFINE end == EndOf(lines, s)
           first == lines[s]
           value == EntryAt(lines, s).value
           block == [i \in 1..(end - s + 1) |-> Uncomment(lines[s + i - 1])]
<1>1. s \in 1..Len(lines) /\ Len(lines) \in Nat /\ first \in Line
  BY DEF Starts
<1>2. IsValue(value)
  BY EntryValue
<1>3. end \in s..Len(lines) /\ \A i \in (s + 1)..end : Continues(lines[s], lines[i])
  BY <1>1, EndExists DEF EndsAt
<1>4. value = CASE end > s -> block
                [] end = s /\ first.text # Empty -> <<Words(first.text)>>
                [] end = s /\ first.text = Empty -> <<>>
  BY DEF EntryAt
<1> HIDE DEF end, value, block
<1>5. CASE end > s
  <2>1. value = block
    BY <1>1, <1>3, <1>4, <1>5
  <2> USE DEF block
  <2>2. end - s + 1 \in Nat /\ 1 \in 1..(end - s + 1) /\ s + 1 - 1 = s
    BY <1>1, <1>3
  <2>3. value[1] = Uncomment(first)
    BY <2>1, <2>2
  <2>4. value[1].key = first.key
    BY <2>3, <1>1 DEF Uncomment, Line
  <2>5. Len(value) = end - s + 1
    BY <2>1, <2>2
  <2>6. ASSUME NEW i \in 2..Len(value) PROVE value[i].indent
    <3>1. i \in 1..(end - s + 1) /\ s + i - 1 \in (s + 1)..end /\ s + i - 1 \in 1..Len(lines)
      BY <2>5, <1>1, <1>3
    <3>2. value[i] = Uncomment(lines[s + i - 1]) /\ lines[s + i - 1] \in Line
      BY <3>1, <2>1
    <3>3. lines[s + i - 1].indent
      BY <3>1, <1>3 DEF Continues, GoesOn
    <3>4. QED
      BY <3>2, <3>3, CommentIsLine
  <2>7. DOMAIN value = 1..Len(value) /\ \A i \in 1..Len(value) : i = 1 \/ i \in 2..Len(value)
    BY <2>1, <2>2
  <2> HIDE DEF block
  <2>8. QED
    BY <1>2, <2>4, <2>6, <2>7 DEF IsRow, OfKey, IsValue, value
<1>6. CASE end = s /\ first.text # Empty
  <2>1. value = <<Words(first.text)>>
    BY <1>4, <1>6
  <2>2. DOMAIN value = {1} /\ value[1].key = None /\ value # <<>>
    BY <2>1 DEF Words, Setting
  <2>3. QED
    BY <1>2, <2>2 DEF IsRow, OfKey, IsValue, value
<1>7. CASE end = s /\ first.text = Empty
  <2>1. value = <<>>
    BY <1>4, <1>7
  <2>2. QED
    BY <1>2, <2>1 DEF IsRow, OfKey, IsValue, value
<1>8. QED
  BY <1>1, <1>3, <1>5, <1>6, <1>7 DEF value

LEMMA RenderedIsOfKey ==
  ASSUME NEW key \in Keys, NEW enabled, NEW value, IsRow(key, value), NEW multiline \in BOOLEAN
  PROVE  IsOfKey(key, RenderEntryLines(key, enabled, value, multiline))
<1> DEFINE Mark(line) == IF enabled THEN line ELSE Comment(line)
           body == BodyOf(value, multiline)
           new == RenderEntryLines(key, enabled, value, multiline)
<1>1. \A line \in Line : Mark(line) \in Line /\ Mark(line).indent = line.indent /\ Mark(line).key = line.key
  BY CommentIsLine DEF Comment, Line
<1>2. new = CASE body = <<>> -> <<Mark(Setting(key, Empty))>>
              [] body # <<>> /\ multiline -> [i \in DOMAIN body |-> Mark(body[i])]
              [] body # <<>> /\ ~multiline ->
                   <<Mark(Setting(key, AsText(Head(body))))>> \o Tail(body)
  BY DEF RenderEntryLines, BodyOf
<1>3. /\ body \in Seq(Line) /\ Len(body) \in Nat
      /\ \A i \in 1..Len(body) : body[i].indent \/ body[i].key \in {key, None}
  <2>1. value \in Seq(Line) /\ (value # <<>> => \A i \in 1..Len(value) : value[i].indent \/ value[i].key \in {key, None})
    BY DEF IsRow, OfKey
  <2>2. body \in Seq(Line) /\ \A i \in 1..Len(body) : \E j \in 1..Len(value) : body[i] = value[j]
    BY <2>1, BodyLines
  <2> HIDE DEF body
  <2>3. Len(value) = 0 \/ \A j \in 1..Len(value) : value[j].indent \/ value[j].key \in {key, None}
    BY <2>1, EmptySeq
  <2>4. QED
    BY <2>2, <2>3
<1>8. \A line \in Line : IsEntryLine(Mark(line)) => ~line.indent /\ line.key # None
  BY <1>1 DEF IsEntryLine, IsActive, IsDisabled
<1>9. \A line : IsEntryLine(line) => ~line.indent /\ line.key # None
  BY DEF IsEntryLine, IsActive, IsDisabled
<1> HIDE DEF new, Mark, body
<1>4. CASE body = <<>>
  <2> DEFINE top == Mark(Setting(key, Empty))
  <2>1. Setting(key, Empty) \in Line /\ Setting(key, Empty).key = key
    BY SettingIsLine, GroupVarsAssumption DEF Setting
  <2>2. top.key = key
    BY <2>1, <1>1
  <2> HIDE DEF top
  <2>3. new = <<top>>
    BY <1>2, <1>4 DEF top
  <2>4. Len(new) = 1 /\ new[1] = top
    BY <2>3
  <2>5. QED
    BY <2>2, <2>4 DEF IsOfKey, new
<1>5. CASE body # <<>> /\ multiline
  <2>1. new = [i \in DOMAIN body |-> Mark(body[i])]
    BY <1>2, <1>5
  <2>2. DOMAIN body = 1..Len(body) /\ Len(new) = Len(body)
    BY <2>1, <1>3
  <2>3. ASSUME NEW i \in 1..Len(new), IsEntryLine(new[i]) PROVE new[i].key = key
    <3>1. new[i] = Mark(body[i]) /\ body[i] \in Line
      BY <2>1, <2>2, <1>3
    <3>2. new[i].indent = body[i].indent /\ new[i].key = body[i].key
      BY <3>1, <1>1
    <3>3. ~body[i].indent /\ body[i].key # None
      BY <3>1, <2>3, <1>8
    <3>4. QED
      BY <3>2, <3>3, <2>2, <1>3
  <2>4. QED
    BY <2>3 DEF IsOfKey, new
<1>6. CASE body # <<>> /\ ~multiline
  <2> DEFINE top == Mark(Setting(key, AsText(Head(body))))
             rest == Tail(body)
  <2>1. Head(body) \in Line /\ rest \in Seq(Line) /\ Len(rest) = Len(body) - 1
        /\ \A i \in 1..Len(rest) : rest[i] = body[i + 1]
    BY <1>3, <1>6
  <2>2. AsText(Head(body)) \in Texts
    BY <2>1, TextOfLine
  <2>3. Setting(key, AsText(Head(body))) \in Line /\ Setting(key, AsText(Head(body))).key = key
    BY <2>2, SettingIsLine DEF Setting
  <2>4. top \in Line /\ top.key = key
    BY <2>3, <1>1
  <2>5. new = <<top>> \o rest
    BY <1>2, <1>6
  <2> HIDE DEF top, rest
  <2>6. <<top>> \in Seq(Line) /\ Len(<<top>>) = 1 /\ <<top>>[1] = top
    BY <2>4
  <2>7. /\ Len(new) = 1 + Len(rest) /\ new[1] = top
        /\ \A i \in 1..Len(rest) : new[1 + i] = rest[i]
    BY <2>1, <2>5, <2>6, JoinedPlaces
  <2>8. ASSUME NEW i \in 1..Len(new), IsEntryLine(new[i]) PROVE new[i].key = key
    <3>1. CASE i = 1
      BY <3>1, <2>4, <2>7
    <3>2. CASE i # 1
      <4>1. i - 1 \in 1..Len(rest) /\ 1 + (i - 1) = i /\ (i - 1) + 1 = i /\ i \in 2..Len(body)
        BY <3>2, <2>1, <2>7, <1>3
      <4>2. new[i] = body[i]
        BY <4>1, <2>1, <2>7
      <4>3. QED
        BY <4>1, <4>2, <2>8, <1>3, <1>9
    <3>3. QED
      BY <3>1, <3>2
  <2>9. QED
    BY <2>8 DEF IsOfKey, new
<1>7. QED
  BY <1>4, <1>5, <1>6

LEMMA ReplacementIsOfKey ==
  ASSUME NEW lines \in Seq(Line), NEW s \in Starts(lines), NEW upd, IsRow(lines[s].key, upd.value)
  PROVE  IsOfKey(lines[s].key, Replacement(EntryAt(lines, s), upd))
<1> DEFINE e == EntryAt(lines, s)
           value == IF upd.keep THEN e.value ELSE upd.value
<1>1. lines[s] \in Line /\ IsEntryLine(lines[s])
  BY DEF Starts
<1>2. e.key = lines[s].key /\ e.multiline = (EndOf(lines, s) > s)
  BY DEF EntryAt
<1>3. lines[s].key \in Keys /\ e.multiline \in BOOLEAN
  BY <1>1, <1>2, EntryLines
<1>4. IsRow(lines[s].key, value)
  BY EntryIsRow
<1> HIDE DEF e, value
<1>5. IsOfKey(lines[s].key, RenderEntryLines(e.key, upd.enabled, value, e.multiline))
  BY <1>2, <1>3, <1>4, RenderedIsOfKey
<1>6. QED
  BY <1>5 DEF Replacement, e, value

-----------------------------------------------------------------------------
(* What is seen of the keys that are not updated.                          *)

\* From line n on, both texts show the same of every other key.
ShowsSame(lines, text, ks, n) ==
  \A k \in Keys \ ks : ListOf(text, k)[n] = ListOf(lines, k)[n]

\* Both texts show from line a on what they show from line m on.
NothingBetween(lines, text, a, m, k) ==
  ListOf(lines, k)[a] = ListOf(lines, k)[m] /\ ListOf(text, k)[a] = ListOf(text, k)[m]

\* Between two entries nothing is seen.
LEMMA BetweenEntries ==
  ASSUME NEW lines \in Seq(Line), NEW text, NEW ks, NEW a \in 1..(Len(lines) + 1), NEW m,
         FirstFrom(lines, a, m), Agrees(lines, text, ks, m), NEW k
  PROVE  NothingBetween(lines, text, a, m, k)
<1>1. Len(lines) \in Nat /\ a \in Nat
  OBVIOUS
<1>2. /\ m \in a..(Len(lines) + 1) /\ \A r \in a..(m - 1) : r \notin Starts(lines)
  BY DEF FirstFrom
<1>3. /\ text \in Seq(Line) /\ Len(text) \in Nat
      /\ m - 1 <= Len(text) /\ \A i \in 1..(m - 1) : text[i] = lines[i]
  BY DEF Agrees
<1>4. \A r \in a..(m - 1) : ~EntryOf(lines, k, r) /\ ~EntryOf(text, k, r)
  <2> TAKE r \in a..(m - 1)
  <2>1. r \in 1..Len(lines) /\ r \in 1..(m - 1)
    BY <1>1, <1>2
  <2>2. ~IsEntryLine(lines[r])
    BY <2>1, <1>2 DEF Starts
  <2>3. QED
    BY <2>1, <2>2, <1>3 DEF EntryOf
<1>5. /\ a \in 1..(Len(text) + 1) /\ m \in a..(Len(text) + 1)
  BY <1>1, <1>2, <1>3
<1>6. QED
  BY <1>2, <1>3, <1>4, <1>5, SeenBelow DEF NothingBetween

\* An entry is seen, with what is seen below it.
LEMMA SeenAtEntry ==
  ASSUME NEW lines \in Seq(Line), NEW s \in Starts(lines), NEW k
  PROVE  /\ lines[s].key = k => ListOf(lines, k)[s] = <<Shown(EntryAt(lines, s))>> \o ListOf(lines, k)[s + 1]
         /\ lines[s].key # k => ListOf(lines, k)[s] = ListOf(lines, k)[s + 1]
<1>1. Lists(lines, k, ListOf(lines, k))
  BY SeenIsListed
<1>2. s \in 1..Len(lines) /\ (EntryOf(lines, k, s) <=> lines[s].key = k)
  BY DEF Starts, EntryOf
<1>3. QED
  BY <1>1, <1>2 DEF Lists

LEMMA ShowsSameAbove ==
  ASSUME NEW lines \in Seq(Line), NEW text, NEW ks, NEW s \in Starts(lines), NEW m,
         FirstFrom(lines, s + 1, m), Agrees(lines, text, ks, m), ShowsSame(lines, text, ks, m)
  PROVE  ShowsSame(lines, text, ks, s)
<1> SUFFICES ASSUME NEW k \in Keys \ ks PROVE ListOf(text, k)[s] = ListOf(lines, k)[s]
  BY DEF ShowsSame
<1> DEFINE f == ListOf(text, k)
           g == ListOf(lines, k)
<1>1. s + 1 \in 1..(Len(lines) + 1)
  BY DEF Starts
<1>2. text \in Seq(Line)
  BY DEF Agrees
<1>3. f[s + 1] = g[s + 1]
  <2> DEFINE a == s + 1
  <2>1. a \in 1..(Len(lines) + 1) /\ FirstFrom(lines, a, m)
    BY <1>1
  <2> HIDE DEF a
  <2>2. NothingBetween(lines, text, a, m, k)
    BY <2>1, BetweenEntries
  <2>3. f[m] = g[m]
    BY DEF ShowsSame
  <2>4. QED
    BY <2>2, <2>3 DEF NothingBetween, a
<1>4. StandsAt(lines, s, EndOf(lines, s), text, s)
  BY StandsStill
<1>5. s \in Starts(text) /\ text[s] = lines[s]
  BY <1>2, <1>4, StandsAtStart
<1>6. Shown(EntryAt(text, s)) = Shown(EntryAt(lines, s))
  <2>1. SameEntry(EntryAt(text, s), EntryAt(lines, s))
    BY <1>2, <1>4, EntryStays
  <2>2. QED
    BY <2>1, SameIsShown
<1>7. /\ text[s].key = k => f[s] = <<Shown(EntryAt(text, s))>> \o f[s + 1]
      /\ text[s].key # k => f[s] = f[s + 1]
  BY <1>2, <1>5, SeenAtEntry
<1>8. /\ lines[s].key = k => g[s] = <<Shown(EntryAt(lines, s))>> \o g[s + 1]
      /\ lines[s].key # k => g[s] = g[s + 1]
  BY SeenAtEntry
<1>9. f[s] = g[s]
  BY <1>3, <1>5, <1>6, <1>7, <1>8, Zenon
<1>10. QED
  BY <1>9 DEF f, g

\* With new in the place of the entry e at s, the text below shows from its
\* first line on what it showed from line m on.
BelowShows(lines, text, s, m, e, new, k) ==
  /\ IsSplice(text, s, EndOf(lines, s), new, Splice(text, e, new))
  /\ ListOf(Splice(text, e, new), k)[s + Len(new)] = ListOf(text, k)[m]

\* What stands below an entry that is replaced shows what it did, some lines
\* higher or lower.
LEMMA ShownBelowReplaced ==
  ASSUME NEW lines \in Seq(Line), NEW text, NEW ks, NEW s \in Starts(lines), NEW m,
         FirstFrom(lines, s + 1, m), Agrees(lines, text, ks, m),
         NEW e, e.start = s, e.end = EndOf(lines, s), NEW new, IsBlock(new), NEW k
  PROVE  BelowShows(lines, text, s, m, e, new, k)
<1> DEFINE end == EndOf(lines, s)
           result == Splice(text, e, new)
           d == Len(new) - (end - s + 1)
<1>1. s \in 1..Len(lines) /\ Len(lines) \in Nat /\ s \in Nat
  BY DEF Starts
<1>2. end \in s..Len(lines) /\ end < m /\ e.end = end
  BY <1>1, EndExists, StandsStill DEF EndsAt
<1> HIDE DEF end
<1>3. m \in (s + 1)..(Len(lines) + 1) /\ (m <= Len(lines) => m \in Starts(lines))
      /\ \A r \in (s + 1)..(m - 1) : r \notin Starts(lines)
  BY DEF FirstFrom
<1>4. text \in Seq(Line) /\ Len(text) \in Nat /\ m - 1 <= Len(text)
  BY DEF Agrees
<1>5. new \in Seq(Line) /\ Len(new) \in Nat /\ Len(new) >= 1
  BY EmptySeq DEF IsBlock
<1>6. s \in 1..Len(text) /\ end \in s..Len(text) /\ end \in Nat /\ m \in Nat
  BY <1>1, <1>2, <1>3, <1>4
<1>7. IsSplice(text, s, end, new, result)
  BY <1>2, <1>4, <1>5, <1>6, SplicedLines
<1> HIDE DEF result
<1>8. /\ result \in Seq(Line) /\ Len(result) = Len(text) + d
      /\ \A i \in (end + 1)..Len(text) : result[i + d] = text[i]
      /\ d \in Int /\ s + Len(new) = end + 1 + d
  <2>1. d \in Int /\ s + Len(new) = end + 1 + d
    BY <1>1, <1>5, <1>6
  <2>2. QED
    BY <1>7, <2>1 DEF IsSplice
<1> HIDE DEF d
<1>9. ListOf(result, k)[end + 1 + d] = ListOf(text, k)[end + 1]
  <2>1. end <= Len(text) /\ end + d >= 0
    BY <1>1, <1>5, <1>6, <1>8
  <2>2. QED
    BY <2>1, <1>4, <1>6, <1>8, SeenMoved
<1>10. ListOf(text, k)[end + 1] = ListOf(text, k)[m]
  <2> DEFINE a == end + 1
  <2>1. a \in 1..(Len(lines) + 1) /\ m \in a..(Len(lines) + 1)
        /\ \A r \in a..(m - 1) : r \in (s + 1)..(m - 1)
    BY <1>1, <1>2, <1>3, <1>6
  <2> HIDE DEF a
  <2>2. FirstFrom(lines, a, m)
    BY <2>1, <1>3 DEF FirstFrom
  <2>3. NothingBetween(lines, text, a, m, k)
    BY <2>1, <2>2, BetweenEntries
  <2>4. QED
    BY <2>3 DEF NothingBetween, a
<1>11. QED
  BY <1>7, <1>8, <1>9, <1>10 DEF BelowShows, end, result

\* With new in its place, and without, nothing is seen of the entry at s.
EntryIsMute(lines, text, s, m, e, new, k) ==
  /\ ListOf(Splice(text, e, new), k)[s] = ListOf(text, k)[m]
  /\ ListOf(lines, k)[s] = ListOf(lines, k)[m]

LEMMA ShowsSameReplaced ==
  ASSUME NEW lines \in Seq(Line), NEW text, NEW ks, NEW s \in Starts(lines), NEW m,
         FirstFrom(lines, s + 1, m), Agrees(lines, text, ks, m),
         NEW e, e.start = s, e.end = EndOf(lines, s),
         NEW new, IsBlock(new), IsOfKey(lines[s].key, new), NEW k, k # lines[s].key
  PROVE  EntryIsMute(lines, text, s, m, e, new, k)
<1> DEFINE result == Splice(text, e, new)
<1>1. s \in 1..Len(lines) /\ Len(lines) \in Nat /\ s \in Nat /\ s + 1 \in 1..(Len(lines) + 1)
  BY DEF Starts
<1>2. /\ IsSplice(text, s, EndOf(lines, s), new, result)
      /\ ListOf(result, k)[s + Len(new)] = ListOf(text, k)[m]
  <2>1. BelowShows(lines, text, s, m, e, new, k)
    BY ShownBelowReplaced
  <2>2. QED
    BY <2>1 DEF BelowShows
<1>3. new \in Seq(Line) /\ Len(new) \in Nat /\ Len(new) >= 1
  BY EmptySeq DEF IsBlock
<1>4. EndOf(lines, s) \in s..Len(lines) /\ EndOf(lines, s) < m
  BY <1>1, EndExists, StandsStill DEF EndsAt
<1>5. text \in Seq(Line) /\ Len(text) \in Nat /\ m - 1 <= Len(text)
  BY DEF Agrees
<1> HIDE DEF result
<1>6. /\ result \in Seq(Line) /\ s + Len(new) \in s..(Len(result) + 1) /\ s \in 1..(Len(result) + 1)
      /\ \A i \in 1..Len(new) : result[s - 1 + i] = new[i]
  <2> DEFINE end == EndOf(lines, s)
  <2>1. end \in s..Len(lines) /\ end < m /\ m \in (s + 1)..(Len(lines) + 1) /\ IsSplice(text, s, end, new, result)
    BY <1>2, <1>4 DEF FirstFrom
  <2> HIDE DEF end
  <2>2. end \in Nat /\ end <= Len(text)
    BY <2>1, <1>1, <1>5
  <2>3. Len(result) = Len(text) + (Len(new) - (end - s + 1))
    BY <2>1 DEF IsSplice
  <2>4. s + Len(new) \in s..(Len(result) + 1) /\ s \in 1..(Len(result) + 1)
    BY <2>1, <2>2, <2>3, <1>1, <1>3, <1>5
  <2>5. QED
    BY <2>1, <2>4 DEF IsSplice
<1>7. \A r \in s..((s + Len(new)) - 1) : ~EntryOf(result, k, r)
  <2> TAKE r \in s..((s + Len(new)) - 1)
  <2>1. r - (s - 1) \in 1..Len(new) /\ s - 1 + (r - (s - 1)) = r
    BY <1>1, <1>3
  <2>2. result[r] = new[r - (s - 1)]
    BY <2>1, <1>6
  <2>3. QED
    BY <2>1, <2>2 DEF IsOfKey, EntryOf
<1>8. ListOf(result, k)[s] = ListOf(result, k)[s + Len(new)]
  BY <1>6, <1>7, SeenBelow
<1>9. ListOf(lines, k)[s] = ListOf(lines, k)[m]
  <2> DEFINE a == s + 1
  <2>1. ListOf(lines, k)[s] = ListOf(lines, k)[a]
    BY SeenAtEntry, Zenon
  <2>2. a \in 1..(Len(lines) + 1) /\ FirstFrom(lines, a, m)
    BY <1>1
  <2> HIDE DEF a
  <2>3. NothingBetween(lines, text, a, m, k)
    BY <2>2, BetweenEntries
  <2>4. QED
    BY <2>1, <2>3 DEF NothingBetween
<1>10. QED
  BY <1>2, <1>8, <1>9 DEF EntryIsMute, result

\* What holds of the text as it was, below its last line, and is handed upwards
\* from entry to entry, holds of the text once it is rewritten.
LEMMA BottomUp ==
  ASSUME NEW lines \in Seq(Line), NEW updates, AreUpdates(updates), NEW Good,
         <<lines, Len(lines) + 1>> \in Good,
         ASSUME NEW s \in Starts(lines), NEW text, NEW m, FirstFrom(lines, s + 1, m),
                Agrees(lines, text, DOMAIN updates, m), <<text, m>> \in Good
         PROVE  /\ s \in Targeted(lines, updates) => <<EntryRewritten(lines, updates, s, text), s>> \in Good
                /\ s \notin Targeted(lines, updates) => <<text, s>> \in Good
  PROVE  \E n : /\ FirstFrom(lines, 1, n) /\ Agrees(lines, Rewritten(lines, updates), DOMAIN updates, n)
                /\ <<Rewritten(lines, updates), n>> \in Good
<1> DEFINE ks == DOMAIN updates
           len == Len(lines)
<1>1. len \in Nat
  OBVIOUS
<1>2. PICK f : Unrolls(lines, updates, f) /\ Rewritten(lines, updates) = f[1]
  BY RewrittenUnrolls, UpdatesAreTexts
<1>3. \A s \in 1..(len + 1) : \A n : FirstFrom(lines, s, n) => Agrees(lines, f[s], ks, n)
  BY <1>2, UnrolledAgrees
<1> DEFINE S == {s \in 1..(len + 1) : \A n : FirstFrom(lines, s, n) => <<f[s], n>> \in Good}
<1>4. len + 1 \in S
  BY <1>1, <1>2 DEF Unrolls, FirstFrom
<1>5. ASSUME NEW s \in 1..len, s + 1 \in S, NEW n, FirstFrom(lines, s, n)
      PROVE  <<f[s], n>> \in Good
  <2>1. s + 1 \in 1..(len + 1) /\ s \in Nat
    BY <1>1
  <2>2. PICK m : FirstFrom(lines, s + 1, m)
    BY <2>1, FirstExists
  <2>3. Agrees(lines, f[s + 1], ks, m) /\ <<f[s + 1], m>> \in Good
    BY <2>1, <2>2, <1>3, <1>5
  <2>4. CASE s \in Starts(lines)
    <3>1. n = s
      <4>1. n \in s..(len + 1) /\ \A r \in s..(n - 1) : r \notin Starts(lines)
        BY <1>5 DEF FirstFrom
      <4>2. n # s => s \in s..(n - 1)
        BY <4>1, <2>1, <1>1
      <4>3. QED
        BY <4>1, <4>2, <2>4
    <3>2. CASE s \in Targeted(lines, updates)
      <4>1. <<EntryRewritten(lines, updates, s, f[s + 1]), s>> \in Good
        BY <2>2, <2>3, <2>4, <3>2
      <4>2. EntryRewritten(lines, updates, s, f[s + 1]) \in Seq(Line)
        BY <2>2, <2>3, <2>4, <3>2, EntryRewrittenAgrees DEF Agrees, Targeted
      <4>3. f[s] = EntryRewritten(lines, updates, s, f[s + 1])
        BY <4>2, <3>2, <1>2 DEF Unrolls
      <4>4. QED
        BY <4>1, <4>3, <3>1
    <3>3. CASE s \notin Targeted(lines, updates)
      <4>1. f[s] = f[s + 1]
        BY <3>3, <1>2 DEF Unrolls
      <4>2. <<f[s + 1], s>> \in Good
        BY <2>2, <2>3, <2>4, <3>3
      <4>3. QED
        BY <4>1, <4>2, <3>1
    <3>4. QED
      BY <3>2, <3>3
  <2>5. CASE s \notin Starts(lines)
    <3>1. s \notin Targeted(lines, updates)
      BY <2>5 DEF Targeted
    <3>2. f[s] = f[s + 1]
      BY <3>1, <1>2 DEF Unrolls
    <3>3. n # s
      BY <2>5, <1>1, <1>5 DEF FirstFrom
    <3>4. FirstFrom(lines, s + 1, n)
      BY <3>3, <2>1, <1>1, <1>5 DEF FirstFrom
    <3>5. QED
      BY <3>2, <3>4, <1>5
  <2>6. QED
    BY <2>4, <2>5
<1>6. \A s \in 1..((len + 1) - 1) : s + 1 \in S => s \in S
  BY <1>1, <1>5
<1> HIDE DEF S
<1>7. 1 \in S
  <2>1. 1 \in Nat /\ len + 1 \in Nat /\ 1 <= len + 1 /\ 1 \in 1..(len + 1)
    BY <1>1
  <2> HIDE DEF len
  <2>2. \A s \in 1..(len + 1) : s \in S
    BY <2>1, <1>4, <1>6, Upwards
  <2>3. QED
    BY <2>1, <2>2
<1>8. PICK n : FirstFrom(lines, 1, n)
  BY <1>1, FirstExists
<1>9. Agrees(lines, f[1], ks, n) /\ <<f[1], n>> \in Good
  BY <1>1, <1>3, <1>7, <1>8 DEF S
<1>10. QED
  BY <1>2, <1>8, <1>9

\* An entry that is rewritten, as a splice of its replacement.
LEMMA RewrittenIsSpliced ==
  ASSUME NEW lines \in Seq(Line), NEW updates, AreRows(updates), NEW s \in Targeted(lines, updates), NEW text
  PROVE  LET e   == EntryAt(lines, s)
             new == Replacement(e, updates[lines[s].key])
         IN  /\ e.key = lines[s].key /\ e.start = s /\ e.end = EndOf(lines, s)
             /\ IsBlock(new) /\ IsOfKey(lines[s].key, new)
             /\ EntryRewritten(lines, updates, s, text) = Splice(text, e, new)
<1> DEFINE e == EntryAt(lines, s)
           new == Replacement(e, updates[e.key])
<1>1. e.key = lines[s].key /\ e.start = s /\ e.end = EndOf(lines, s)
  BY DEF EntryAt
<1>2. s \in Starts(lines) /\ lines[s].key \in DOMAIN updates
  BY DEF Targeted
<1>3. IsRow(lines[s].key, updates[e.key].value) /\ IsValue(updates[e.key].value) /\ updates[e.key].value \in Seq(Line)
  BY <1>1, <1>2, RowIsValue DEF AreRows, IsRow
<1>4. IsBlock(new) /\ IsOfKey(lines[s].key, new)
  BY <1>2, <1>3, ReplacementIsBlock, ReplacementIsOfKey
<1>5. EntryRewritten(lines, updates, s, text) = Splice(text, e, new)
  BY DEF EntryRewritten
<1>6. QED
  BY <1>1, <1>4, <1>5

LEMMA RewrittenShowsSame ==
  ASSUME NEW lines \in Seq(Line), NEW updates, AreRows(updates)
  PROVE  \A k \in Keys \ DOMAIN updates : Seen(Rewritten(lines, updates), k) = Seen(lines, k)
<1> DEFINE ks == DOMAIN updates
           Good == {p \in Seq(Line) \X (1..(Len(lines) + 1)) : ShowsSame(lines, p[1], ks, p[2])}
<1>1. Len(lines) \in Nat /\ AreUpdates(updates)
  BY RowsAreUpdates
<1>2. <<lines, Len(lines) + 1>> \in Good
  BY <1>1 DEF ShowsSame
<1>3. ASSUME NEW s \in Starts(lines), NEW text, NEW m, FirstFrom(lines, s + 1, m),
             Agrees(lines, text, ks, m), <<text, m>> \in Good
      PROVE  /\ s \in Targeted(lines, updates) => <<EntryRewritten(lines, updates, s, text), s>> \in Good
             /\ s \notin Targeted(lines, updates) => <<text, s>> \in Good
  <2>1. ShowsSame(lines, text, ks, m) /\ text \in Seq(Line) /\ s \in 1..(Len(lines) + 1)
    BY <1>1, <1>3 DEF Starts
  <2>2. ASSUME s \in Targeted(lines, updates)
        PROVE  <<EntryRewritten(lines, updates, s, text), s>> \in Good
    <3> DEFINE e == EntryAt(lines, s)
               new == Replacement(e, updates[lines[s].key])
               result == EntryRewritten(lines, updates, s, text)
    <3>1. /\ e.start = s /\ e.end = EndOf(lines, s) /\ IsBlock(new) /\ IsOfKey(lines[s].key, new)
          /\ result = Splice(text, e, new)
      BY <2>2, RewrittenIsSpliced
    <3>2. lines[s].key \in ks
      BY <2>2 DEF Targeted
    <3>3. result \in Seq(Line)
      BY <3>2, <1>1, <1>3, EntryRewrittenAgrees DEF Agrees
    <3> HIDE DEF e, new, result
    <3>4. \A k \in Keys \ ks : ListOf(result, k)[s] = ListOf(lines, k)[s]
      <4> TAKE k \in Keys \ ks
      <4>1. k # lines[s].key
        BY <3>2
      <4>2. ListOf(result, k)[s] = ListOf(text, k)[m] /\ ListOf(lines, k)[s] = ListOf(lines, k)[m]
        <5>1. EntryIsMute(lines, text, s, m, e, new, k)
          BY <4>1, <3>1, <1>3, ShowsSameReplaced
        <5>2. QED
          BY <5>1, <3>1 DEF EntryIsMute
      <4>3. QED
        BY <4>2, <2>1 DEF ShowsSame
    <3>5. QED
      BY <3>3, <3>4, <2>1 DEF ShowsSame, result
  <2>3. ASSUME s \notin Targeted(lines, updates) PROVE <<text, s>> \in Good
    <3>1. ShowsSame(lines, text, ks, s)
      BY <2>1, <1>3, ShowsSameAbove
    <3>2. QED
      BY <3>1, <2>1
  <2>4. QED
    BY <2>2, <2>3
<1> HIDE DEF Good
<1>4. PICK n : /\ FirstFrom(lines, 1, n) /\ Agrees(lines, Rewritten(lines, updates), ks, n)
               /\ <<Rewritten(lines, updates), n>> \in Good
  BY <1>1, <1>2, <1>3, BottomUp
<1>5. Rewritten(lines, updates) \in Seq(Line) /\ ShowsSame(lines, Rewritten(lines, updates), ks, n)
  BY <1>4 DEF Good
<1>6. QED
  <2> TAKE k \in Keys \ ks
  <2>1. 1 \in 1..(Len(lines) + 1)
    BY <1>1
  <2>2. NothingBetween(lines, Rewritten(lines, updates), 1, n, k)
    BY <2>1, <1>4, BetweenEntries
  <2>3. QED
    BY <2>2, <1>5, SeenIsListed DEF ShowsSame, NothingBetween

\* Two texts that are the same but for the blank lines that one ends with, and
\* what is below them in the other.
LEMMA PrefixShowsSame ==
  ASSUME NEW lines \in Seq(Line), NEW text \in Seq(Line), NEW n \in 0..Len(lines),
         n <= Len(text), \A i \in 1..n : text[i] = lines[i],
         \A i \in (n + 1)..Len(lines) : IsBlank(lines[i]),
         n < Len(text) => ~text[n + 1].indent, NEW k,
         ListOf(text, k)[n + 1] = <<>>
  PROVE  Seen(text, k) = Seen(lines, k)
<1> DEFINE f == ListOf(text, k)
           g == ListOf(lines, k)
           S == {s \in 1..(n + 1) : f[s] = g[s]}
<1>1. /\ Len(lines) \in Nat /\ Len(text) \in Nat /\ n \in Nat
      /\ 1 \in Nat /\ n + 1 \in Nat /\ 1 <= n + 1 /\ 1 \in 1..(n + 1) /\ n + 1 \in 1..(n + 1)
  OBVIOUS
<1>2. /\ Lists(text, k, f) /\ Lists(lines, k, g)
      /\ Seen(text, k) = f[1] /\ Seen(lines, k) = g[1]
  BY SeenIsListed
<1>3. g[n + 1] = <<>>
  <2>1. \A r \in (n + 1)..((Len(lines) + 1) - 1) : ~EntryOf(lines, k, r)
    BY <1>1, BlankStandsApart DEF EntryOf
  <2>2. n + 1 \in 1..(Len(lines) + 1) /\ Len(lines) + 1 \in (n + 1)..(Len(lines) + 1)
    BY <1>1
  <2>3. g[n + 1] = g[Len(lines) + 1]
    BY <2>1, <2>2, SeenBelow
  <2>4. QED
    BY <2>3, <1>2 DEF Lists
<1>4. f[n + 1] = <<>>
  OBVIOUS
<1> HIDE DEF f, g
<1>5. n + 1 \in S
  BY <1>1, <1>3, <1>4
<1>6. ASSUME NEW s \in 1..((n + 1) - 1), s + 1 \in S PROVE s \in S
  <2>1. s \in 1..Len(lines) /\ s \in 1..Len(text) /\ s \in 1..n /\ s \in 1..(n + 1)
    BY <1>1
  <2>2. f[s + 1] = g[s + 1] /\ text[s] = lines[s]
    BY <1>6, <2>1
  <2>3. CASE EntryOf(lines, k, s)
    <3>1. EntryOf(text, k, s) /\ s \in Starts(lines)
      BY <2>1, <2>2, <2>3 DEF EntryOf, Starts
    <3>2. StandsAt(lines, s, EndOf(lines, s), text, s)
      BY <3>1, PrefixStands
    <3>3. SameEntry(EntryAt(text, s), EntryAt(lines, s))
      BY <3>1, <3>2, EntryStays
    <3>4. Shown(EntryAt(text, s)) = Shown(EntryAt(lines, s))
      BY <3>3, SameIsShown
    <3>5. f[s] = <<Shown(EntryAt(text, s))>> \o f[s + 1] /\ g[s] = <<Shown(EntryAt(lines, s))>> \o g[s + 1]
      BY <3>1, <2>1, <2>3, <1>2 DEF Lists
    <3>6. f[s] = g[s]
      BY <3>4, <3>5, <2>2, Zenon
    <3>7. QED
      BY <3>6, <2>1
  <2>4. CASE ~EntryOf(lines, k, s)
    <3>1. ~EntryOf(text, k, s)
      BY <2>2, <2>4 DEF EntryOf
    <3>2. f[s] = f[s + 1] /\ g[s] = g[s + 1]
      BY <3>1, <2>1, <2>4, <1>2 DEF Lists
    <3>3. QED
      BY <3>2, <2>1, <2>2
  <2>5. QED
    BY <2>3, <2>4
<1> HIDE DEF S
<1>7. \A s \in 1..(n + 1) : s \in S
  BY <1>1, <1>5, <1>6, Upwards
<1>8. 1 \in S
  BY <1>1, <1>7
<1>9. QED
  BY <1>2, <1>8 DEF S

LEMMA RejoinShowsSame ==
  ASSUME NEW lines \in Seq(Line), NEW k
  PROVE  Seen(Rejoin(lines), k) = Seen(lines, k)
<1>1. Len(lines) \in Nat
  OBVIOUS
<1>2. CASE lines = <<>>
  <2> DEFINE text == <<Blank>>
  <2>1. Rejoin(lines) = text
    BY <1>2 DEF Rejoin
  <2>2. text \in Seq(Line) /\ Len(text) = 1 /\ text[1] = Blank /\ ~text[1].indent /\ ~IsEntryLine(text[1])
    BY BlankIsLine
  <2> HIDE DEF text
  <2>3. ListOf(text, k)[1] = <<>>
    <3>1. Lists(text, k, ListOf(text, k))
      BY <2>2, SeenIsListed
    <3>2. ~EntryOf(text, k, 1) /\ 1 \in 1..Len(text)
      BY <2>2 DEF EntryOf
    <3>3. ListOf(text, k)[1] = ListOf(text, k)[1 + 1] /\ ListOf(text, k)[1 + 1] = <<>>
      BY <3>1, <3>2, <2>2 DEF Lists
    <3>4. QED
      BY <3>3
  <2>4. Len(lines) = 0 /\ 0 \in 0..Len(lines) /\ 0 <= Len(text) /\ 0 + 1 = 1
    BY <1>2, <2>2
  <2>5. Seen(text, k) = Seen(lines, k)
    <3>1. \A i \in 1..0 : text[i] = lines[i]
      OBVIOUS
    <3>2. \A i \in (0 + 1)..Len(lines) : IsBlank(lines[i])
      BY <2>4
    <3>3. 0 < Len(text) => ~text[0 + 1].indent
      BY <2>2, <2>4
    <3>4. ListOf(text, k)[0 + 1] = <<>>
      BY <2>3, <2>4
    <3> DEFINE n == 0
    <3>5. n \in 0..Len(lines) /\ n <= Len(text) /\ (\A i \in 1..n : text[i] = lines[i])
      BY <2>4, <3>1
    <3>6. (\A i \in (n + 1)..Len(lines) : IsBlank(lines[i])) /\ (n < Len(text) => ~text[n + 1].indent)
      BY <3>2, <3>3
    <3>7. ListOf(text, k)[n + 1] = <<>>
      BY <3>4
    <3> HIDE DEF n
    <3>8. QED
      BY <2>2, <3>5, <3>6, <3>7, PrefixShowsSame
  <2>6. QED
    BY <2>1, <2>5
<1>3. CASE Len(lines) > 1 /\ Last(lines) = Blank
  <2> DEFINE n == Len(lines) - 1
             text == Front(lines)
  <2>1. Rejoin(lines) = text
    <3>1. lines # <<>>
      BY <1>1, <1>3
    <3>2. QED
      BY <3>1, <1>3 DEF Rejoin
  <2>2. text = SubSeq(lines, 1, n) /\ lines[n + 1] = Blank /\ n \in 0..Len(lines) /\ n + 1 = Len(lines)
    BY <1>1, <1>3 DEF Front, Last
  <2>3. text \in Seq(Line) /\ Len(text) = n /\ \A i \in 1..n : text[i] = lines[i]
    <3>1. 1 \in 1..(Len(lines) + 1) /\ n \in (1 - 1)..Len(lines)
      BY <2>2, <1>1
    <3>2. /\ SubSeq(lines, 1, n) \in Seq(Line) /\ Len(SubSeq(lines, 1, n)) = n - 1 + 1
          /\ \A i \in 1..(n - 1 + 1) : SubSeq(lines, 1, n)[i] = lines[1 + i - 1]
      BY <3>1, PartPlaces
    <3>3. QED
      BY <3>2, <2>2, <1>1
  <2> HIDE DEF text
  <2>4. ListOf(text, k)[n + 1] = <<>>
    BY <2>3, SeenIsListed DEF Lists
  <2>5. \A i \in (n + 1)..Len(lines) : IsBlank(lines[i])
    BY <2>2, <1>1, BlankIsLine
  <2>6. n <= Len(text) /\ (n < Len(text) => ~text[n + 1].indent) /\ (\A i \in 1..n : text[i] = lines[i])
    BY <2>2, <2>3, <1>1
  <2>7. n \in 0..Len(lines) /\ text \in Seq(Line)
    BY <2>2, <2>3
  <2> HIDE DEF n
  <2>8. Seen(text, k) = Seen(lines, k)
    BY <2>4, <2>5, <2>6, <2>7, PrefixShowsSame
  <2>9. QED
    BY <2>1, <2>8 DEF text
<1>4. CASE lines # <<>> /\ ~(Len(lines) > 1 /\ Last(lines) = Blank)
  BY <1>4 DEF Rejoin
<1>5. QED
  BY <1>1, <1>2, <1>3, <1>4

\* Whatever is sent for some keys, what is seen of the others is what was.
LEMMA OthersShowTheSame ==
  ASSUME NEW lines \in Seq(Line), NEW updates, AreRows(updates), NEW k \in Keys \ DOMAIN updates
  PROVE  Seen(ApplyUpdates(lines, updates), k) = Seen(lines, k)
<1>1. Rewritten(lines, updates) \in Seq(Line)
  BY RewrittenKeeps, RowsAreUpdates
<1>2. Seen(Rewritten(lines, updates), k) = Seen(lines, k)
  BY RewrittenShowsSame
<1>3. QED
  BY <1>1, <1>2, RejoinShowsSame DEF ApplyUpdates

-----------------------------------------------------------------------------
(* What the form sends.                                                    *)

LEMMA RowSendsText ==
  ASSUME NEW lines \in Seq(Line), NEW e \in Entries(lines), NEW upd \in RowUpdates(e)
  PROVE  e.key \in Keys /\ upd.value \in Seq(Line)
<1>1. PICK s \in Starts(lines) : e = EntryAt(lines, s)
  BY DEF Entries
<1>2. e.key = lines[s].key /\ IsEntryLine(lines[s]) /\ lines[s] \in Line
  BY <1>1 DEF EntryAt, Starts
<1>3. e.key \in Keys /\ e.value \in Seq(Line)
  BY <1>1, <1>2, EntryLines, EntryValue DEF IsValue
<1>4. upd.value \in BlockInputs(e) \cup LineInputs(e)
  BY DEF RowUpdates
<1>5. Blocks \subseteq Seq(Line)
  BY EditingAssumption
<1>6. ASSUME NEW text \in Typed PROVE (IF text = Empty THEN <<>> ELSE <<Words(text)>>) \in Seq(Line)
  <2>1. text \in Texts
    BY EditingAssumption
  <2>2. Words(text) \in Line
    BY <2>1, BlankIsLine
  <2>3. QED
    BY <2>2
<1>7. QED
  BY <1>3, <1>4, <1>5, <1>6 DEF BlockInputs, LineInputs

LEMMA FormSends ==
  ASSUME NEW lines, NEW updates \in FormUpdates(lines)
  PROVE  \A k \in DOMAIN updates : \E e \in Entries(lines) : e.key = k /\ updates[k] \in RowUpdates(e)
<1> DEFINE Of(k) == UNION {RowUpdates(e) : e \in {x \in Entries(lines) : x.key = k}}
           shown == {e.key : e \in Entries(lines)}
           Forms(ks) == {u \in [ks -> UNION {Of(k) : k \in ks}] : \A k \in ks : u[k] \in Of(k)}
<1>1. FormUpdates(lines) = UNION {Forms(ks) : ks \in {ks \in SUBSET shown : Cardinality(ks) \in 1..MaxKeys}}
  BY Zenon DEF FormUpdates
<1> HIDE DEF Forms
<1>2. PICK ks \in SUBSET shown : updates \in Forms(ks)
  BY <1>1
<1>3. DOMAIN updates = ks /\ \A k \in ks : updates[k] \in Of(k)
  BY <1>2 DEF Forms
<1>4. QED
  BY <1>3

LEMMA FormSendsTexts ==
  ASSUME NEW lines \in Seq(Line), NEW updates \in FormUpdates(lines)
  PROVE  AreTexts(updates)
<1>1. ASSUME NEW k \in DOMAIN updates PROVE k \in Keys /\ updates[k].value \in Seq(Line)
  <2>1. PICK e \in Entries(lines) : e.key = k /\ updates[k] \in RowUpdates(e)
    BY FormSends
  <2>2. QED
    BY <2>1, RowSendsText
<1>2. QED
  BY <1>1 DEF AreTexts

-----------------------------------------------------------------------------
(* What is seen of the keys that are updated.                              *)

\* What a row sends: the input of a line, or that of a block.
IsLineInput(value) == value = <<>> \/ \E text \in Texts \ {Empty} : value = <<Words(text)>>

Sends(k, upd, multiline) ==
  /\ upd.enabled \in BOOLEAN /\ ~upd.keep /\ multiline \in BOOLEAN
  /\ IF multiline THEN IsBlockOf(k, upd.value) ELSE IsLineInput(upd.value)

\* The lines that a row's input is rendered as: one of the key, the others
\* going on with it.
IsEntryText(k, enabled, new) ==
  /\ new \in Seq(Line) /\ new # <<>>
  /\ new[1].key = k /\ ~new[1].indent
  /\ \A i \in 1..Len(new) : new[i].hash = IF enabled THEN 0 ELSE 1
  /\ \A i \in 2..Len(new) : new[i].indent /\ ~HasNothing(new[i])

\* The input of a line has no empty lines to strip.
LEMMA LineInputBody ==
  ASSUME NEW value, IsLineInput(value)
  PROVE  Stripped(value) = value
<1>1. CASE value = <<>>
  BY <1>1, StrippedOne
<1>2. CASE \E t \in Texts \ {Empty} : value = <<Words(t)>>
  <2>1. PICK t \in Texts \ {Empty} : value = <<Words(t)>>
    BY <1>2
  <2>2. Words(t) \in Line /\ Words(t) # Blank
    BY BlankIsLine DEF Words, Setting, Blank
  <2>3. QED
    BY <2>1, <2>2, StrippedOne
<1>3. QED
  BY <1>1, <1>2 DEF IsLineInput

LEMMA MarkedLines ==
  ASSUME NEW line \in Line, line.hash = 0, NEW enabled \in BOOLEAN
  PROVE  LET marked == IF enabled THEN line ELSE Comment(line) IN
         /\ marked \in Line /\ marked.hash = (IF enabled THEN 0 ELSE 1)
         /\ marked.indent = line.indent /\ marked.key = line.key /\ marked.text = line.text
         /\ Uncomment(marked) = line
<1>1. CASE enabled
  BY <1>1 DEF Uncomment, Line
<1>2. CASE ~enabled
  <2>1. Comment(line) = [line EXCEPT !.hash = 1]
    BY DEF Comment, Line
  <2>2. Comment(line) \in Line /\ Comment(line).hash = 1
    BY <2>1 DEF Line
  <2>3. Uncomment(Comment(line)) = [Comment(line) EXCEPT !.hash = 0]
    BY <2>2 DEF Uncomment
  <2>4. Uncomment(Comment(line)) = line
    BY <2>1, <2>3 DEF Line
  <2>5. QED
    BY <1>2, <2>1, <2>2, <2>4 DEF Line
<1>3. QED
  BY <1>1, <1>2

\* The lines new stand in text from line s on, and it does not go on with them.
Opens(text, s, new, enabled) ==
  /\ s - 1 + Len(new) <= Len(text) /\ \A i \in 1..Len(new) : text[s - 1 + i] = new[i]
  /\ \/ s - 1 + Len(new) = Len(text)
     \/ ~GoesOn(text[s + Len(new)], IF enabled THEN 0 ELSE 1)

\* The entry of k at line s shows what was sent.
ShowsAt(text, s, k, upd) ==
  /\ s \in Starts(text) /\ text[s].key = k
  /\ Shown(EntryAt(text, s)) = [enabled |-> upd.enabled, value |-> upd.value]

\* A text that begins with the lines that were sent shows what was sent.
LEMMA EntryTextShows ==
  ASSUME NEW k \in Keys, NEW upd, NEW multiline, Sends(k, upd, multiline),
         NEW new, new = RenderEntryLines(k, upd.enabled, upd.value, multiline),
         NEW text \in Seq(Line), NEW s \in Nat, s >= 1, Opens(text, s, new, upd.enabled)
  PROVE  IsEntryText(k, upd.enabled, new) /\ ShowsAt(text, s, k, upd) /\ EndOf(text, s) = s - 1 + Len(new)
<1> DEFINE enabled == upd.enabled
           value == upd.value
           hash == IF enabled THEN 0 ELSE 1
           Mark(line) == IF enabled THEN line ELSE Comment(line)
           last == s - 1 + Len(new)
<1>1. enabled \in BOOLEAN /\ multiline \in BOOLEAN /\ hash \in {0, 1}
      /\ (multiline => IsBlockOf(k, value)) /\ (~multiline => IsLineInput(value))
  BY DEF Sends
<1>15. (IF multiline THEN value ELSE Stripped(value)) = value
  BY <1>1, LineInputBody
<1>2. new = CASE value = <<>> -> <<Mark(Setting(k, Empty))>>
              [] value # <<>> /\ multiline -> [i \in DOMAIN value |-> Mark(value[i])]
              [] value # <<>> /\ ~multiline -> <<Mark(Setting(k, AsText(Head(value))))>> \o Tail(value)
  BY <1>15 DEF RenderEntryLines
<1>3. \A line \in Line : line.hash = 0 =>
        /\ Mark(line) \in Line /\ Mark(line).hash = hash
        /\ Mark(line).indent = line.indent /\ Mark(line).key = line.key /\ Mark(line).text = line.text
        /\ Uncomment(Mark(line)) = line
  BY <1>1, MarkedLines
<1> HIDE DEF Mark, enabled, value, hash
<1>0. /\ s - 1 + Len(new) <= Len(text) /\ \A i \in 1..Len(new) : text[s - 1 + i] = new[i]
      /\ \/ s - 1 + Len(new) = Len(text)
         \/ ~GoesOn(text[s + Len(new)], hash)
  BY DEF Opens, hash, enabled
\* A line of its own ...
<1>4. ASSUME ~multiline
      PROVE  \E t \in Texts : /\ new = <<Mark(Setting(k, t))>>
                              /\ value = IF t = Empty THEN <<>> ELSE <<Words(t)>>
  <2>1. CASE value = <<>>
    BY <1>2, <1>4, <2>1, GroupVarsAssumption
  <2>2. CASE value # <<>>
    <3>1. PICK t \in Texts \ {Empty} : value = <<Words(t)>>
      BY <1>1, <1>4, <2>2 DEF IsLineInput
    <3> DEFINE line == Words(t)
               top == Mark(Setting(k, t))
    <3>2. AsText(line) = t
      BY DEF AsText, Words, Setting
    <3>3. line \in Line
      BY BlankIsLine
    <3> HIDE DEF line
    <3>4. Head(value) = line /\ Tail(value) = <<>>
      BY <3>1 DEF line
    <3>5. new = <<top>> \o <<>>
      BY <1>2, <1>4, <2>2, <3>2, <3>4
    <3>6. top \in Line
      <4>1. Setting(k, t) \in Line /\ Setting(k, t).hash = 0
        BY SettingIsLine DEF Setting
      <4>2. QED
        BY <4>1, <1>3
    <3> HIDE DEF top
    <3>7. new = <<top>>
      BY <3>5, <3>6
    <3>8. QED
      BY <3>1, <3>7 DEF top
  <2>3. QED
    BY <2>1, <2>2
\* ... or a block.
<1>5. ASSUME multiline
      PROVE  /\ value \in Seq(Line) /\ Len(value) > 1 /\ Len(new) = Len(value)
             /\ \A i \in 1..Len(value) : value[i].hash = 0 /\ value[i] \in Line /\ new[i] = Mark(value[i])
             /\ value[1].key = k /\ ~value[1].indent
             /\ \A i \in 2..Len(value) : value[i].indent /\ ~HasNothing(value[i])
             /\ new \in Seq(Line)
  <2>1. /\ value \in Seq(Line) /\ Len(value) > 1
        /\ value[1].key = k /\ ~value[1].indent /\ value[1].hash = 0
        /\ \A i \in 2..Len(value) : value[i].indent /\ value[i].hash = 0 /\ ~HasNothing(value[i])
    BY <1>1, <1>5 DEF IsBlockOf, IsActive, GoesOn
  <2>2. value # <<>> /\ DOMAIN value = 1..Len(value) /\ Len(value) \in Nat
    BY <2>1
  <2>3. new = [i \in 1..Len(value) |-> Mark(value[i])]
    BY <1>2, <1>5, <2>2
  <2>4. \A i \in 1..Len(value) : value[i].hash = 0 /\ value[i] \in Line /\ Mark(value[i]) \in Line
    <3> TAKE i \in 1..Len(value)
    <3>1. value[i] \in Line /\ (i = 1 \/ i \in 2..Len(value))
      BY <2>1, <2>2
    <3>2. QED
      BY <3>1, <2>1, <1>3
  <2>5. Len(new) = Len(value) /\ new \in Seq(Line) /\ \A i \in 1..Len(value) : new[i] = Mark(value[i])
    BY <2>2, <2>3, <2>4
  <2>6. QED
    BY <2>1, <2>4, <2>5
<1>6. /\ new \in Seq(Line) /\ new # <<>> /\ new[1].key = k /\ ~new[1].indent
      /\ \A i \in 1..Len(new) : new[i].hash = hash
      /\ \A i \in 2..Len(new) : new[i].indent /\ ~HasNothing(new[i])
  <2>1. CASE ~multiline
    <3>1. PICK t \in Texts : new = <<Mark(Setting(k, t))>>
      BY <1>4, <2>1
    <3> DEFINE top == Mark(Setting(k, t))
    <3>2. Setting(k, t) \in Line /\ Setting(k, t).hash = 0 /\ Setting(k, t).key = k /\ ~Setting(k, t).indent
      BY SettingIsLine DEF Setting
    <3>3. top \in Line /\ top.hash = hash /\ top.key = k /\ ~top.indent
      BY <3>2, <1>3
    <3> HIDE DEF top
    <3>4. new = <<top>>
      BY <3>1 DEF top
    <3>5. new \in Seq(Line) /\ new # <<>> /\ Len(new) = 1 /\ new[1] = top
      BY <3>3, <3>4
    <3>6. QED
      BY <3>3, <3>5
  <2>2. CASE multiline
    <3>1. /\ value \in Seq(Line) /\ Len(value) > 1 /\ Len(new) = Len(value)
          /\ \A i \in 1..Len(value) : value[i].hash = 0 /\ value[i] \in Line /\ new[i] = Mark(value[i])
          /\ value[1].key = k /\ ~value[1].indent
          /\ \A i \in 2..Len(value) : value[i].indent /\ ~HasNothing(value[i])
          /\ new \in Seq(Line)
      BY <1>5, <2>2, Zenon
    <3>2. \A i \in 1..Len(new) : /\ new[i].hash = hash /\ new[i].indent = value[i].indent
                                  /\ new[i].key = value[i].key /\ new[i].text = value[i].text
      BY <1>3, <3>1
    <3>5. \A i \in 1..Len(new) : HasNothing(new[i]) <=> HasNothing(value[i])
      BY <3>2 DEF HasNothing
    <3>3. 1 \in 1..Len(new) /\ new # <<>> /\ \A i \in 2..Len(new) : i \in 1..Len(new) /\ i \in 2..Len(value)
      BY <3>1
    <3>4. QED
      BY <3>1, <3>2, <3>3, <3>5
  <2>3. QED
    BY <1>1, <2>1, <2>2
<1>7. /\ new \in Seq(Line) /\ Len(new) \in Nat /\ Len(new) >= 1
      /\ new[1].key = k /\ ~new[1].indent
      /\ \A i \in 1..Len(new) : new[i].hash = hash
      /\ \A i \in 2..Len(new) : new[i].indent /\ ~HasNothing(new[i])
  BY <1>6, EmptySeq
<1>8. /\ last \in s..Len(text) /\ s \in 1..Len(text) /\ text[s] = new[1] /\ Len(text) \in Nat
      /\ last + 1 = s + Len(new)
  <2>1. s - 1 + 1 = s /\ 1 \in 1..Len(new)
    BY <1>7
  <2>2. text[s] = new[1]
    BY <2>1, <1>0
  <2>3. QED
    BY <2>2, <1>0, <1>7
<1>9. EndsAt(text, s, last)
  <2>1. \A i \in (s + 1)..last : Continues(text[s], text[i])
    <3> TAKE i \in (s + 1)..last
    <3>1. Len(new) \in Nat /\ Len(new) >= 1
      BY <1>7
    <3>2. i - (s - 1) \in 2..Len(new) /\ i - (s - 1) \in 1..Len(new) /\ s - 1 + (i - (s - 1)) = i /\ 1 \in 1..Len(new)
      BY <3>1
    <3>3. text[i] = new[i - (s - 1)]
      BY <3>2, <1>0
    <3>4. QED
      BY <3>2, <3>3, <1>7, <1>8 DEF Continues, GoesOn
  <2>2. last = Len(text) \/ ~Continues(text[s], text[last + 1])
    <3>1. text[s].hash = hash
      BY <1>7, <1>8
    <3>2. QED
      BY <3>1, <1>0, <1>8 DEF Continues
  <2>3. QED
    BY <2>1, <2>2, <1>8 DEF EndsAt
<1>10. EndOf(text, s) = last
  BY <1>8, <1>9, EndIsUnique
<1>11. /\ s \in Starts(text) /\ text[s].key = k /\ IsActive(text[s]) = enabled
  <2>1. text[s].key = k /\ ~text[s].indent /\ text[s].hash = hash /\ k # None
    BY <1>7, <1>8, GroupVarsAssumption
  <2>2. IsActive(text[s]) <=> enabled
    BY <2>1, <1>1 DEF IsActive, hash
  <2>3. IsEntryLine(text[s])
    BY <2>1, <1>1 DEF IsEntryLine, IsActive, IsDisabled
  <2>4. IsActive(text[s]) \in BOOLEAN
    BY DEF IsActive
  <2>5. QED
    BY <2>1, <2>2, <2>3, <2>4, <1>1, <1>8 DEF Starts
<1>12. EntryAt(text, s).value = value
  <2>1. EntryAt(text, s).value = CASE last > s -> [i \in 1..(last - s + 1) |-> Uncomment(text[s + i - 1])]
                                   [] last = s /\ text[s].text # Empty -> <<Words(text[s].text)>>
                                   [] last = s /\ text[s].text = Empty -> <<>>
    BY <1>10 DEF EntryAt
  <2>2. CASE ~multiline
    <3>1. PICK t \in Texts : new = <<Mark(Setting(k, t))>> /\ value = IF t = Empty THEN <<>> ELSE <<Words(t)>>
      BY <1>4, <2>2
    <3> DEFINE top == Mark(Setting(k, t))
    <3>2. Setting(k, t) \in Line /\ Setting(k, t).hash = 0 /\ Setting(k, t).text = t
      BY SettingIsLine DEF Setting
    <3>3. top.text = t
      BY <3>2, <1>3
    <3> HIDE DEF top
    <3>4. Len(new) = 1 /\ new[1] = top
      BY <3>1 DEF top
    <3>5. last = s /\ text[s].text = t
      BY <3>3, <3>4, <1>8
    <3>6. QED
      BY <2>1, <3>1, <3>5, <1>8
  <2>3. CASE multiline
    <3> /\ value \in Seq(Line) /\ Len(value) > 1 /\ Len(new) = Len(value)
        /\ \A i \in 1..Len(value) : value[i].hash = 0 /\ value[i] \in Line /\ new[i] = Mark(value[i])
      BY <1>5, <2>3, Zenon
    <3>1. last > s /\ last - s + 1 = Len(value) /\ Len(value) \in Nat
      OBVIOUS
    <3>2. \A i \in 1..Len(value) : Uncomment(text[s + i - 1]) = value[i]
      <4> TAKE i \in 1..Len(value)
      <4>1. s + i - 1 = s - 1 + i /\ i \in 1..Len(new)
        BY <3>1
      <4>2. text[s + i - 1] = Mark(value[i]) /\ value[i] \in Line /\ value[i].hash = 0
        BY <4>1, <1>0
      <4>3. QED
        BY <4>2, <1>3
    <3>3. EntryAt(text, s).value = [i \in 1..(last - s + 1) |-> Uncomment(text[s + i - 1])]
      BY <2>1, <3>1
    <3>4. EntryAt(text, s).value = [i \in 1..Len(value) |-> Uncomment(text[s + i - 1])]
      BY <3>1, <3>3
    <3>5. [i \in 1..Len(value) |-> Uncomment(text[s + i - 1])] = [i \in 1..Len(value) |-> value[i]]
      BY <3>2
    <3>6. value = [i \in 1..Len(value) |-> value[i]]
      BY <3>1
    <3>7. QED
      BY <3>4, <3>5, <3>6, Zenon
  <2>4. QED
    BY <1>1, <2>2, <2>3
<1>13. EntryAt(text, s).enabled = enabled
  BY <1>11 DEF EntryAt
<1>14. IsEntryText(k, enabled, new)
  BY <1>6 DEF IsEntryText, hash
<1>16. QED
  BY <1>10, <1>11, <1>12, <1>13, <1>14 DEF ShowsAt, Shown, enabled, value

\* As often as a key has entries.
Times(x, n) == [i \in 1..n |-> x]

LEMMA OnceMore ==
  ASSUME NEW x, NEW n \in Nat
  PROVE  <<x>> \o Times(x, n) = Times(x, n + 1)
<1> DEFINE one == <<x>>
           rest == Times(x, n)
           all == Times(x, n + 1)
<1>1. one \in Seq({x}) /\ Len(one) = 1 /\ one[1] = x
  OBVIOUS
<1>2. rest \in Seq({x}) /\ Len(rest) = n /\ \A i \in 1..n : rest[i] = x
  BY DEF Times
<1>3. all \in Seq({x}) /\ Len(all) = n + 1 /\ \A i \in 1..(n + 1) : all[i] = x
  BY DEF Times
<1> HIDE DEF one, rest, all
<1>4. one \o rest \in Seq({x}) /\ Len(one \o rest) = n + 1
  BY <1>1, <1>2, ConcatProperties
<1>5. \A i \in 1..(n + 1) : (one \o rest)[i] = x
  <2> TAKE i \in 1..(n + 1)
  <2>1. (one \o rest)[i] \in {x}
    BY <1>4, ElementOfSeq
  <2>2. QED
    BY <2>1
<1>6. one \o rest = all
  BY <1>3, <1>4, <1>5, SeqEqual
<1>7. QED
  BY <1>6 DEF one, rest, all

LEMMA ListedIsSequence ==
  ASSUME NEW lines \in Seq(Line), NEW k, NEW s \in 1..(Len(lines) + 1)
  PROVE  ListOf(lines, k)[s] \in Seq({Shown(EntryAt(lines, r)) : r \in 1..Len(lines)})
<1> DEFINE f == ListOf(lines, k)
           View(r) == Shown(EntryAt(lines, r))
           W == {View(r) : r \in 1..Len(lines)}
           S == {r \in 1..(Len(lines) + 1) : f[r] \in Seq(W)}
           last == Len(lines) + 1
<1>1. Len(lines) \in Nat /\ last \in Nat /\ 1 <= last /\ 1 \in Nat /\ last \in 1..(Len(lines) + 1)
  OBVIOUS
<1>2. Lists(lines, k, f)
  BY SeenIsListed
<1>3. <<>> \in Seq(W) /\ \A r \in 1..Len(lines) : View(r) \in W
  OBVIOUS
<1> HIDE DEF f, View, W
<1>4. last \in S
  BY <1>1, <1>2, <1>3 DEF Lists
<1>5. ASSUME NEW r \in 1..(last - 1), r + 1 \in S PROVE r \in S
  <2>1. r \in 1..Len(lines) /\ r \in 1..(Len(lines) + 1) /\ f[r + 1] \in Seq(W)
    BY <1>1, <1>5
  <2>2. f[r] = IF EntryOf(lines, k, r) THEN <<View(r)>> \o f[r + 1] ELSE f[r + 1]
    BY <2>1, <1>2 DEF Lists, View
  <2> DEFINE view == View(r)
             rest == f[r + 1]
  <2>3. view \in W /\ rest \in Seq(W)
    BY <2>1, <1>3
  <2> HIDE DEF view, rest
  <2>4. <<view>> \in Seq(W)
    BY <2>3
  <2>5. <<view>> \o rest \in Seq(W)
    BY <2>3, <2>4, ConcatProperties
  <2>6. f[r] \in Seq(W)
    BY <2>2, <2>3, <2>5 DEF view, rest
  <2>7. QED
    BY <2>1, <2>6
<1> HIDE DEF S
<1>6. \A r \in 1..last : r \in S
  BY <1>1, <1>4, <1>5, Upwards
<1>7. QED
  BY <1>6 DEF S, W, View, f

LEMMA OneMoreSeen ==
  ASSUME NEW lines \in Seq(Line), NEW k, NEW s \in 1..(Len(lines) + 1), NEW x
  PROVE  Len(ListOf(lines, k)[s]) \in Nat /\ Len(<<x>> \o ListOf(lines, k)[s]) = Len(ListOf(lines, k)[s]) + 1
<1> DEFINE rest == ListOf(lines, k)[s]
           W == {Shown(EntryAt(lines, r)) : r \in 1..Len(lines)}
<1>1. rest \in Seq(W)
  BY ListedIsSequence
<1> HIDE DEF rest, W
<1>2. rest \in Seq(W \cup {x}) /\ <<x>> \in Seq(W \cup {x}) /\ Len(<<x>>) = 1 /\ Len(rest) \in Nat
  BY <1>1
<1>3. Len(<<x>> \o rest) = Len(<<x>>) + Len(rest)
  BY <1>2, ConcatProperties
<1>4. QED
  BY <1>2, <1>3 DEF rest

LEMMA SeenIsSequence ==
  ASSUME NEW lines \in Seq(Line), NEW k
  PROVE  DOMAIN Seen(lines, k) = 1..Len(Seen(lines, k))
<1> DEFINE seen == Seen(lines, k)
           W == {Shown(EntryAt(lines, r)) : r \in 1..Len(lines)}
<1>1. 1 \in 1..(Len(lines) + 1)
  OBVIOUS
<1>2. seen \in Seq(W)
  BY <1>1, SeenIsListed, ListedIsSequence
<1> HIDE DEF seen, W
<1>3. QED
  BY <1>2 DEF seen

\* No remark stands below the entry that would be a part of it once it is off.
SwallowsNothing(lines, s, enabled) ==
  IsActive(lines[s]) /\ ~enabled /\ EndOf(lines, s) < Len(lines) =>
    ~GoesOn(lines[EndOf(lines, s) + 1], 1)

\* The line below an entry does not go on with what the entry is replaced by:
\* no stray line does with a setting that is switched on, no remark with one
\* that is switched off.
LEMMA NotFollowed ==
  ASSUME NEW lines \in Seq(Line), NEW s \in Starts(lines), NEW enabled \in BOOLEAN, NoStray(lines),
         SwallowsNothing(lines, s, enabled)
  PROVE  \/ EndOf(lines, s) = Len(lines)
         \/ ~GoesOn(lines[EndOf(lines, s) + 1], IF enabled THEN 0 ELSE 1)
<1> DEFINE end == EndOf(lines, s)
           below == lines[end + 1]
<1>1. s \in 1..Len(lines) /\ IsEntryLine(lines[s]) /\ lines[s] \in Line /\ Len(lines) \in Nat /\ s \in Nat
  BY DEF Starts
<1>2. /\ end \in s..Len(lines) /\ \A i \in (s + 1)..end : Continues(lines[s], lines[i])
      /\ end = Len(lines) \/ ~Continues(lines[s], below)
  BY <1>1, EndExists DEF EndsAt
<1> HIDE DEF end
<1> SUFFICES ASSUME end # Len(lines), GoesOn(below, IF enabled THEN 0 ELSE 1) PROVE FALSE
  BY DEF end
<1>7. below.hash = (IF enabled THEN 0 ELSE 1) /\ GoesOn(below, below.hash)
  BY DEF GoesOn
<1>3. end + 1 \in 1..Len(lines) /\ end + 1 \in DOMAIN lines /\ end < Len(lines) /\ below.hash # lines[s].hash
  BY <1>1, <1>2, <1>7 DEF Continues
<1>4. CASE IsActive(lines[s])
  <2>1. lines[s].hash = 0
    BY <1>4 DEF IsActive
  <2>2. ~enabled /\ below.hash = 1
    BY <2>1, <1>3, <1>7
  <2>3. QED
    BY <2>2, <1>3, <1>4, <1>7 DEF SwallowsNothing, end
<1>5. CASE ~IsActive(lines[s])
  <2>1. lines[s].hash = 1
    BY <1>1, <1>5 DEF IsEntryLine, IsDisabled
  <2>2. below.hash = 0
    BY <2>1, <1>3, <1>7
  <2>3. end + 1 \in UNION {e.start..e.end : e \in Entries(lines)}
    BY <2>2, <1>3, <1>7 DEF NoStray
  <2>4. PICK e \in Entries(lines) : end + 1 \in e.start..e.end
    BY <2>3
  <2>5. PICK t \in Starts(lines) : e.start = t /\ e.end = EndOf(lines, t)
    BY <2>4 DEF Entries, EntryAt
  <2>6. t \in 1..Len(lines) /\ IsEntryLine(lines[t]) /\ lines[t] \in Line /\ t \in Nat
    BY DEF Starts
  <2>7. /\ EndOf(lines, t) \in t..Len(lines)
        /\ \A i \in (t + 1)..EndOf(lines, t) : Continues(lines[t], lines[i])
    BY <2>6, EndExists DEF EndsAt
  <2> DEFINE last == EndOf(lines, t)
  <2>8. t <= end + 1 /\ end + 1 <= last /\ last \in Nat /\ end \in Nat /\ s <= end
    BY <2>4, <2>5, <2>6, <2>7, <1>1, <1>2
  <2>9. \A i \in (t + 1)..last : Continues(lines[t], lines[i])
    BY <2>7
  <2> HIDE DEF last
  <2>10. CASE t < s
    <3>1. s \in (t + 1)..last
      BY <2>6, <2>8, <2>10, <1>1
    <3>2. QED
      BY <3>1, <2>9, <1>1, EntryLines
  <2>11. CASE t = s
    BY <2>8, <2>11, <1>3 DEF last, end
  <2>12. CASE t > s /\ t <= end
    <3>1. t \in (s + 1)..end
      BY <2>6, <2>8, <2>12, <1>1
    <3>2. QED
      BY <3>1, <2>6, <1>2, EntryLines
  <2>13. CASE t = end + 1
    <3>1. ~lines[t].indent
      BY <2>6, EntryLines
    <3>2. lines[t].indent
      BY <2>13, <1>7 DEF GoesOn
    <3>3. QED
      BY <3>1, <3>2
  <2>14. QED
    BY <2>6, <2>8, <2>10, <2>11, <2>12, <2>13, <1>1
<1>6. QED
  BY <1>4, <1>5

Sent(upd) == [enabled |-> upd.enabled, value |-> upd.value]

\* With its replacement in its place, the entry at s shows what was sent.
ReadsBackAt(lines, text, s, m, upd) ==
  ListOf(Splice(text, EntryAt(lines, s), Replacement(EntryAt(lines, s), upd)), lines[s].key)[s]
    = <<Sent(upd)>> \o ListOf(text, lines[s].key)[m]

LEMMA ReplacedShowsSent ==
  ASSUME NEW lines \in Seq(Line), NEW text, NEW ks, NEW s \in Starts(lines), NEW m,
         FirstFrom(lines, s + 1, m), Agrees(lines, text, ks, m), NoStray(lines),
         NEW upd, Sends(lines[s].key, upd, EntryAt(lines, s).multiline),
         SwallowsNothing(lines, s, upd.enabled), IsBlock(Replacement(EntryAt(lines, s), upd))
  PROVE  ReadsBackAt(lines, text, s, m, upd)
<1> DEFINE e == EntryAt(lines, s)
           k == lines[s].key
           new == Replacement(e, upd)
           result == Splice(text, e, new)
           end == EndOf(lines, s)
           hash == IF upd.enabled THEN 0 ELSE 1
           below == s + Len(new)
<1>1. s \in 1..Len(lines) /\ Len(lines) \in Nat /\ s \in Nat /\ s >= 1 /\ k \in Keys
  BY EntryLines DEF Starts
<1>2. e.key = k /\ e.start = s /\ e.end = end
  BY DEF EntryAt
<1>3. upd.enabled \in BOOLEAN /\ ~upd.keep
  BY DEF Sends
<1>4. new = RenderEntryLines(k, upd.enabled, upd.value, e.multiline)
  BY <1>2, <1>3 DEF Replacement
<1>5. BelowShows(lines, text, s, m, e, new, k)
  BY <1>2, ShownBelowReplaced
<1>6. /\ IsSplice(text, s, end, new, result) /\ ListOf(result, k)[below] = ListOf(text, k)[m]
  BY <1>5 DEF BelowShows
<1>7. end = Len(lines) \/ ~GoesOn(lines[end + 1], hash)
  BY <1>3, NotFollowed
<1>8. new \in Seq(Line) /\ Len(new) \in Nat /\ Len(new) >= 1
  BY EmptySeq DEF IsBlock
<1>9. end \in s..Len(lines) /\ end < m
  BY <1>1, EndExists, StandsStill DEF EndsAt
<1>10. Sends(k, upd, e.multiline)
  OBVIOUS
<1> HIDE DEF e, k, new, result, end, hash
<1>11. m \in (s + 1)..(Len(lines) + 1) /\ m \in Nat /\ end \in Nat
  BY <1>1, <1>9 DEF FirstFrom
<1>12. /\ text \in Seq(Line) /\ Len(text) \in Nat
       /\ m - 1 <= Len(text) /\ \A i \in 1..(m - 1) : text[i] = lines[i]
       /\ m = Len(lines) + 1 => text = lines
       /\ m <= Len(lines) => m <= Len(text) /\ ~text[m].indent
  BY DEF Agrees
<1>13. /\ result \in Seq(Line)
       /\ Len(result) = Len(text) + (Len(new) - (end - s + 1))
       /\ \A i \in 1..Len(new) : result[s - 1 + i] = new[i]
       /\ \A i \in (end + 1)..Len(text) : result[i + (Len(new) - (end - s + 1))] = text[i]
  BY <1>6 DEF IsSplice
<1>14. /\ below = end + 1 + (Len(new) - (end - s + 1)) /\ below - 1 = s - 1 + Len(new) /\ below \in Nat
       /\ s - 1 + Len(new) <= Len(result) /\ Len(result) \in Nat
  BY <1>1, <1>8, <1>9, <1>11, <1>12, <1>13
<1>15. end = Len(text) \/ (end + 1 \in 1..Len(text) /\ ~GoesOn(text[end + 1], hash))
  <2>1. CASE m = Len(lines) + 1
    BY <2>1, <1>7, <1>9, <1>11, <1>12
  <2>2. CASE m <= Len(lines) /\ end + 1 = m
    BY <2>2, <1>11, <1>12 DEF GoesOn
  <2>3. CASE m <= Len(lines) /\ end + 1 < m
    <3>1. end + 1 \in 1..(m - 1) /\ end # Len(lines) /\ end + 1 \in 1..Len(text)
      BY <2>3, <1>11, <1>12
    <3>2. QED
      BY <3>1, <1>7, <1>12
  <2>4. QED
    BY <2>1, <2>2, <2>3, <1>1, <1>9, <1>11
<1>16. s - 1 + Len(new) = Len(result) \/ ~GoesOn(result[below], hash)
  <2>1. CASE end = Len(text)
    BY <2>1, <1>1, <1>8, <1>11, <1>13
  <2>2. CASE end # Len(text)
    <3>1. end + 1 \in (end + 1)..Len(text) /\ ~GoesOn(text[end + 1], hash)
      BY <2>2, <1>11, <1>15
    <3>2. result[end + 1 + (Len(new) - (end - s + 1))] = text[end + 1]
      BY <3>1, <1>13
    <3>3. result[below] = text[end + 1]
      BY <3>2, <1>14
    <3>4. QED
      BY <3>1, <3>3
  <2>3. QED
    BY <2>1, <2>2
<1>17. IsEntryText(k, upd.enabled, new) /\ ShowsAt(result, s, k, upd)
  <2>1. Opens(result, s, new, upd.enabled)
    BY <1>13, <1>14, <1>16 DEF Opens, hash
  <2>2. result \in Seq(Line)
    BY <1>13
  <2>3. QED
    BY <1>1, <1>4, <1>10, <2>1, <2>2, EntryTextShows
<1> DEFINE next == s + 1
<1>18. ListOf(result, k)[s] = <<Sent(upd)>> \o ListOf(result, k)[next]
  <2>1. s \in Starts(result) /\ result[s].key = k /\ Shown(EntryAt(result, s)) = Sent(upd) /\ result \in Seq(Line)
    BY <1>13, <1>17 DEF ShowsAt, Sent
  <2>2. ListOf(result, k)[s] = <<Shown(EntryAt(result, s))>> \o ListOf(result, k)[next]
    BY <2>1, SeenAtEntry
  <2>3. QED
    BY <2>1, <2>2
<1>19. ListOf(result, k)[next] = ListOf(result, k)[below]
  <2>1. next \in 1..(Len(result) + 1) /\ below \in next..(Len(result) + 1)
    BY <1>1, <1>8, <1>14
  <2>2. \A r \in next..(below - 1) : ~EntryOf(result, k, r)
    <3> TAKE r \in next..(below - 1)
    <3>1. r - (s - 1) \in 1..Len(new) /\ r - (s - 1) \in 2..Len(new) /\ s - 1 + (r - (s - 1)) = r
      BY <1>1, <1>8
    <3>2. result[r] = new[r - (s - 1)]
      BY <3>1, <1>13
    <3>3. result[r].indent
      BY <3>1, <3>2, <1>17 DEF IsEntryText
    <3>4. QED
      BY <3>3, IndentedIsNoEntry DEF EntryOf
  <2> HIDE DEF next, below
  <2>3. QED
    BY <2>1, <2>2, <1>13, SeenBelow
<1>20. QED
  BY <1>6, <1>18, <1>19 DEF ReadsBackAt, e, k, new, result

\* An entry that is left as it is shows nothing of another key.
LEMMA OtherEntryIsMute ==
  ASSUME NEW lines \in Seq(Line), NEW text, NEW ks, NEW s \in Starts(lines), NEW m,
         FirstFrom(lines, s + 1, m), Agrees(lines, text, ks, m), NEW k, lines[s].key # k
  PROVE  NothingBetween(lines, text, s, m, k)
<1> DEFINE a == s + 1
<1>1. text \in Seq(Line)
  BY DEF Agrees
<1>2. s \in Starts(text) /\ text[s] = lines[s]
  <2>1. StandsAt(lines, s, EndOf(lines, s), text, s)
    BY StandsStill
  <2>2. QED
    BY <1>1, <2>1, StandsAtStart
<1>3. ListOf(lines, k)[s] = ListOf(lines, k)[a] /\ ListOf(text, k)[s] = ListOf(text, k)[a]
  <2>1. ListOf(lines, k)[s] = ListOf(lines, k)[a]
    BY SeenAtEntry, Zenon
  <2>2. ListOf(text, k)[s] = ListOf(text, k)[a]
    BY <1>1, <1>2, SeenAtEntry, Zenon
  <2>3. QED
    BY <2>1, <2>2
<1>4. a \in 1..(Len(lines) + 1) /\ FirstFrom(lines, a, m)
  BY DEF Starts
<1> HIDE DEF a
<1>5. NothingBetween(lines, text, a, m, k)
  BY <1>4, BetweenEntries
<1>6. QED
  BY <1>3, <1>5 DEF NothingBetween

\* From line n on, the text shows for each entry of k what was sent.
ShowsSent(lines, text, k, upd, n) == ListOf(text, k)[n] = Times(Sent(upd), Len(ListOf(lines, k)[n]))

\* What is sent for a key fits each of its entries, and no entry swallows a remark.
SendsAll(lines, updates, k) ==
  \A s \in Targeted(lines, updates) : lines[s].key = k =>
    /\ Sends(k, updates[k], EntryAt(lines, s).multiline)
    /\ SwallowsNothing(lines, s, updates[k].enabled)

LEMMA RewrittenReadsBack ==
  ASSUME NEW lines \in Seq(Line), NEW updates, AreRows(updates), NoStray(lines),
         NEW k \in DOMAIN updates, SendsAll(lines, updates, k)
  PROVE  Seen(Rewritten(lines, updates), k) = Times(Sent(updates[k]), Len(Seen(lines, k)))
<1> DEFINE ks == DOMAIN updates
           upd == updates[k]
           Good == {p \in Seq(Line) \X (1..(Len(lines) + 1)) : ShowsSent(lines, p[1], k, upd, p[2])}
<1>1. Len(lines) \in Nat /\ AreUpdates(updates)
  BY RowsAreUpdates
<1>2. <<lines, Len(lines) + 1>> \in Good
  <2>1. ListOf(lines, k)[Len(lines) + 1] = <<>>
    BY SeenIsListed DEF Lists
  <2>2. Times(Sent(upd), 0) = <<>>
    BY DEF Times
  <2>3. Len(<<>>) = 0
    OBVIOUS
  <2>4. ShowsSent(lines, lines, k, upd, Len(lines) + 1)
    BY <2>1, <2>2, <2>3 DEF ShowsSent
  <2>5. QED
    BY <2>4, <1>1
<1>3. ASSUME NEW s \in Starts(lines), NEW text, NEW m, FirstFrom(lines, s + 1, m),
             Agrees(lines, text, ks, m), <<text, m>> \in Good
      PROVE  /\ s \in Targeted(lines, updates) => <<EntryRewritten(lines, updates, s, text), s>> \in Good
             /\ s \notin Targeted(lines, updates) => <<text, s>> \in Good
  <2>1. ShowsSent(lines, text, k, upd, m) /\ text \in Seq(Line) /\ s \in 1..(Len(lines) + 1) /\ m \in 1..(Len(lines) + 1)
    BY <1>1, <1>3 DEF Starts
  <2>2. ASSUME s \in Targeted(lines, updates)
        PROVE  <<EntryRewritten(lines, updates, s, text), s>> \in Good
    <3> DEFINE e == EntryAt(lines, s)
               own == lines[s].key
               new == Replacement(e, updates[own])
               result == EntryRewritten(lines, updates, s, text)
    <3>1. /\ e.start = s /\ e.end = EndOf(lines, s) /\ IsBlock(new) /\ IsOfKey(own, new)
          /\ result = Splice(text, e, new)
      BY <2>2, RewrittenIsSpliced
    <3>2. own \in ks
      BY <2>2 DEF Targeted
    <3>3. result \in Seq(Line)
      BY <3>2, <1>1, <1>3, EntryRewrittenAgrees DEF Agrees
    <3>4. ASSUME own = k PROVE ListOf(result, k)[s] = Times(Sent(upd), Len(ListOf(lines, k)[s]))
      <4> DEFINE one == <<Shown(EntryAt(lines, s))>>
                 rest == ListOf(lines, k)[m]
                 n == Len(rest)
      <4>1. Sends(own, upd, e.multiline) /\ SwallowsNothing(lines, s, upd.enabled)
        BY <2>2, <3>4 DEF SendsAll
      <4>2. IsBlock(Replacement(e, upd)) /\ result = Splice(text, e, Replacement(e, upd))
        BY <3>1, <3>4
      <4> HIDE DEF upd
      <4>3. ReadsBackAt(lines, text, s, m, upd)
        BY <4>1, <4>2, <1>3, ReplacedShowsSent
      <4>4. ListOf(result, k)[s] = <<Sent(upd)>> \o ListOf(text, k)[m]
        BY <3>4, <4>2, <4>3 DEF ReadsBackAt
      <4>5. ListOf(lines, k)[s] = one \o rest
        <5> DEFINE a == s + 1
        <5>1. ListOf(lines, k)[s] = one \o ListOf(lines, k)[a]
          BY <3>4, SeenAtEntry
        <5>2. a \in 1..(Len(lines) + 1) /\ FirstFrom(lines, a, m)
          BY <1>3 DEF Starts
        <5> HIDE DEF a, one
        <5>3. NothingBetween(lines, text, a, m, k)
          BY <5>2, <1>3, BetweenEntries
        <5>4. QED
          BY <5>1, <5>3 DEF NothingBetween
      <4>6. Len(ListOf(lines, k)[s]) = n + 1 /\ n \in Nat
        BY <2>1, <4>5, OneMoreSeen
      <4>7. ListOf(text, k)[m] = Times(Sent(upd), n)
        BY <2>1 DEF ShowsSent
      <4> HIDE DEF one, rest, n
      <4>8. <<Sent(upd)>> \o Times(Sent(upd), n) = Times(Sent(upd), n + 1)
        BY <4>6, OnceMore
      <4>9. QED
        BY <4>4, <4>6, <4>7, <4>8
    <3> HIDE DEF e, new, result, own
    <3>5. ASSUME own # k PROVE ListOf(result, k)[s] = Times(Sent(upd), Len(ListOf(lines, k)[s]))
      <4>1. EntryIsMute(lines, text, s, m, e, new, k)
        BY <3>5, <3>1, <1>3, ShowsSameReplaced DEF own
      <4>2. ListOf(result, k)[s] = ListOf(text, k)[m] /\ ListOf(lines, k)[s] = ListOf(lines, k)[m]
        BY <4>1, <3>1 DEF EntryIsMute
      <4>3. QED
        BY <4>2, <2>1 DEF ShowsSent
    <3>6. ShowsSent(lines, result, k, upd, s)
      BY <3>4, <3>5 DEF ShowsSent
    <3>7. QED
      BY <3>3, <3>6, <2>1 DEF result
  <2>3. ASSUME s \notin Targeted(lines, updates) PROVE <<text, s>> \in Good
    <3>1. lines[s].key # k
      BY <2>3 DEF Targeted
    <3>2. NothingBetween(lines, text, s, m, k)
      BY <3>1, <1>3, OtherEntryIsMute
    <3>3. ShowsSent(lines, text, k, upd, s)
      BY <3>2, <2>1 DEF NothingBetween, ShowsSent
    <3>4. QED
      BY <3>3, <2>1
  <2>4. QED
    BY <2>2, <2>3
<1> HIDE DEF Good
<1>4. PICK n : /\ FirstFrom(lines, 1, n) /\ Agrees(lines, Rewritten(lines, updates), ks, n)
               /\ <<Rewritten(lines, updates), n>> \in Good
  BY <1>1, <1>2, <1>3, BottomUp
<1>5. Rewritten(lines, updates) \in Seq(Line) /\ ShowsSent(lines, Rewritten(lines, updates), k, upd, n)
  BY <1>4 DEF Good
<1>6. 1 \in 1..(Len(lines) + 1)
  BY <1>1
<1>7. NothingBetween(lines, Rewritten(lines, updates), 1, n, k)
  BY <1>6, <1>4, BetweenEntries
<1>8. QED
  BY <1>5, <1>7, SeenIsListed DEF ShowsSent, NothingBetween

\* Where a row is clean, the file reads back what was sent.
LEMMA SentReadsBack ==
  ASSUME NEW lines \in Seq(Line), NEW updates, AreRows(updates), NoStray(lines), ~Swallows(lines, updates),
         \A s \in Targeted(lines, updates) :
           Sends(lines[s].key, updates[lines[s].key], EntryAt(lines, s).multiline)
  PROVE  \A k \in DOMAIN updates :
           Seen(ApplyUpdates(lines, updates), k) = Times(Sent(updates[k]), Len(Seen(lines, k)))
<1>1. Rewritten(lines, updates) \in Seq(Line)
  BY RewrittenKeeps, RowsAreUpdates
<1>2. \A k \in DOMAIN updates : SendsAll(lines, updates, k)
  BY DEF SendsAll, Swallows, SwallowsNothing
<1>3. \A k \in DOMAIN updates : Seen(Rewritten(lines, updates), k) = Times(Sent(updates[k]), Len(Seen(lines, k)))
  BY <1>2, RewrittenReadsBack
<1>4. QED
  BY <1>1, <1>3, RejoinShowsSame DEF ApplyUpdates

\* A row offers inputs of its entry's kind.
IsInputOf(k, multiline, value) == IF multiline THEN IsBlockOf(k, value) ELSE IsLineInput(value)

LEMMA EntryIsInput ==
  ASSUME NEW lines \in Seq(Line), NEW s \in Starts(lines)
  PROVE  /\ EntryAt(lines, s).multiline \in BOOLEAN
         /\ IsInputOf(lines[s].key, EntryAt(lines, s).multiline, EntryAt(lines, s).value)
<1> DEFINE end == EndOf(lines, s)
           first == lines[s]
           value == EntryAt(lines, s).value
           multiline == EntryAt(lines, s).multiline
           block == [i \in 1..(end - s + 1) |-> Uncomment(lines[s + i - 1])]
<1>1. s \in 1..Len(lines) /\ Len(lines) \in Nat /\ first \in Line /\ IsEntryLine(first)
  BY DEF Starts
<1>2. first.text \in Texts /\ ~first.indent /\ first.hash \in {0, 1}
  BY <1>1, EntryLines DEF IsEntryLine, IsActive, IsDisabled
<1>3. end \in s..Len(lines) /\ \A i \in (s + 1)..end : Continues(lines[s], lines[i])
  BY <1>1, EndExists DEF EndsAt
<1>4. /\ multiline = (end > s)
      /\ value = CASE end > s -> block
                   [] end = s /\ first.text # Empty -> <<Words(first.text)>>
                   [] end = s /\ first.text = Empty -> <<>>
  BY DEF EntryAt
<1>5. IsRow(first.key, value)
  BY EntryIsRow
<1> HIDE DEF end, value, block, multiline
<1>6. CASE end > s
  <2>1. value = block
    BY <1>1, <1>3, <1>4, <1>6
  <2>2. end - s + 1 \in Nat /\ 1 \in 1..(end - s + 1) /\ s + 1 - 1 = s
    BY <1>1, <1>3
  <2>3. Len(value) = end - s + 1 /\ value[1] = Uncomment(first)
    BY <2>1, <2>2 DEF block
  <2>4. value \in Seq(Line) /\ Len(value) > 1
    BY <2>3, <1>1, <1>3, <1>5, <1>6 DEF IsRow
  <2>5. value[1].key = first.key /\ IsActive(value[1])
    <3>1. value[1].key = first.key /\ ~value[1].indent /\ value[1].hash = 0
      BY <2>3, <1>1, <1>2 DEF Uncomment, Line
    <3>2. first.key # None
      BY <1>1, EntryLines, GroupVarsAssumption
    <3>3. QED
      BY <3>1, <3>2 DEF IsActive
  <2>6. ASSUME NEW i \in 2..Len(value) PROVE GoesOn(value[i], 0)
    <3>1. i \in 1..(end - s + 1) /\ s + i - 1 \in (s + 1)..end /\ s + i - 1 \in 1..Len(lines)
      BY <2>3, <1>1, <1>3
    <3> DEFINE line == lines[s + i - 1]
    <3>2. value[i] = Uncomment(line) /\ line \in Line
      BY <3>1, <2>1 DEF block
    <3>3. line.indent /\ line.hash = first.hash /\ ~HasNothing(line)
      BY <3>1, <1>3 DEF Continues, GoesOn
    <3> HIDE DEF line
    <3>4. /\ Uncomment(line).indent /\ Uncomment(line).hash = 0
          /\ Uncomment(line).key = line.key /\ Uncomment(line).text = line.text
      BY <3>2, <3>3, <1>2 DEF Uncomment, Line
    <3>5. QED
      BY <3>2, <3>3, <3>4 DEF GoesOn, HasNothing
  <2>7. IsBlockOf(first.key, value)
    BY <2>4, <2>5, <2>6 DEF IsBlockOf
  <2>8. multiline = TRUE
    BY <1>4, <1>6
  <2>9. QED
    BY <2>7, <2>8 DEF IsInputOf, value, multiline
<1>7. CASE end = s
  <2>1. multiline = FALSE
    <3>1. (end > s) = FALSE
      BY <1>1, <1>7
    <3>2. QED
      BY <3>1, <1>4
  <2>2. (value = <<Words(first.text)>> /\ first.text # Empty) \/ value = <<>>
    BY <1>4, <1>7, <1>1
  <2>3. IsLineInput(value)
    BY <2>2, <1>2 DEF IsLineInput
  <2>4. QED
    BY <2>1, <2>3 DEF IsInputOf, value, multiline
<1>8. QED
  BY <1>1, <1>3, <1>6, <1>7

\* What is sent for a row, a block for a block.
LEMMA RowSends ==
  ASSUME NEW lines \in Seq(Line), NEW e \in Entries(lines), NEW upd \in RowUpdates(e),
         e.multiline => IsBlockOf(e.key, upd.value)
  PROVE  Sends(e.key, upd, e.multiline)
<1>1. PICK s \in Starts(lines) : e = EntryAt(lines, s)
  BY DEF Entries
<1>2. e.key = lines[s].key /\ lines[s].key \in Keys
  BY <1>1, EntryLines DEF EntryAt, Starts
<1>3. e.multiline \in BOOLEAN /\ IsInputOf(e.key, e.multiline, e.value)
  BY <1>1, <1>2, EntryIsInput
<1>4. /\ upd.enabled \in BOOLEAN /\ ~upd.keep
      /\ upd.value \in IF e.multiline THEN BlockInputs(e) ELSE LineInputs(e)
  BY DEF RowUpdates
<1>6. ASSUME ~e.multiline PROVE IsLineInput(upd.value)
  <2>1. IsLineInput(e.value) /\ upd.value \in LineInputs(e)
    BY <1>6, <1>3, <1>4 DEF IsInputOf
  <2>2. ASSUME NEW text \in Typed PROVE IsLineInput(IF text = Empty THEN <<>> ELSE <<Words(text)>>)
    BY EditingAssumption DEF IsLineInput
  <2>3. QED
    BY <2>1, <2>2 DEF LineInputs
<1>7. QED
  BY <1>3, <1>4, <1>6 DEF Sends

\* Where all entries of a key are of one kind, what one row sends fits each.
LEMMA CleanSends ==
  ASSUME NEW lines \in Seq(Line), NEW updates \in FormUpdates(lines), Clean(lines, updates),
         NEW s \in Targeted(lines, updates)
  PROVE  Sends(lines[s].key, updates[lines[s].key], EntryAt(lines, s).multiline)
<1> DEFINE k == lines[s].key
           f == EntryAt(lines, s)
<1>1. s \in Starts(lines) /\ k \in DOMAIN updates
  BY DEF Targeted
<1>2. f \in Entries(lines) /\ f.key = k
  BY <1>1 DEF Entries, EntryAt
<1>3. OneKind(lines, k)
  BY <1>1 DEF Clean
<1>4. PICK e \in Entries(lines) : e.key = k /\ updates[k] \in RowUpdates(e)
  BY <1>1, FormSends
<1> HIDE DEF f, k
<1>5. e.multiline = f.multiline
  BY <1>2, <1>3, <1>4 DEF OneKind
<1>6. Sends(e.key, updates[k], e.multiline)
  <2>1. k \in DOMAIN updates
    BY <1>1
  <2>2. e.multiline => IsBlockOf(e.key, updates[k].value)
    BY <2>1, <1>4 DEF Clean
  <2>3. QED
    BY <2>2, <1>4, RowSends
<1>7. QED
  BY <1>4, <1>5, <1>6 DEF k, f

-----------------------------------------------------------------------------
(* Pointing kubespray at the repositories.                                 *)

Has(text, k) == \E s \in Starts(text) : text[s].key = k
HasActive(text, k) == \E s \in Starts(text) : text[s].key = k /\ IsActive(text[s])

\* Every entry of the key is active.
AllActive(text, k) == \A s \in Starts(text) : text[s].key = k => IsActive(text[s])

\* Lines without comment marks.
IsLive(lines) == \A i \in 1..Len(lines) : lines[i].hash = 0

LEMMA LiveIsActive ==
  ASSUME NEW line, line.hash = 0, IsEntryLine(line)
  PROVE  IsActive(line)
BY DEF IsEntryLine, IsActive, IsDisabled

LEMMA KeepsHas ==
  ASSUME NEW lines \in Seq(Line), NEW text \in Seq(Line), NEW ks, Keeps(lines, text, ks), NEW k, k \notin ks
  PROVE  (Has(lines, k) => Has(text, k)) /\ (HasActive(lines, k) => HasActive(text, k))
<1>1. ASSUME NEW s \in Starts(lines), lines[s].key = k PROVE \E p \in Starts(text) : text[p] = lines[s]
  <2>1. PICK p : StandsAt(lines, s, EndOf(lines, s), text, p)
    BY <1>1 DEF Keeps
  <2>2. QED
    BY <2>1, StandsAtStart
<1>2. QED
  BY <1>1 DEF Has, HasActive

\* Live lines are rendered as live lines where a setting is switched on, the
\* first as one of the key if the value fits the entry.
Fits(k, value, multiline) == multiline /\ value # <<>> => value[1].key = k /\ ~value[1].indent

SwitchesOn(k, value, multiline, new) ==
  IsLive(new) /\ (Fits(k, value, multiline) => new[1].key = k /\ IsActive(new[1]))

LEMMA RenderedLive ==
  ASSUME NEW k \in Keys, NEW value \in Seq(Line), IsLive(value), NEW multiline, multiline \in BOOLEAN,
         NEW enabled, enabled = TRUE
  PROVE  SwitchesOn(k, value, multiline, RenderEntryLines(k, enabled, value, multiline))
<1> DEFINE Own(text) == Setting(k, text)
           body == BodyOf(value, multiline)
           new == RenderEntryLines(k, enabled, value, multiline)
<1>0. /\ body \in Seq(Line) /\ IsLive(body) /\ (multiline => body = value)
      /\ Fits(k, value, multiline) => Fits(k, body, multiline)
  <2>1. /\ body \in Seq(Line)
        /\ \A i \in 1..Len(body) : \E j \in 1..Len(value) : body[i] = value[j]
    BY BodyLines
  <2>2. multiline => body = value
    BY DEF BodyOf
  <2> HIDE DEF body
  <2>3. QED
    BY <2>1, <2>2 DEF IsLive, Fits
<1>1. \A text \in Texts : Own(text) \in Line /\ Own(text).hash = 0 /\ ~Own(text).indent /\ Own(text).key = k
  BY SettingIsLine DEF Setting
<1>2. new = CASE body = <<>> -> <<Own(Empty)>>
              [] body # <<>> /\ multiline -> [i \in DOMAIN body |-> body[i]]
              [] body # <<>> /\ ~multiline -> <<Own(AsText(Head(body)))>> \o Tail(body)
  BY Zenon DEF RenderEntryLines, BodyOf
<1>3. k # None
  BY GroupVarsAssumption
<1> HIDE DEF Own, new, body
<1>4. CASE body = <<>>
  <2> DEFINE own == Own(Empty)
  <2>1. own \in Line /\ own.hash = 0 /\ ~own.indent /\ own.key = k
    BY <1>1, GroupVarsAssumption
  <2> HIDE DEF own
  <2>2. new = <<own>>
    BY <1>2, <1>4 DEF own
  <2>3. <<own>> \in Seq(Line) /\ Len(<<own>>) = 1 /\ <<own>>[1] = own
    BY <2>1
  <2>4. Len(new) = 1 /\ new[1] = own
    BY <2>2, <2>3
  <2>5. \A i \in 1..Len(new) : i = 1
    BY <2>4
  <2>6. IsLive(new)
    BY <2>1, <2>4, <2>5 DEF IsLive
  <2>7. QED
    BY <2>1, <2>4, <2>6, <1>3 DEF IsActive, SwitchesOn, new
<1>5. CASE body # <<>> /\ multiline
  <2>1. new = [i \in DOMAIN body |-> body[i]]
    BY <1>2, <1>5
  <2>2. DOMAIN body = 1..Len(body) /\ Len(body) \in Nat /\ Len(body) # 0
    BY <1>0, <1>5, EmptySeq
  <2>3. Len(new) = Len(body) /\ 1 \in 1..Len(body) /\ \A i \in 1..Len(body) : new[i] = body[i]
    <3> DEFINE same == [i \in DOMAIN body |-> body[i]]
    <3>1. new = same
      BY <2>1
    <3>2. same \in Seq(Line) /\ Len(same) = Len(body) /\ \A i \in 1..Len(body) : same[i] = body[i]
      BY <1>0, <2>2
    <3> HIDE DEF same
    <3>3. Len(new) = Len(body) /\ \A i \in 1..Len(body) : new[i] = body[i]
      BY <3>1, <3>2
    <3>4. QED
      BY <3>3, <2>2
  <2>4. QED
    BY <2>3, <1>0, <1>3, <1>5 DEF IsLive, IsActive, Fits, SwitchesOn, new
<1>6. CASE body # <<>> /\ ~multiline
  <2> DEFINE first == body[1]
             own == Own(AsText(first))
             rest == Tail(body)
  <2>1. Len(body) \in Nat /\ Len(body) >= 1 /\ Head(body) = first /\ first \in Line
    BY <1>0, <1>6, EmptySeq
  <2>2. own \in Line /\ own.hash = 0 /\ ~own.indent /\ own.key = k
    <3>1. AsText(first) \in Texts
      BY <2>1, TextOfLine
    <3>2. QED
      BY <3>1, <1>1
  <2>3. new = <<own>> \o rest
    BY <1>2, <1>6, <2>1
  <2>4. rest \in Seq(Line) /\ Len(rest) = Len(body) - 1 /\ \A i \in 1..Len(rest) : rest[i] = body[i + 1]
    BY <1>0, <1>6, <2>1
  <2> HIDE DEF own, rest
  <2>5. <<own>> \in Seq(Line) /\ Len(<<own>>) = 1 /\ <<own>>[1] = own
    BY <2>2
  <2> DEFINE top == <<own>>
  <2> HIDE DEF top
  <2>6. /\ Len(new) = 1 + Len(rest) /\ new[1] = own
        /\ \A i \in 1..Len(rest) : new[1 + i] = rest[i]
    <3> DEFINE both == top \o rest
    <3>1. top \in Seq(Line) /\ rest \in Seq(Line)
      BY <2>4, <2>5 DEF top
    <3>2. /\ Len(both) = Len(top) + Len(rest)
          /\ \A i \in 1..Len(top) : both[i] = top[i]
          /\ \A i \in 1..Len(rest) : both[Len(top) + i] = rest[i]
      BY <3>1, JoinedPlaces
    <3>3. new = both /\ Len(top) = 1 /\ top[1] = own
      BY <2>3, <2>5 DEF top
    <3> HIDE DEF both
    <3>4. QED
      BY <3>2, <3>3
  <2>7. ASSUME NEW i \in 2..Len(new) PROVE new[i].hash = 0
    <3> DEFINE j == i - 1
    <3>0. Len(rest) \in Nat /\ Len(new) = 1 + Len(rest) /\ Len(body) = Len(rest) + 1
      BY <2>1, <2>4, <2>6
    <3>1. j \in 1..Len(rest) /\ 1 + j = i /\ i \in 1..Len(body) /\ j + 1 = i
      BY <3>0
    <3>2. new[1 + j] = rest[j] /\ rest[j] = body[j + 1]
      BY <3>1, <2>4, <2>6
    <3>3. QED
      BY <3>1, <3>2, <1>0 DEF IsLive
  <2>8. \A i \in 1..Len(new) : i = 1 \/ i \in 2..Len(new)
    <3>1. Len(rest) \in Nat /\ Len(new) = 1 + Len(rest)
      BY <2>1, <2>4, <2>6
    <3>2. QED
      BY <3>1
  <2>9. QED
    BY <2>2, <2>6, <2>7, <2>8, <1>3 DEF IsLive, IsActive, SwitchesOn, new
<1>7. QED
  BY <1>4, <1>5, <1>6 DEF new

LEMMA InputIsLive ==
  ASSUME NEW k, NEW multiline, multiline \in BOOLEAN, NEW value, IsInputOf(k, multiline, value)
  PROVE  value \in Seq(Line) /\ IsLive(value) /\ Fits(k, value, multiline)
<1>1. CASE multiline
  <2>1. IsBlockOf(k, value)
    BY <1>1 DEF IsInputOf
  <2>2. value \in Seq(Line) /\ Len(value) > 1 /\ value[1].key = k /\ ~value[1].indent
    BY <2>1 DEF IsBlockOf, IsActive
  <2>3. \A i \in 1..Len(value) : i = 1 \/ i \in 2..Len(value)
    BY <2>2
  <2>4. IsLive(value)
    BY <2>1, <2>3 DEF IsBlockOf, IsLive, IsActive, GoesOn
  <2>5. QED
    BY <2>2, <2>4 DEF Fits
<1>2. CASE ~multiline
  <2>1. IsLineInput(value)
    BY <1>2 DEF IsInputOf
  <2>2. CASE value = <<>>
    <3> DEFINE none == <<>>
    <3>1. none \in Seq(Line) /\ Len(none) = 0
      OBVIOUS
    <3> HIDE DEF none
    <3>2. QED
      BY <3>1, <2>2, <1>2 DEF IsLive, Fits, none
  <2>3. CASE \E text \in Texts \ {Empty} : value = <<Words(text)>>
    <3>1. PICK text \in Texts : value = <<Words(text)>>
      BY <2>3
    <3> DEFINE line == Words(text)
    <3>2. line \in Line /\ line.hash = 0
      BY BlankIsLine DEF Words, Setting
    <3> HIDE DEF line
    <3>3. value = <<line>>
      BY <3>1 DEF line
    <3>4. value \in Seq(Line) /\ Len(value) = 1 /\ value[1] = line
      BY <3>2, <3>3
    <3>5. QED
      BY <3>2, <3>4, <1>2 DEF IsLive, Fits
  <2>4. QED
    BY <2>1, <2>2, <2>3 DEF IsLineInput
<1>3. QED
  BY <1>1, <1>2

LEMMA InputIsRow ==
  ASSUME NEW k \in Keys, NEW multiline, multiline \in BOOLEAN, NEW value, IsInputOf(k, multiline, value)
  PROVE  IsRow(k, value)
<1>1. value \in Seq(Line)
  BY InputIsLive
<1>2. CASE multiline
  <2>1. IsBlockOf(k, value)
    BY <1>2 DEF IsInputOf
  <2>2. value \in Seq(Line) /\ DOMAIN value = 1..Len(value) /\ \A i \in DOMAIN value : i = 1 \/ i \in 2..Len(value)
    BY <2>1 DEF IsBlockOf
  <2>3. QED
    BY <2>1, <2>2 DEF IsBlockOf, IsRow, OfKey, IsActive, GoesOn
<1>3. CASE ~multiline
  <2>1. IsLineInput(value)
    BY <1>3 DEF IsInputOf
  <2>2. CASE value = <<>>
    <3>1. Len(value) = 0
      BY <2>2
    <3>2. QED
      BY <1>1, <2>2, <3>1 DEF IsRow, OfKey
  <2>3. CASE \E text \in Texts \ {Empty} : value = <<Words(text)>>
    <3>1. PICK text \in Texts : value = <<Words(text)>>
      BY <2>3
    <3> DEFINE line == Words(text)
    <3>2. line \in Line /\ ~line.indent /\ line.key = None
      BY BlankIsLine DEF Words, Setting
    <3> HIDE DEF line
    <3>3. value = <<line>>
      BY <3>1 DEF line
    <3>4. DOMAIN value = {1} /\ value[1] = line
      BY <3>2, <3>3
    <3>5. QED
      BY <1>1, <3>2, <3>4 DEF IsRow, OfKey
  <2>4. QED
    BY <2>1, <2>2, <2>3 DEF IsLineInput
<1>4. QED
  BY <1>2, <1>3

\* What a clean save sends names no other key.
LEMMA CleanRows ==
  ASSUME NEW lines \in Seq(Line), NEW updates \in FormUpdates(lines), Clean(lines, updates)
  PROVE  AreRows(updates)
<1>1. ASSUME NEW k \in DOMAIN updates PROVE k \in Keys /\ IsRow(k, updates[k].value)
  <2> DEFINE upd == updates[k]
  <2>1. PICK e \in Entries(lines) : e.key = k /\ upd \in RowUpdates(e)
    BY FormSends
  <2>2. e.multiline => IsBlockOf(e.key, upd.value)
    BY <2>1 DEF Clean
  <2> HIDE DEF upd
  <2>3. Sends(k, upd, e.multiline) /\ k \in Keys
    BY <2>1, <2>2, RowSends, RowSendsText
  <2> DEFINE multiline == e.multiline
             value == upd.value
  <2>4. multiline \in BOOLEAN /\ IsInputOf(k, multiline, value)
    BY <2>3 DEF Sends, IsInputOf
  <2> HIDE DEF multiline, value
  <2>5. IsRow(k, value)
    BY <2>3, <2>4, InputIsRow
  <2>6. QED
    BY <2>3, <2>5 DEF value, upd
<1>2. QED
  BY <1>1 DEF AreRows

\* What a repository's key is set to: a text for one line, or a block.
Several(value) == Len(value) > 1

LEMMA RepoIsInput ==
  ASSUME NEW k \in DOMAIN RepoValue
  PROVE  k \in Keys /\ Several(RepoValue[k]) \in BOOLEAN /\ IsInputOf(k, Several(RepoValue[k]), RepoValue[k])
<1> DEFINE value == RepoValue[k]
           several == Several(value)
<1>1. k \in Keys /\ IsInput(k, value)
  BY EditingAssumption
<1>2. several \in BOOLEAN /\ (several <=> Len(value) > 1)
  BY DEF Several
<1> HIDE DEF value, several
<1>3. CASE \E text \in Texts \ {Empty} : value = <<Words(text)>>
  <2>1. IsLineInput(value)
    BY <1>3 DEF IsLineInput
  <2>2. Len(value) = 1
    BY <1>3
  <2>3. IsInputOf(k, several, value)
    BY <2>1, <2>2, <1>2 DEF IsInputOf
  <2>4. QED
    BY <2>3, <1>1, <1>2 DEF value, several
<1>4. CASE IsBlockOf(k, value)
  <2>1. Len(value) > 1
    BY <1>4 DEF IsBlockOf
  <2>2. IsInputOf(k, several, value)
    BY <2>1, <1>2, <1>4 DEF IsInputOf
  <2>3. QED
    BY <2>2, <1>1, <1>2 DEF value, several
<1>5. QED
  BY <1>1, <1>3, <1>4 DEF IsInput

\* A URL's entry that is to be switched on.
IsTemplated(e) == e.key \in Urls /\ ~e.multiline /\ e.value = <<Words(FilesRepo)>>

\* An update sets a repository's key, or switches on what is templated.
IsRepo(k, upd) == k \in DOMAIN RepoValue /\ ~upd.keep /\ upd.value = RepoValue[k]
IsUrl(lines, k, upd) ==
  k \notin DOMAIN RepoValue /\ upd.keep = TRUE /\ upd.value = <<>> /\ \E e \in Entries(lines) : e.key = k /\ IsTemplated(e)

\* What is sent has no comment marks, and has the key if it has several lines.
SendsLive(k, upd) ==
  /\ upd.enabled = TRUE /\ upd.value \in Seq(Line) /\ IsLive(upd.value)
  /\ Len(upd.value) > 1 => upd.value[1].key = k

LEMMA RepoUpdatesSent ==
  ASSUME NEW lines \in Seq(Line)
  PROVE  /\ DOMAIN RepoUpdates(lines) = DOMAIN RepoValue \cup {e.key : e \in {x \in Entries(lines) : IsTemplated(x)}}
         /\ \A k \in DOMAIN RepoUpdates(lines) :
              /\ RepoUpdates(lines)[k].enabled = TRUE
              /\ IsRepo(k, RepoUpdates(lines)[k]) \/ IsUrl(lines, k, RepoUpdates(lines)[k])
<1> DEFINE templated == {e \in Entries(lines) :
                          e.key \in Urls /\ ~e.multiline /\ e.value = <<Words(FilesRepo)>>}
           repos == {Repos[i] : i \in DOMAIN Repos}
           urls == {e.key : e \in templated}
           updates == RepoUpdates(lines)
<1>1. updates = [x \in repos \cup urls |->
                  IF x \in repos THEN [enabled |-> TRUE, keep |-> FALSE, value |-> RepoValue[x]]
                  ELSE [enabled |-> TRUE, keep |-> TRUE, value |-> <<>>]]
  BY DEF RepoUpdates
<1>2. repos = DOMAIN RepoValue
  BY EditingAssumption
<1>3. urls = {e.key : e \in {x \in Entries(lines) : IsTemplated(x)}}
  BY DEF IsTemplated
<1>4. \A k \in urls : \E e \in Entries(lines) : e.key = k /\ IsTemplated(e)
  BY <1>3
<1> HIDE DEF urls, repos, updates
<1>5. DOMAIN updates = repos \cup urls
  BY <1>1
<1>6. ASSUME NEW k \in DOMAIN updates
      PROVE  updates[k].enabled = TRUE /\ (IsRepo(k, updates[k]) \/ IsUrl(lines, k, updates[k]))
  <2>1. CASE k \in repos
    <3>1. updates[k] = [enabled |-> TRUE, keep |-> FALSE, value |-> RepoValue[k]]
      BY <1>1, <1>5, <2>1
    <3>2. QED
      BY <3>1, <2>1, <1>2 DEF IsRepo
  <2>2. CASE k \notin repos
    <3>1. updates[k] = [enabled |-> TRUE, keep |-> TRUE, value |-> <<>>] /\ k \in urls
      BY <1>1, <1>5, <2>2
    <3>2. QED
      BY <3>1, <2>2, <1>2, <1>4 DEF IsUrl
  <2>3. QED
    BY <2>1, <2>2
<1>7. QED
  BY <1>2, <1>3, <1>5, <1>6 DEF updates

LEMMA RepoUpdatesAreRows ==
  ASSUME NEW lines \in Seq(Line)
  PROVE  AreRows(RepoUpdates(lines)) /\ \A k \in DOMAIN RepoUpdates(lines) : SendsLive(k, RepoUpdates(lines)[k])
<1> DEFINE updates == RepoUpdates(lines)
<1>1. DOMAIN updates \subseteq Keys
  <2>1. \A e \in Entries(lines) : IsTemplated(e) => e.key \in Keys
    BY EditingAssumption DEF IsTemplated
  <2>2. \A k \in DOMAIN RepoValue : k \in Keys
    BY RepoIsInput
  <2>3. DOMAIN updates = DOMAIN RepoValue \cup {e.key : e \in {x \in Entries(lines) : IsTemplated(x)}}
    BY RepoUpdatesSent
  <2> HIDE DEF updates
  <2>4. QED
    BY <2>1, <2>2, <2>3
<1>2. ASSUME NEW k \in DOMAIN updates PROVE IsRow(k, updates[k].value) /\ SendsLive(k, updates[k])
  <2> DEFINE upd == updates[k]
             value == upd.value
  <2>1. upd.enabled = TRUE /\ (IsRepo(k, upd) \/ IsUrl(lines, k, upd)) /\ k \in Keys
    BY <1>1, RepoUpdatesSent
  <2> HIDE DEF updates
  <2>2. CASE IsRepo(k, upd)
    <3> DEFINE several == Several(value)
    <3>1. value = RepoValue[k] /\ k \in DOMAIN RepoValue
      BY <2>2 DEF IsRepo
    <3>2. several \in BOOLEAN /\ IsInputOf(k, several, value)
      BY <3>1, RepoIsInput
    <3>3. several <=> Len(value) > 1
      BY DEF Several
    <3> HIDE DEF several, value
    <3>4. IsRow(k, value) /\ value \in Seq(Line) /\ IsLive(value) /\ Fits(k, value, several)
      BY <2>1, <3>2, InputIsRow, InputIsLive
    <3>5. several => value[1].key = k
      BY <3>2, <3>3 DEF IsInputOf, IsBlockOf
    <3>6. QED
      BY <2>1, <3>3, <3>4, <3>5 DEF SendsLive, value
  <2>3. CASE IsUrl(lines, k, upd)
    <3> DEFINE none == <<>>
    <3>1. none \in Seq(Line) /\ Len(none) = 0 /\ none = <<>>
      OBVIOUS
    <3> HIDE DEF none
    <3>2. value = none
      BY <2>3, <3>1 DEF IsUrl
    <3> HIDE DEF value
    <3>3. IsRow(k, value) /\ value \in Seq(Line) /\ IsLive(value) /\ Len(value) = 0
      BY <3>1, <3>2 DEF IsRow, OfKey, IsLive
    <3>4. QED
      BY <2>1, <3>3 DEF SendsLive, value
  <2>4. QED
    BY <2>1, <2>2, <2>3
<1> HIDE DEF updates
<1>3. QED
  BY <1>1, <1>2 DEF AreRows, updates

\* What an entry is replaced by is live, and the entry remains one where its
\* value is kept.
TurnsOn(k, upd, new) ==
  IsBlock(new) /\ IsLive(new) /\ (upd.keep = TRUE => new[1].key = k /\ IsActive(new[1]))

LEMMA ReplacementTurnsOn ==
  ASSUME NEW lines \in Seq(Line), NEW s \in Starts(lines), NEW upd,
         IsValue(upd.value), SendsLive(lines[s].key, upd)
  PROVE  TurnsOn(lines[s].key, upd, Replacement(EntryAt(lines, s), upd))
<1> DEFINE e == EntryAt(lines, s)
           own == lines[s].key
           value == IF upd.keep THEN e.value ELSE upd.value
           multiline == e.multiline
           enabled == upd.enabled
<1>1. e.key = own /\ own \in Keys
  BY EntryLines DEF EntryAt, Starts
<1>2. multiline \in BOOLEAN /\ IsInputOf(own, multiline, e.value)
  BY EntryIsInput
<1>3. e.value \in Seq(Line) /\ IsLive(e.value) /\ Fits(own, e.value, multiline)
  BY <1>2, InputIsLive
<1>4. value \in Seq(Line) /\ IsLive(value) /\ (upd.keep = TRUE => Fits(own, value, multiline))
  BY <1>3 DEF SendsLive
<1>5. IsBlock(Replacement(e, upd))
  BY ReplacementIsBlock DEF IsValue
<1>6. Replacement(e, upd) = RenderEntryLines(own, enabled, value, multiline)
  BY <1>1 DEF Replacement
<1>7. enabled = TRUE
  BY DEF SendsLive
<1> HIDE DEF e, own, value, multiline, enabled
<1>8. SwitchesOn(own, value, multiline, RenderEntryLines(own, enabled, value, multiline))
  BY <1>1, <1>2, <1>4, <1>7, RenderedLive
<1>9. TurnsOn(own, upd, Replacement(e, upd))
  BY <1>4, <1>5, <1>6, <1>8 DEF SwitchesOn, TurnsOn
<1>10. QED
  BY <1>9 DEF own, e

\* From line n on, the entries of k are active, and there is one if there was
\* one and the update keeps its value.
SwitchedFrom(lines, text, k, upd, n) ==
  /\ \A p \in n..Len(text) : EntryOf(text, k, p) => IsActive(text[p])
  /\ upd.keep = TRUE /\ (\E t \in Starts(lines) : t >= n /\ lines[t].key = k) =>
       \E p \in n..Len(text) : EntryOf(text, k, p)

LEMMA SwitchedReplaced ==
  ASSUME NEW lines \in Seq(Line), NEW text, NEW ks, NEW s \in Starts(lines), NEW m,
         FirstFrom(lines, s + 1, m), Agrees(lines, text, ks, m),
         NEW e, e.start = s, e.end = EndOf(lines, s),
         NEW new, IsBlock(new), IsLive(new),
         NEW k \in Keys, NEW upd, SwitchedFrom(lines, text, k, upd, m),
         lines[s].key = k /\ upd.keep = TRUE => EntryOf(new, k, 1)
  PROVE  SwitchedFrom(lines, Splice(text, e, new), k, upd, s)
<1> DEFINE result == Splice(text, e, new)
           end == EndOf(lines, s)
           d == Len(new) - (end - s + 1)
<1>1. s \in 1..Len(lines) /\ Len(lines) \in Nat /\ s \in Nat /\ s >= 1
  BY DEF Starts
<1>2. IsSplice(text, s, end, new, result)
  <2>1. BelowShows(lines, text, s, m, e, new, k)
    BY ShownBelowReplaced
  <2>2. QED
    BY <2>1 DEF BelowShows
<1>3. new \in Seq(Line) /\ Len(new) \in Nat /\ Len(new) >= 1
  BY EmptySeq DEF IsBlock
<1>4. end \in s..Len(lines) /\ end < m
  BY <1>1, EndExists, StandsStill DEF EndsAt
<1>5. /\ m \in (s + 1)..(Len(lines) + 1) /\ \A r \in (s + 1)..(m - 1) : r \notin Starts(lines)
  BY DEF FirstFrom
<1>6. text \in Seq(Line) /\ Len(text) \in Nat /\ m - 1 <= Len(text) /\ \A i \in 1..(m - 1) : text[i] = lines[i]
  BY DEF Agrees
<1> HIDE DEF result, end
<1>7. end \in Nat /\ m \in Nat /\ d \in Int /\ end + 1 + d = s + Len(new)
  BY <1>1, <1>3, <1>4, <1>5
<1>8. /\ result \in Seq(Line) /\ Len(result) = Len(text) + d
      /\ \A i \in 1..Len(new) : result[s - 1 + i] = new[i]
      /\ \A i \in (end + 1)..Len(text) : result[i + d] = text[i]
  BY <1>2 DEF IsSplice
<1> HIDE DEF d
<1>9. ASSUME NEW p \in s..Len(result), EntryOf(result, k, p) PROVE IsActive(result[p])
  <2>1. CASE p < s + Len(new)
    <3> DEFINE i == p - (s - 1)
    <3>1. i \in 1..Len(new) /\ s - 1 + i = p
      BY <2>1, <1>1, <1>3
    <3>2. result[p] = new[i]
      BY <3>1, <1>8
    <3>3. new[i].hash = 0
      BY <3>1 DEF IsLive
    <3>4. QED
      BY <3>2, <3>3, <1>9, LiveIsActive DEF EntryOf
  <2>2. CASE ~(p < s + Len(new))
    <3> DEFINE i == p - d
    <3>1. i \in (end + 1)..Len(text) /\ i + d = p /\ i \in 1..Len(text)
      BY <2>2, <1>1, <1>3, <1>6, <1>7, <1>8
    <3>2. result[p] = text[i]
      BY <3>1, <1>8
    <3> HIDE DEF i
    <3>3. EntryOf(text, k, i)
      BY <3>2, <1>9 DEF EntryOf
    <3>4. i >= m
      <4> SUFFICES ASSUME ~(i >= m) PROVE FALSE
        OBVIOUS
      <4>1. i \in 1..(m - 1) /\ i \in (s + 1)..(m - 1) /\ i \in 1..Len(lines)
        BY <3>1, <1>1, <1>4, <1>5, <1>7
      <4>2. i \in Starts(lines)
        BY <4>1, <3>3, <1>6 DEF EntryOf, Starts
      <4>3. QED
        BY <4>1, <4>2, <1>5
    <3>5. i \in m..Len(text)
      BY <3>1, <3>4, <1>6, <1>7
    <3>6. QED
      BY <3>2, <3>3, <3>5 DEF SwitchedFrom
  <2>3. QED
    BY <2>1, <2>2
<1>10. ASSUME upd.keep = TRUE, NEW t \in Starts(lines), t >= s, lines[t].key = k
       PROVE  \E p \in s..Len(result) : EntryOf(result, k, p)
  <2>1. CASE t = s
    <3>1. EntryOf(new, k, 1) /\ 1 \in 1..Len(new) /\ s - 1 + 1 = s
      BY <2>1, <1>1, <1>3, <1>10
    <3>2. result[s] = new[1]
      BY <3>1, <1>8
    <3>3. EntryOf(result, k, s) /\ s \in s..Len(result)
      BY <3>1, <3>2, <1>1, <1>3, <1>4, <1>5, <1>6, <1>7, <1>8 DEF EntryOf
    <3>4. QED
      BY <3>3
  <2>2. CASE t # s
    <3>1. t >= m
      BY <2>2, <1>1, <1>5, <1>10 DEF Starts
    <3>2. PICK p \in m..Len(text) : EntryOf(text, k, p)
      BY <3>1, <1>10 DEF SwitchedFrom
    <3> DEFINE q == p + d
    <3>3. p \in (end + 1)..Len(text) /\ q \in s..Len(result)
      BY <3>2, <1>1, <1>3, <1>4, <1>6, <1>7, <1>8
    <3>4. result[q] = text[p]
      BY <3>3, <1>8
    <3>5. EntryOf(result, k, q)
      BY <3>2, <3>4 DEF EntryOf
    <3>6. QED
      BY <3>3, <3>5
  <2>3. QED
    BY <2>1, <2>2
<1>11. QED
  BY <1>9, <1>10 DEF SwitchedFrom, result

LEMMA SwitchedAbove ==
  ASSUME NEW lines \in Seq(Line), NEW text, NEW ks, NEW s \in Starts(lines), NEW m,
         FirstFrom(lines, s + 1, m), Agrees(lines, text, ks, m),
         NEW k \in ks, lines[s].key # k, NEW upd, SwitchedFrom(lines, text, k, upd, m)
  PROVE  SwitchedFrom(lines, text, k, upd, s)
<1>1. s \in 1..Len(lines) /\ Len(lines) \in Nat /\ s \in Nat
  BY DEF Starts
<1>2. m \in (s + 1)..(Len(lines) + 1) /\ \A r \in (s + 1)..(m - 1) : r \notin Starts(lines)
  BY DEF FirstFrom
<1>3. text \in Seq(Line) /\ Len(text) \in Nat /\ m - 1 <= Len(text) /\ \A i \in 1..(m - 1) : text[i] = lines[i]
  BY DEF Agrees
<1>4. ASSUME NEW p \in s..Len(text), EntryOf(text, k, p) PROVE p \in m..Len(text)
  <2> SUFFICES ASSUME ~(p >= m) PROVE FALSE
    BY <1>1, <1>2, <1>3
  <2>1. p \in 1..(m - 1) /\ p \in 1..Len(lines) /\ (p = s \/ p \in (s + 1)..(m - 1))
    BY <1>1, <1>2
  <2>2. p \in Starts(lines) /\ lines[p].key = k
    BY <2>1, <1>3, <1>4 DEF EntryOf, Starts
  <2>3. QED
    BY <2>1, <2>2, <1>2
<1>5. \A p \in m..Len(text) : p \in s..Len(text)
  BY <1>1, <1>2, <1>3
<1>6. \A t \in Starts(lines) : t >= s /\ lines[t].key = k => t >= m
  BY <1>1, <1>2 DEF Starts
<1>7. QED
  BY <1>4, <1>5, <1>6 DEF SwitchedFrom

\* All updates switch on, and each sends live lines.
AllOn(updates) == AreUpdates(updates) /\ \A k \in DOMAIN updates : SendsLive(k, updates[k])

LEMMA RewrittenTurnsOn ==
  ASSUME NEW lines \in Seq(Line), NEW updates, AllOn(updates), NEW k \in DOMAIN updates
  PROVE  /\ AllActive(Rewritten(lines, updates), k)
         /\ updates[k].keep = TRUE /\ Has(lines, k) => Has(Rewritten(lines, updates), k)
<1> DEFINE ks == DOMAIN updates
           upd == updates[k]
           Good == {p \in Seq(Line) \X (1..(Len(lines) + 1)) : SwitchedFrom(lines, p[1], k, upd, p[2])}
<1>1. Len(lines) \in Nat /\ AreUpdates(updates) /\ k \in Keys
  BY DEF AllOn, AreUpdates
<1>2. <<lines, Len(lines) + 1>> \in Good
  <2>1. \A t \in Starts(lines) : ~(t >= Len(lines) + 1)
    BY <1>1 DEF Starts
  <2>2. (Len(lines) + 1)..Len(lines) = {}
    BY <1>1
  <2>3. QED
    BY <2>1, <2>2, <1>1 DEF SwitchedFrom
<1>3. ASSUME NEW s \in Starts(lines), NEW text, NEW m, FirstFrom(lines, s + 1, m),
             Agrees(lines, text, ks, m), <<text, m>> \in Good
      PROVE  /\ s \in Targeted(lines, updates) => <<EntryRewritten(lines, updates, s, text), s>> \in Good
             /\ s \notin Targeted(lines, updates) => <<text, s>> \in Good
  <2>1. SwitchedFrom(lines, text, k, upd, m) /\ text \in Seq(Line) /\ s \in 1..(Len(lines) + 1)
    BY <1>1, <1>3 DEF Starts
  <2>2. ASSUME s \in Targeted(lines, updates)
        PROVE  <<EntryRewritten(lines, updates, s, text), s>> \in Good
    <3> DEFINE e == EntryAt(lines, s)
               own == lines[s].key
               sent == updates[own]
               new == Replacement(e, sent)
               result == EntryRewritten(lines, updates, s, text)
    <3>1. e.key = own /\ e.start = s /\ e.end = EndOf(lines, s) /\ result = Splice(text, e, new)
      BY DEF EntryAt, EntryRewritten
    <3>2. own \in ks
      BY <2>2 DEF Targeted
    <3>3. result \in Seq(Line)
      BY <3>2, <1>1, <1>3, EntryRewrittenAgrees DEF Agrees
    <3>4. TurnsOn(own, sent, new)
      <4>1. IsValue(sent.value) /\ SendsLive(own, sent)
        BY <3>2 DEF AllOn, AreUpdates
      <4> HIDE DEF sent
      <4>2. QED
        BY <4>1, ReplacementTurnsOn
    <3> HIDE DEF e, new, result
    <3>5. IsBlock(new) /\ IsLive(new)
      BY <3>4 DEF TurnsOn
    <3>6. own = k /\ upd.keep = TRUE => EntryOf(new, k, 1)
      BY <3>4 DEF TurnsOn, EntryOf, IsEntryLine
    <3>7. SwitchedFrom(lines, Splice(text, e, new), k, upd, s)
      BY <3>1, <3>5, <3>6, <2>1, <1>1, <1>3, SwitchedReplaced
    <3>8. QED
      BY <3>1, <3>3, <3>7, <2>1 DEF result
  <2>3. ASSUME s \notin Targeted(lines, updates) PROVE <<text, s>> \in Good
    <3>1. lines[s].key # k
      BY <2>3 DEF Targeted
    <3>2. SwitchedFrom(lines, text, k, upd, s)
      BY <3>1, <2>1, <1>3, SwitchedAbove
    <3>3. QED
      BY <3>2, <2>1
  <2>4. QED
    BY <2>2, <2>3
<1> HIDE DEF Good
<1>4. PICK n : /\ FirstFrom(lines, 1, n) /\ Agrees(lines, Rewritten(lines, updates), ks, n)
               /\ <<Rewritten(lines, updates), n>> \in Good
  BY <1>1, <1>2, <1>3, BottomUp
<1> DEFINE text == Rewritten(lines, updates)
<1>5. text \in Seq(Line) /\ SwitchedFrom(lines, text, k, upd, n)
  BY <1>4 DEF Good
<1>6. n \in 1..(Len(lines) + 1) /\ \A r \in 1..(n - 1) : r \notin Starts(lines)
  BY <1>4 DEF FirstFrom
<1>7. \A i \in 1..(n - 1) : text[i] = lines[i]
  BY <1>4 DEF Agrees
<1> HIDE DEF text, upd
<1>8. ASSUME NEW p \in Starts(text) PROVE p \in n..Len(text)
  <2>1. p \in 1..Len(text) /\ Len(text) \in Nat /\ IsEntryLine(text[p])
    BY <1>5 DEF Starts
  <2>2. ~(p < n)
    <3> SUFFICES ASSUME p < n PROVE FALSE
      OBVIOUS
    <3>1. p \in 1..(n - 1) /\ p \in 1..Len(lines)
      BY <2>1, <1>1, <1>6
    <3>2. QED
      BY <3>1, <2>1, <1>6, <1>7 DEF Starts
  <2>3. QED
    BY <2>1, <2>2, <1>6
<1>9. AllActive(text, k)
  BY <1>5, <1>8 DEF AllActive, SwitchedFrom, EntryOf, Starts
<1>10. ASSUME upd.keep = TRUE, Has(lines, k) PROVE Has(text, k)
  <2>1. PICK t \in Starts(lines) : lines[t].key = k
    BY <1>10 DEF Has
  <2>2. t >= n
    BY <1>1, <1>6 DEF Starts
  <2>3. PICK p \in n..Len(text) : EntryOf(text, k, p)
    BY <2>1, <2>2, <1>5, <1>10 DEF SwitchedFrom
  <2>4. p \in 1..Len(text)
    BY <1>6
  <2>5. QED
    BY <2>3, <2>4, <1>5 DEF Has, EntryOf, Starts
<1>11. QED
  BY <1>9, <1>10 DEF text, upd

\* Joining the lines and splitting them again adds no entry.
LEMMA RejoinAllActive ==
  ASSUME NEW lines \in Seq(Line), NEW k, AllActive(lines, k)
  PROVE  AllActive(Rejoin(lines), k)
<1>1. Len(lines) \in Nat
  OBVIOUS
<1>2. CASE lines = <<>>
  <2> DEFINE blank == Blank
  <2>1. Rejoin(lines) = <<blank>> /\ blank \in Line /\ ~IsEntryLine(blank)
    BY <1>2, BlankIsLine DEF Rejoin
  <2> HIDE DEF blank
  <2> DEFINE text == <<blank>>
  <2>2. text \in Seq(Line) /\ Len(text) = 1 /\ text[1] = blank
    BY <2>1
  <2> HIDE DEF text
  <2>3. Starts(text) = {}
    BY <2>1, <2>2 DEF Starts
  <2>4. QED
    BY <2>1, <2>3 DEF AllActive, text
<1>3. CASE lines # <<>> /\ Len(lines) > 1 /\ Last(lines) = Blank
  <2> DEFINE text == SubSeq(lines, 1, Len(lines) - 1)
  <2>1. Rejoin(lines) = text
    BY <1>3, <1>1 DEF Rejoin, Front
  <2>2. text \in Seq(Line) /\ Len(text) = Len(lines) - 1 /\ \A i \in 1..(Len(lines) - 1) : text[i] = lines[i]
    BY <1>3
  <2> HIDE DEF text
  <2>3. \A s \in Starts(text) : s \in Starts(lines) /\ text[s] = lines[s]
    BY <2>2, <1>1 DEF Starts
  <2>4. QED
    BY <2>1, <2>3 DEF AllActive
<1>4. CASE lines # <<>> /\ ~(Len(lines) > 1 /\ Last(lines) = Blank)
  <2>1. Rejoin(lines) = lines
    BY <1>4 DEF Rejoin
  <2>2. QED
    BY <2>1
<1>5. QED
  BY <1>2, <1>3, <1>4

\* A key that is missing is appended.
LEMMA AppendedHas ==
  ASSUME NEW updates, AllOn(updates), NEW missing, missing \subseteq DOMAIN updates,
         NEW order \in Seq(Keys), NEW i \in DOMAIN order, order[i] \in missing
  PROVE  HasActive(Appended(updates, missing, order), order[i])
<1> DEFINE Long(k) == Len(updates[k].value) > 1
           New(k) == RenderEntryLines(k, updates[k].enabled, updates[k].value, Long(k))
           parts == [j \in DOMAIN order |-> IF order[j] \in missing THEN New(order[j]) ELSE <<>>]
<1>1. AreUpdates(updates)
  BY DEF AllOn
<1>2. ASSUME NEW k \in missing PROVE IsBlock(New(k)) /\ New(k)[1].key = k /\ IsActive(New(k)[1])
  <2> DEFINE upd == updates[k]
             value == upd.value
             enabled == upd.enabled
             several == Long(k)
  <2>1. k \in Keys /\ IsValue(value) /\ SendsLive(k, upd)
    BY DEF AllOn, AreUpdates
  <2>2. several \in BOOLEAN
    OBVIOUS
  <2>3. IsBlock(RenderEntryLines(k, enabled, value, several))
    BY <2>1, <2>2, RenderedBlock DEF IsValue
  <2>4. value \in Seq(Line) /\ IsLive(value) /\ (several => value[1].key = k) /\ (value # <<>> => ~value[1].indent)
          /\ enabled = TRUE
    BY <2>1 DEF SendsLive, IsValue
  <2> HIDE DEF value, enabled, several
  <2>5. Fits(k, value, several)
    BY <2>4 DEF Fits
  <2>6. SwitchesOn(k, value, several, RenderEntryLines(k, enabled, value, several))
    BY <2>1, <2>2, <2>4, RenderedLive
  <2>7. QED
    BY <2>3, <2>5, <2>6 DEF SwitchesOn, value, enabled, several
<1> HIDE DEF New
<1>3. DOMAIN order = 1..Len(order) /\ Len(order) \in Nat
  OBVIOUS
<1>4. \A j \in 1..Len(order) : (IF order[j] \in missing THEN New(order[j]) ELSE <<>>) \in Seq(Line)
  BY <1>2 DEF IsBlock
<1>5. parts \in Seq(Seq(Line)) /\ Len(parts) = Len(order) /\ parts[i] = New(order[i])
  BY <1>3, <1>4
<1> DEFINE all == FlattenSeq(parts)
<1>6. Appended(updates, missing, order) = all
  BY DEF Appended, New
<1> HIDE DEF parts
<1>7. all \in Seq(Line) /\ ToSet(parts[i]) \subseteq ToSet(all)
  BY <1>3, <1>5, FlattenedElements
<1> DEFINE new == New(order[i])
<1>8. new \in Seq(Line) /\ new # <<>> /\ new[1].key = order[i] /\ IsActive(new[1])
  BY <1>2 DEF IsBlock
<1> HIDE DEF all, new
<1>9. new[1] \in ToSet(new)
  BY <1>8, EmptySeq DEF ToSet
<1>10. new[1] \in ToSet(all)
  BY <1>5, <1>7, <1>9 DEF new
<1>11. PICK s \in DOMAIN all : all[s] = new[1]
  BY <1>10 DEF ToSet
<1>12. s \in Starts(all) /\ all[s].key = order[i] /\ IsActive(all[s])
  BY <1>8, <1>11 DEF Starts, IsEntryLine
<1>13. QED
  BY <1>6, <1>12 DEF HasActive

\* What is appended leaves what is there, and is there.
LEMMA ExtendedHas ==
  ASSUME NEW lines \in Seq(Line), NEW header \in Line, NEW more \in Seq(Line), NEW k
  PROVE  LET text == WithoutTail(lines) \o <<Blank, header>> \o more IN
         /\ text \in Seq(Line)
         /\ Has(lines, k) => Has(text, k)
         /\ HasActive(lines, k) \/ HasActive(more, k) => HasActive(text, k)
<1> DEFINE gap == <<Blank, header>>
           top == WithoutTail(lines) \o gap
           text == top \o more
<1>1. text \in Seq(Line) /\ Keeps(lines, text, {})
  BY ExtendedKeeps
<1>2. top \in Seq(Line)
  <2>1. WithoutTail(lines) \in Seq(Line)
    <3>1. PICK n \in 0..Len(lines) : WithoutTail(lines) = SubSeq(lines, 1, n)
      BY TailIsBlank
    <3>2. SubSeq(lines, 1, n) \in Seq(Line)
      OBVIOUS
    <3>3. QED
      BY <3>1, <3>2
  <2>2. gap \in Seq(Line)
    BY BlankIsLine
  <2> HIDE DEF gap
  <2>3. QED
    BY <2>1, <2>2, ConcatProperties
<1> HIDE DEF top
<1>3. /\ Len(text) = Len(top) + Len(more)
      /\ \A i \in 1..Len(more) : text[Len(top) + i] = more[i]
  BY <1>2, JoinedPlaces
<1> HIDE DEF text
<1>4. (Has(lines, k) => Has(text, k)) /\ (HasActive(lines, k) => HasActive(text, k))
  BY <1>1, KeepsHas
<1>5. ASSUME HasActive(more, k) PROVE HasActive(text, k)
  <2>1. PICK s \in Starts(more) : more[s].key = k /\ IsActive(more[s])
    BY <1>5 DEF HasActive
  <2> DEFINE p == Len(top) + s
  <2>2. s \in 1..Len(more) /\ Len(more) \in Nat /\ Len(top) \in Nat
    BY <1>2 DEF Starts
  <2>3. text[p] = more[s] /\ p \in 1..Len(text)
    BY <1>3, <2>2
  <2> HIDE DEF p
  <2>4. p \in Starts(text)
    BY <1>1, <2>1, <2>3 DEF Starts
  <2>5. QED
    BY <2>1, <2>3, <2>4 DEF HasActive
<1>6. QED
  BY <1>1, <1>4, <1>5 DEF text, top, gap

\* What upsert returns has every key of the order that is updated, switched on,
\* and every key whose value is kept or that is not updated.
LEMMA UpsertTurnsOn ==
  ASSUME NEW lines \in Seq(Line), NEW updates, AllOn(updates), NEW header \in Line, NEW order \in Seq(Keys)
  PROVE  LET new == Upsert(lines, updates, header, order) IN
         /\ new \in Seq(Line)
         /\ \A i \in DOMAIN order : order[i] \in DOMAIN updates => HasActive(new, order[i])
         /\ \A k : Has(lines, k) /\ (k \in DOMAIN updates => updates[k].keep = TRUE) => Has(new, k)
<1> DEFINE rewritten == Rewritten(lines, updates)
           updated == ApplyUpdates(lines, updates)
           missing == Missing(updated, updates)
           more == Appended(updates, missing, order)
           extended == WithoutTail(updated) \o <<Blank, header>> \o more
           new == Upsert(lines, updates, header, order)
<1>1. AreUpdates(updates)
  BY DEF AllOn
<1>2. rewritten \in Seq(Line) /\ updated = Rejoin(rewritten)
  BY <1>1, RewrittenKeeps DEF ApplyUpdates
<1>3. new \in Seq(Line) /\ Keeps(lines, new, DOMAIN updates)
  BY <1>1, UpsertKeeps
<1>4. missing \subseteq DOMAIN updates
  BY DEF Missing
<1>5. more \in Seq(Line)
  BY <1>1, <1>4, AppendedLines, UpdatesAreTexts
<1>6. new = IF missing = {} THEN updated ELSE extended
  BY DEF Upsert
<1>7. \A i \in DOMAIN order : order[i] \in missing => HasActive(more, order[i])
  BY <1>4, AppendedHas
<1>8. \A k \in DOMAIN updates : k \notin missing => Has(updated, k)
  BY DEF Missing, Has
<1>9. \A k \in DOMAIN updates :
        AllActive(rewritten, k) /\ (updates[k].keep = TRUE /\ Has(lines, k) => Has(rewritten, k))
  BY RewrittenTurnsOn
<1> HIDE DEF rewritten, updated, missing, more, new
<1>10. updated \in Seq(Line) /\ Keeps(rewritten, updated, {})
  BY <1>2, RejoinKeeps
<1>11. \A k : /\ Has(updated, k) => Has(extended, k)
              /\ HasActive(updated, k) \/ HasActive(more, k) => HasActive(extended, k)
  BY <1>5, <1>10, ExtendedHas
<1> HIDE DEF extended
<1>12. \A k : (Has(updated, k) => Has(new, k)) /\ (HasActive(updated, k) => HasActive(new, k))
  BY <1>6, <1>11
<1>13. ASSUME NEW i \in DOMAIN order, order[i] \in DOMAIN updates PROVE HasActive(new, order[i])
  <2> DEFINE k == order[i]
  <2>1. CASE k \in missing
    BY <2>1, <1>6, <1>7, <1>11
  <2>2. CASE k \notin missing
    <3>1. Has(updated, k) /\ AllActive(updated, k)
      BY <2>2, <1>2, <1>8, <1>9, <1>13, RejoinAllActive
    <3>2. HasActive(updated, k)
      BY <3>1 DEF Has, AllActive, HasActive
    <3>3. QED
      BY <3>2, <1>12
  <2>3. QED
    BY <2>1, <2>2
<1>14. ASSUME NEW k, Has(lines, k), k \in DOMAIN updates => updates[k].keep = TRUE PROVE Has(new, k)
  <2>1. CASE k \notin DOMAIN updates
    BY <2>1, <1>3, <1>14, KeepsHas
  <2>2. CASE k \in DOMAIN updates
    <3>1. Has(rewritten, k)
      BY <2>2, <1>9, <1>14
    <3>2. Has(updated, k)
      BY <3>1, <1>2, <1>10, KeepsHas
    <3>3. QED
      BY <3>2, <1>12
  <2>3. QED
    BY <2>1, <2>2
<1>15. QED
  BY <1>3, <1>13, <1>14 DEF new

-----------------------------------------------------------------------------
(* What a text shows, entry by entry, and what putting texts together and  *)
(* configuring does to it.                                                 *)

\* An entry as a reader sees it: its key, its switch and its value.
View(text, s) == <<text[s].key, Shown(EntryAt(text, s))>>

Shows(text) == {View(text, s) : s \in Starts(text)}

ShownFrom(lines, k, r) == {Shown(EntryAt(lines, s)) : s \in {t \in r..Len(lines) : EntryOf(lines, k, t)}}

\* What is seen of a key is what its entries show.
LEMMA SeenElements ==
  ASSUME NEW lines \in Seq(Line), NEW k
  PROVE  ToSet(Seen(lines, k)) = ShownFrom(lines, k, 1)
<1> DEFINE f == ListOf(lines, k)
           last == Len(lines) + 1
           W == {Shown(EntryAt(lines, r)) : r \in 1..Len(lines)}
           S == {r \in 1..last : ToSet(f[r]) = ShownFrom(lines, k, r)}
<1>1. last \in Nat /\ 1 <= last /\ 1 \in Nat /\ last \in 1..last /\ Len(lines) \in Nat
  OBVIOUS
<1>2. Lists(lines, k, f) /\ Seen(lines, k) = f[1]
  BY SeenIsListed
<1>3. \A r \in 1..last : f[r] \in Seq(W)
  BY ListedIsSequence
<1> HIDE DEF f, W
<1>4. last \in S
  <2>1. f[last] = <<>>
    BY <1>2 DEF Lists
  <2>2. ToSet(<<>>) = {}
    BY DEF ToSet
  <2>3. ShownFrom(lines, k, last) = {}
    BY <1>1 DEF ShownFrom
  <2>4. QED
    BY <1>1, <2>1, <2>2, <2>3
<1>5. ASSUME NEW r \in 1..(last - 1), r + 1 \in S PROVE r \in S
  <2>1. /\ r \in 1..Len(lines) /\ r \in 1..last /\ r + 1 \in 1..last
        /\ r..Len(lines) = {r} \cup (r + 1)..Len(lines)
    BY <1>1
  <2> DEFINE view == Shown(EntryAt(lines, r))
             rest == f[r + 1]
             one == <<view>>
  <2>2. f[r] = (IF EntryOf(lines, k, r) THEN one \o rest ELSE rest)
    BY <2>1, <1>2 DEF Lists
  <2>3. ToSet(rest) = ShownFrom(lines, k, r + 1)
    BY <1>5
  <2>4. ShownFrom(lines, k, r) = (IF EntryOf(lines, k, r) THEN {view} ELSE {}) \cup ShownFrom(lines, k, r + 1)
    BY <2>1 DEF ShownFrom
  <2>5. rest \in Seq(W)
    BY <2>1, <1>3
  <2> HIDE DEF view, rest
  <2>6. one \in Seq(W \cup {view}) /\ ToSet(one) = {view} /\ rest \in Seq(W \cup {view})
    BY <2>5 DEF ToSet
  <2> HIDE DEF one
  <2>7. ToSet(one \o rest) = {view} \cup ToSet(rest)
    BY <2>6, ConcatElements
  <2>8. ToSet(f[r]) = ShownFrom(lines, k, r)
    BY <2>2, <2>3, <2>4, <2>7
  <2>9. QED
    BY <2>1, <2>8
<1> HIDE DEF S
<1>6. \A r \in 1..last : r \in S
  BY <1>1, <1>4, <1>5, Upwards
<1>7. QED
  BY <1>1, <1>2, <1>6 DEF S

LEMMA SeenIsShown ==
  ASSUME NEW lines \in Seq(Line), NEW k
  PROVE  /\ \A s \in Starts(lines) : lines[s].key = k => Shown(EntryAt(lines, s)) \in ToSet(Seen(lines, k))
         /\ \A x \in ToSet(Seen(lines, k)) : <<k, x>> \in Shows(lines)
<1>1. ToSet(Seen(lines, k)) = ShownFrom(lines, k, 1)
  BY SeenElements
<1>2. {t \in 1..Len(lines) : EntryOf(lines, k, t)} = {s \in Starts(lines) : lines[s].key = k}
  BY DEF EntryOf, Starts
<1>3. QED
  BY <1>1, <1>2 DEF ShownFrom, Shows, View

LEMMA SameIsViewed ==
  ASSUME NEW lines, NEW s, NEW text, NEW p, SameEntry(EntryAt(text, p), EntryAt(lines, s))
  PROVE  View(text, p) = View(lines, s)
<1> DEFINE e == EntryAt(text, p)
           f == EntryAt(lines, s)
<1>1. /\ [e EXCEPT !.start = 0, !.end = 0].key = e.key /\ e.key = text[p].key
      /\ [f EXCEPT !.start = 0, !.end = 0].key = f.key /\ f.key = lines[s].key
  BY DEF EntryAt
<1>2. Shown(e) = Shown(f)
  BY SameIsShown
<1> HIDE DEF e, f
<1>3. e.key = f.key
  BY <1>1 DEF SameEntry, e, f
<1>4. QED
  BY <1>1, <1>2, <1>3 DEF View, e, f

\* Two texts, one behind the other, show what both show.
LEMMA JoinedShows ==
  ASSUME NEW a \in Seq(Line), NEW b \in Seq(Line), b = <<>> \/ ~b[1].indent \/ IsBlank(b[1])
  PROVE  Shows(a) \subseteq Shows(a \o b) /\ Shows(a \o b) \subseteq Shows(a) \cup Shows(b)
<1>1. \A p \in Starts(a) : p \in Starts(a \o b) /\ SameEntry(EntryAt(a \o b, p), EntryAt(a, p))
  BY JoinedEntries
<1>2. \A p \in Starts(a \o b) : JoinedEntry(a, b, p)
  BY JoinedEntries
<1>3. ASSUME NEW p \in Starts(a) PROVE View(a, p) \in Shows(a \o b)
  <2>1. View(a \o b, p) = View(a, p)
    BY <1>1, SameIsViewed
  <2>2. QED
    BY <2>1, <1>1 DEF Shows
<1>4. ASSUME NEW p \in Starts(a \o b) PROVE View(a \o b, p) \in Shows(a) \cup Shows(b)
  <2>1. CASE p \in Starts(a) /\ SameEntry(EntryAt(a \o b, p), EntryAt(a, p))
    BY <2>1, SameIsViewed DEF Shows
  <2>2. CASE \E q \in Starts(b) : SameEntry(EntryAt(a \o b, p), EntryAt(b, q))
    BY <2>2, SameIsViewed DEF Shows
  <2>3. QED
    BY <2>1, <2>2, <1>2 DEF JoinedEntry
<1>5. QED
  BY <1>3, <1>4 DEF Shows

\* Blank lines taken from the end, or added, show nothing.
LEMMA PartShows ==
  ASSUME NEW lines \in Seq(Line), NEW n \in 0..Len(lines), \A i \in (n + 1)..Len(lines) : IsBlank(lines[i])
  PROVE  SubSeq(lines, 1, n) \in Seq(Line) /\ Shows(SubSeq(lines, 1, n)) \subseteq Shows(lines)
<1> DEFINE top == SubSeq(lines, 1, n)
           foot == SubSeq(lines, n + 1, Len(lines))
<1>1. Len(lines) \in Nat /\ n \in Nat /\ n <= Len(lines)
  OBVIOUS
<1>2. top \in Seq(Line) /\ Len(top) = n /\ \A i \in 1..n : top[i] = lines[i]
  BY <1>1
<1>3. foot \in Seq(Line) /\ Len(foot) = Len(lines) - n /\ \A i \in 1..(Len(lines) - n) : foot[i] = lines[n + i]
  BY <1>1
<1> HIDE DEF top, foot
<1>4. foot = <<>> \/ ~foot[1].indent \/ IsBlank(foot[1])
  <2>1. CASE n = Len(lines)
    BY <2>1, <1>1, <1>3, EmptySeq
  <2>2. CASE n # Len(lines)
    <3>1. 1 \in 1..(Len(lines) - n) /\ n + 1 \in (n + 1)..Len(lines)
      BY <2>2, <1>1
    <3>2. IsBlank(foot[1])
      BY <3>1, <1>3
    <3>3. QED
      BY <3>2
  <2>3. QED
    BY <2>1, <2>2
<1>5. top \o foot = lines
  <2>1. /\ top \o foot \in Seq(Line) /\ Len(top \o foot) = n + Len(foot)
        /\ \A i \in 1..n : (top \o foot)[i] = top[i]
        /\ \A i \in 1..Len(foot) : (top \o foot)[n + i] = foot[i]
    <3>1. Len(top) = n /\ top \in Seq(Line) /\ foot \in Seq(Line)
      BY <1>2, <1>3
    <3> DEFINE both == top \o foot
    <3>2. /\ both \in Seq(Line) /\ Len(both) = Len(top) + Len(foot)
          /\ \A i \in 1..Len(top) : both[i] = top[i]
          /\ \A i \in 1..Len(foot) : both[Len(top) + i] = foot[i]
      <4>1. top \in Seq(Line) /\ foot \in Seq(Line)
        BY <3>1
      <4>2. QED
        BY <4>1, JoinedPlaces
    <3> HIDE DEF both
    <3>3. /\ both \in Seq(Line) /\ Len(both) = n + Len(foot)
          /\ \A i \in 1..n : both[i] = top[i]
          /\ \A i \in 1..Len(foot) : both[n + i] = foot[i]
      BY <3>1, <3>2
    <3>4. QED
      BY <3>3 DEF both
  <2> DEFINE text == top \o foot
  <2> HIDE DEF text
  <2>2. Len(text) = Len(lines)
    BY <2>1, <1>1, <1>3 DEF text
  <2>3. ASSUME NEW i \in 1..Len(lines) PROVE text[i] = lines[i]
    <3>1. CASE i <= n
      BY <3>1, <2>1, <1>1, <1>2 DEF text
    <3>2. CASE ~(i <= n)
      <4> DEFINE j == i - n
      <4>1. j \in 1..(Len(lines) - n) /\ n + j = i
        BY <3>2, <1>1
      <4> HIDE DEF j
      <4>2. QED
        BY <4>1, <2>1, <1>3 DEF text
    <3>3. QED
      BY <3>1, <3>2
  <2>4. QED
    BY <2>1, <2>2, <2>3, SeqEqual DEF text
<1>6. Shows(top) \subseteq Shows(top \o foot)
  BY <1>2, <1>3, <1>4, JoinedShows
<1>7. QED
  BY <1>2, <1>5, <1>6 DEF top

LEMMA WithoutTailShows ==
  ASSUME NEW lines \in Seq(Line)
  PROVE  WithoutTail(lines) \in Seq(Line) /\ Shows(WithoutTail(lines)) \subseteq Shows(lines)
  BY TailIsBlank, PartShows

LEMMA RejoinShows ==
  ASSUME NEW lines \in Seq(Line)
  PROVE  Shows(Rejoin(lines)) \subseteq Shows(lines)
<1>1. CASE lines = <<>>
  <2> DEFINE blank == Blank
             text == <<blank>>
  <2>1. Len(text) = 1 /\ DOMAIN text = 1..1 /\ text[1] = blank
    OBVIOUS
  <2> HIDE DEF text
  <2>2. Starts(text) = {}
    BY <2>1, BlankIsLine DEF Starts
  <2>3. Rejoin(lines) = text
    BY <1>1 DEF Rejoin, text
  <2>4. QED
    BY <2>2, <2>3 DEF Shows
<1>2. CASE lines # <<>> /\ Len(lines) > 1 /\ Last(lines) = Blank
  <2> DEFINE n == Len(lines) - 1
  <2>1. Rejoin(lines) = SubSeq(lines, 1, n)
    BY <1>2 DEF Rejoin, Front
  <2>2. Len(lines) \in Nat /\ n \in 0..Len(lines) /\ (n + 1)..Len(lines) = {Len(lines)}
    BY <1>2
  <2>3. IsBlank(lines[Len(lines)])
    BY <1>2, BlankIsLine DEF Last
  <2> HIDE DEF n
  <2>4. QED
    BY <2>1, <2>2, <2>3, PartShows
<1>3. CASE lines # <<>> /\ ~(Len(lines) > 1 /\ Last(lines) = Blank)
  BY <1>3 DEF Rejoin
<1>4. QED
  BY <1>1, <1>2, <1>3

-----------------------------------------------------------------------------
(* Pointing kubespray at the repositories twice.                           *)

\* What every repository key shows afterwards.
RepoShown(k) == [enabled |-> TRUE, value |-> RepoValue[k]]

RepoShows == {<<k, RepoShown(k)>> : k \in DOMAIN RepoValue}

LEMMA RepoIsSent ==
  ASSUME NEW k \in DOMAIN RepoValue, NEW upd, upd.enabled = TRUE, IsRepo(k, upd)
  PROVE  Sends(k, upd, Several(RepoValue[k])) /\ Sent(upd) = RepoShown(k)
<1>1. Several(RepoValue[k]) \in BOOLEAN /\ IsInputOf(k, Several(RepoValue[k]), RepoValue[k])
  BY RepoIsInput
<1>2. ~upd.keep /\ upd.value = RepoValue[k]
  BY DEF IsRepo
<1>3. Sends(k, upd, Several(RepoValue[k]))
  <2> DEFINE several == Several(RepoValue[k])
  <2> HIDE DEF several
  <2>1. upd.enabled \in BOOLEAN
    OBVIOUS
  <2>2. QED
    BY <1>1, <1>2, <2>1 DEF Sends, IsInputOf, several
<1>4. QED
  BY <1>2, <1>3 DEF Sent, RepoShown

\* The entry of a repository key that is appended shows what was sent.
LEMMA NewShows ==
  ASSUME NEW k \in DOMAIN RepoValue, NEW upd, upd.enabled = TRUE, IsRepo(k, upd), NEW several,
         several = Several(upd.value), NEW new, new = RenderEntryLines(k, upd.enabled, upd.value, several)
  PROVE  IsBlock(new) /\ Shows(new) \subseteq RepoShows
<1>1. k \in Keys /\ Sends(k, upd, several) /\ Sent(upd) = RepoShown(k)
  <2>1. several = Several(RepoValue[k])
    BY DEF IsRepo
  <2>2. QED
    BY <2>1, RepoIsSent, RepoIsInput
<1>2. IsValue(upd.value) /\ several \in BOOLEAN
  BY <1>1, RepoIsInput, InputIsRow, RowIsValue DEF IsRepo
<1>3. IsBlock(new)
  BY <1>1, <1>2, RenderedBlock DEF IsValue
<1>4. new \in Seq(Line) /\ Len(new) \in Nat /\ Len(new) >= 1
  BY <1>3, EmptySeq DEF IsBlock
<1>5. Opens(new, 1, new, upd.enabled)
  <2>1. 1 - 1 + Len(new) = Len(new) /\ \A i \in 1..Len(new) : 1 - 1 + i = i
    BY <1>4
  <2>2. QED
    BY <2>1, <1>4 DEF Opens
<1>6. IsEntryText(k, upd.enabled, new) /\ ShowsAt(new, 1, k, upd)
  BY <1>1, <1>4, <1>5, EntryTextShows
<1>7. \A s \in Starts(new) : s = 1
  <2> TAKE s \in Starts(new)
  <2>1. s \in 1..Len(new) /\ IsEntryLine(new[s])
    BY <1>4 DEF Starts
  <2>2. \A i \in 2..Len(new) : new[i].indent
    BY <1>6 DEF IsEntryText
  <2>3. QED
    BY <2>1, <2>2, <1>4, IndentedIsNoEntry
<1>8. View(new, 1) = <<k, RepoShown(k)>>
  BY <1>1, <1>6 DEF ShowsAt, View, Sent
<1>9. QED
  BY <1>3, <1>7, <1>8 DEF Shows, RepoShows

LEMMA AppendedShows ==
  ASSUME NEW lines \in Seq(Line), NEW missing
  PROVE  LET more == Appended(RepoUpdates(lines), missing, Repos) IN
         more \in Seq(Line) /\ (more = <<>> \/ ~more[1].indent) /\ Shows(more) \subseteq RepoShows
<1> DEFINE updates == RepoUpdates(lines)
           Long(k) == Len(updates[k].value) > 1
           New(k) == RenderEntryLines(k, updates[k].enabled, updates[k].value, Long(k))
           parts == [i \in DOMAIN Repos |-> IF Repos[i] \in missing THEN New(Repos[i]) ELSE <<>>]
           Good == {text \in Seq(Line) : (text = <<>> \/ ~text[1].indent) /\ Shows(text) \subseteq RepoShows}
<1>1. Appended(updates, missing, Repos) = FlattenSeq(parts)
  BY DEF Appended
<1>2. \A k \in DOMAIN RepoValue : k \in DOMAIN updates /\ updates[k].enabled = TRUE /\ IsRepo(k, updates[k])
  BY RepoUpdatesSent DEF IsUrl
<1> HIDE DEF updates
<1>3. ASSUME NEW k \in DOMAIN RepoValue PROVE New(k) \in Good
  <2> DEFINE upd == updates[k]
             several == Long(k)
             new == RenderEntryLines(k, upd.enabled, upd.value, several)
  <2>1. several = Several(upd.value)
    BY DEF Several
  <2>2. upd.enabled = TRUE /\ IsRepo(k, upd)
    BY <1>2
  <2>3. New(k) = new
    OBVIOUS
  <2> HIDE DEF upd, several
  <2>4. IsBlock(new) /\ Shows(new) \subseteq RepoShows
    BY <2>1, <2>2, NewShows
  <2> HIDE DEF new, New
  <2>5. QED
    BY <2>3, <2>4 DEF IsBlock
<1> HIDE DEF New
<1>4. <<>> \in Good
  <2>1. Starts(<<>>) = {}
    BY DEF Starts
  <2>2. QED
    BY <2>1 DEF Shows
<1>5. ASSUME NEW a \in Good, NEW b \in Good PROVE a \o b \in Good
  <2>1. Shows(a \o b) \subseteq Shows(a) \cup Shows(b)
    BY JoinedShows
  <2>2. a \o b \in Seq(Line) /\ (a \o b = <<>> \/ ~(a \o b)[1].indent)
    <3>1. CASE a = <<>>
      <4>1. a \o b = b
        BY <3>1
      <4>2. QED
        BY <4>1
    <3>2. CASE a # <<>>
      <4>1. 1 \in 1..Len(a)
        BY <3>2, EmptySeq
      <4>2. a \o b \in Seq(Line) /\ (a \o b)[1] = a[1]
        BY <4>1, JoinedPlaces
      <4>3. QED
        BY <3>2, <4>2
    <3>3. QED
      BY <3>1, <3>2
  <2>3. QED
    BY <2>1, <2>2
<1>6. parts \in Seq(Good)
  <2>1. Repos \in Seq(Keys) /\ DOMAIN Repos = 1..Len(Repos) /\ Len(Repos) \in Nat
        /\ \A i \in DOMAIN Repos : Repos[i] \in DOMAIN RepoValue
    BY EditingAssumption
  <2> HIDE DEF Good
  <2>2. \A i \in 1..Len(Repos) : (IF Repos[i] \in missing THEN New(Repos[i]) ELSE <<>>) \in Good
    BY <2>1, <1>3, <1>4
  <2>3. QED
    BY <2>1, <2>2
<1>7. Good \subseteq Seq(Line)
  OBVIOUS
<1> HIDE DEF Good, parts
<1>8. FlattenSeq(parts) \in Good
  BY <1>4, <1>5, <1>6, <1>7, FlattenedIn
<1>9. QED
  BY <1>1, <1>8 DEF Good, updates

\* Configuring shows nothing but what the rewritten entries show, and the
\* repositories.
LEMMA ConfiguredShows ==
  ASSUME NEW lines \in Seq(Line)
  PROVE  /\ Configured(lines) \in Seq(Line)
         /\ Shows(Configured(lines)) \subseteq Shows(Rewritten(lines, RepoUpdates(lines))) \cup RepoShows
<1> DEFINE updates == RepoUpdates(lines)
           rewritten == Rewritten(lines, updates)
           updated == ApplyUpdates(lines, updates)
           missing == Missing(updated, updates)
           more == Appended(updates, missing, Repos)
           top == WithoutTail(updated)
           gap == <<Blank, Header>>
           extended == top \o gap \o more
           upserted == Upsert(lines, updates, Header, Repos)
<1>1. AreUpdates(updates)
  BY RepoUpdatesAreRows, RowsAreUpdates
<1>2. more \in Seq(Line) /\ (more = <<>> \/ ~more[1].indent) /\ Shows(more) \subseteq RepoShows
  BY AppendedShows
<1>3. Configured(lines) = Rejoin(upserted) /\ upserted = IF missing = {} THEN updated ELSE extended
  BY DEF Configured, Upsert
<1> HIDE DEF updates, missing, more
<1>4. rewritten \in Seq(Line) /\ updated = Rejoin(rewritten)
  BY <1>1, RewrittenKeeps DEF ApplyUpdates
<1> HIDE DEF rewritten, updated
<1>5. updated \in Seq(Line) /\ Shows(updated) \subseteq Shows(rewritten)
  BY <1>4, RejoinKeeps, RejoinShows
<1>6. top \in Seq(Line) /\ Shows(top) \subseteq Shows(rewritten)
  BY <1>5, WithoutTailShows
<1> HIDE DEF top
<1>7. gap \in Seq(Line) /\ ~gap[1].indent /\ Shows(gap) = {}
  <2> DEFINE blank == Blank
  <2>1. Header \in Line /\ ~IsEntryLine(Header) /\ blank \in Line /\ ~blank.indent /\ ~IsEntryLine(blank)
    BY EditingAssumption, BlankIsLine DEF IsEntryLine, IsActive, IsDisabled
  <2> HIDE DEF blank
  <2> DEFINE both == <<blank, Header>>
  <2>2. both \in Seq(Line) /\ DOMAIN both = 1..2 /\ both[1] = blank /\ both[2] = Header
    BY <2>1
  <2> HIDE DEF both
  <2>3. Starts(both) = {}
    BY <2>1, <2>2 DEF Starts
  <2>4. gap = both
    BY DEF both, blank
  <2> HIDE DEF gap
  <2>5. QED
    BY <2>1, <2>2, <2>3, <2>4 DEF Shows
<1> HIDE DEF gap
<1> DEFINE head == top \o gap
<1>8. head \in Seq(Line) /\ Shows(head) \subseteq Shows(rewritten)
  BY <1>6, <1>7, JoinedShows, ConcatProperties
<1> HIDE DEF head
<1>9. head \o more \in Seq(Line) /\ Shows(head \o more) \subseteq Shows(rewritten) \cup RepoShows
  BY <1>2, <1>8, JoinedShows, ConcatProperties
<1>10. upserted \in Seq(Line) /\ Shows(upserted) \subseteq Shows(rewritten) \cup RepoShows
  BY <1>3, <1>5, <1>9 DEF head
<1> HIDE DEF upserted
<1>11. QED
  BY <1>3, <1>10, RejoinKeeps, RejoinShows DEF rewritten, updates

\* What an entry of k shows once the text was configured: what was sent, or
\* what an entry of k showed before.
IsSettled(lines, k, x) ==
  /\ k \in DOMAIN RepoValue => x = RepoShown(k)
  /\ k \in DOMAIN RepoUpdates(lines) => x.enabled = TRUE
  /\ k \notin DOMAIN RepoUpdates(lines) => <<k, x>> \in Shows(lines)

LEMMA RewrittenIsSettled ==
  ASSUME NEW lines \in Seq(Line), ReposFit(lines), NoStray(lines),
         NEW s \in Starts(Rewritten(lines, RepoUpdates(lines)))
  PROVE  LET text == Rewritten(lines, RepoUpdates(lines)) IN
         IsSettled(lines, text[s].key, Shown(EntryAt(text, s)))
<1> DEFINE updates == RepoUpdates(lines)
           text == Rewritten(lines, updates)
           k == text[s].key
           x == Shown(EntryAt(text, s))
<1>1. AreRows(updates) /\ AllOn(updates)
  BY RepoUpdatesAreRows, RowsAreUpdates DEF AllOn
<1>2. \A j \in DOMAIN RepoValue : j \in DOMAIN updates /\ updates[j].enabled = TRUE /\ IsRepo(j, updates[j])
  BY RepoUpdatesSent DEF IsUrl
<1>3. s \in Starts(text)
  OBVIOUS
<1> HIDE DEF updates
<1>4. text \in Seq(Line)
  BY <1>1, RewrittenKeeps DEF AllOn
<1>5. k \in Keys
  BY <1>3, <1>4, EntryLines DEF Starts
<1>6. x \in ToSet(Seen(text, k))
  BY <1>3, <1>4, SeenIsShown
<1>7. ASSUME k \in DOMAIN RepoValue PROVE x = RepoShown(k)
  <2> DEFINE upd == updates[k]
  <2>1. k \in DOMAIN updates /\ upd.enabled = TRUE /\ IsRepo(k, upd)
    BY <1>2, <1>7
  <2> HIDE DEF upd
  <2>2. Sends(k, upd, Several(RepoValue[k])) /\ Sent(upd) = RepoShown(k)
    BY <1>7, <2>1, RepoIsSent
  <2>3. ASSUME NEW t \in Targeted(lines, updates), lines[t].key = k
        PROVE  Sends(k, upd, EntryAt(lines, t).multiline) /\ SwallowsNothing(lines, t, upd.enabled)
    <3>1. t \in Starts(lines) /\ EntryAt(lines, t) \in Entries(lines) /\ EntryAt(lines, t).key = k
      BY <2>3 DEF Targeted, Entries, EntryAt
    <3>2. EntryAt(lines, t).multiline \in BOOLEAN
      BY <3>1, EntryIsInput
    <3>3. EntryAt(lines, t).multiline <=> Several(RepoValue[k])
      BY <1>7, <3>1 DEF ReposFit, Several
    <3>4. Several(RepoValue[k]) \in BOOLEAN
      BY <1>7, RepoIsInput
    <3>5. EntryAt(lines, t).multiline = Several(RepoValue[k])
      BY <3>2, <3>3, <3>4
    <3>6. SwallowsNothing(lines, t, upd.enabled)
      BY <2>1 DEF SwallowsNothing
    <3>7. QED
      BY <2>2, <3>5, <3>6
  <2>4. SendsAll(lines, updates, k)
    BY <2>3 DEF SendsAll, upd
  <2>5. Seen(text, k) = Times(Sent(upd), Len(Seen(lines, k)))
    BY <1>1, <2>1, <2>4, RewrittenReadsBack DEF upd
  <2>6. \A y \in ToSet(Seen(text, k)) : y = Sent(upd)
    BY <2>5 DEF ToSet, Times
  <2>7. QED
    BY <1>6, <2>2, <2>6
<1>8. ASSUME k \in DOMAIN updates PROVE x.enabled = TRUE
  <2>1. AllActive(text, k)
    BY <1>1, <1>8, RewrittenTurnsOn
  <2>2. IsActive(text[s])
    BY <2>1, <1>3 DEF AllActive
  <2>3. x.enabled = IsActive(text[s])
    BY DEF Shown, EntryAt
  <2> HIDE DEF x
  <2>4. QED
    BY <2>2, <2>3, Zenon
<1>9. ASSUME k \notin DOMAIN updates PROVE <<k, x>> \in Shows(lines)
  <2>1. Seen(text, k) = Seen(lines, k)
    BY <1>1, <1>5, <1>9, RewrittenShowsSame
  <2>2. QED
    BY <2>1, <1>6, SeenIsShown
<1>10. IsSettled(lines, k, x)
  BY <1>7, <1>8, <1>9 DEF IsSettled, updates
<1>11. QED
  BY <1>10 DEF updates

LEMMA ConfiguredIsSettled ==
  ASSUME NEW lines \in Seq(Line), ReposFit(lines), NoStray(lines), NEW s \in Starts(Configured(lines))
  PROVE  LET text == Configured(lines) IN IsSettled(lines, text[s].key, Shown(EntryAt(text, s)))
<1> DEFINE text == Configured(lines)
           rewritten == Rewritten(lines, RepoUpdates(lines))
           k == text[s].key
           x == Shown(EntryAt(text, s))
<1>1. <<k, x>> \in Shows(rewritten) \cup RepoShows
  BY ConfiguredShows DEF Shows, View
<1>2. CASE <<k, x>> \in Shows(rewritten)
  <2>1. PICK p \in Starts(rewritten) : k = rewritten[p].key /\ x = Shown(EntryAt(rewritten, p))
    BY <1>2 DEF Shows, View
  <2>2. IsSettled(lines, rewritten[p].key, Shown(EntryAt(rewritten, p)))
    BY RewrittenIsSettled
  <2> HIDE DEF rewritten, k, x
  <2>3. IsSettled(lines, k, x)
    BY <2>1, <2>2
  <2>4. QED
    BY <2>3 DEF k, x
<1>3. CASE <<k, x>> \in RepoShows
  <2>1. k \in DOMAIN RepoValue /\ x = RepoShown(k)
    BY <1>3 DEF RepoShows
  <2>2. k \in DOMAIN RepoUpdates(lines)
    BY <2>1, RepoUpdatesSent
  <2> HIDE DEF k, x
  <2>3. IsSettled(lines, k, x)
    BY <2>1, <2>2 DEF IsSettled, RepoShown
  <2>4. QED
    BY <2>3 DEF k, x
<1>4. QED
  BY <1>1, <1>2, <1>3

\* An entry that is to be switched on is on, with the value it is to have.
IsAsSent(lines, s, upd) ==
  IsActive(lines[s]) /\ upd.enabled = TRUE /\ (~upd.keep => upd.value = EntryAt(lines, s).value)

\* Entries that are as they are to be are left as they are.
LEMMA NothingToRewrite ==
  ASSUME NEW lines \in Seq(Line), NEW updates, AreUpdates(updates),
         \A s \in Targeted(lines, updates) : IsAsSent(lines, s, updates[lines[s].key])
  PROVE  Rewritten(lines, updates) = lines
<1>1. PICK f : Unrolls(lines, updates, f) /\ Rewritten(lines, updates) = f[1]
  BY RewrittenUnrolls, UpdatesAreTexts
<1> DEFINE last == Len(lines) + 1
           S == {s \in 1..last : f[s] = lines}
<1>2. last \in Nat /\ 1 <= last /\ 1 \in Nat /\ last \in 1..last
  OBVIOUS
<1>3. last \in S
  BY <1>1, <1>2 DEF Unrolls
<1>4. ASSUME NEW s \in Targeted(lines, updates) PROVE EntryRewritten(lines, updates, s, lines) = lines
  <2> DEFINE e == EntryAt(lines, s)
             upd == updates[lines[s].key]
             enabled == upd.enabled
             old == SubSeq(lines, s, EndOf(lines, s))
  <2>1. s \in Starts(lines) /\ s \in 1..Len(lines)
    BY DEF Targeted, Starts
  <2>2. e.key = lines[s].key /\ e.start = s /\ e.end = EndOf(lines, s)
    BY DEF EntryAt
  <2>3. IsActive(lines[s]) /\ enabled = TRUE /\ (~upd.keep => upd.value = e.value)
    BY DEF IsAsSent
  <2>4. EndOf(lines, s) \in s..Len(lines)
    BY <2>1, EndExists DEF EndsAt
  <2>5. Replacement(e, upd) = RenderEntryLines(e.key, enabled, e.value, e.multiline)
    <3>1. (IF upd.keep THEN e.value ELSE upd.value) = e.value
      BY <2>3
    <3> HIDE DEF e, upd
    <3>2. QED
      BY <3>1, Zenon DEF Replacement
  <2>6. enabled = e.enabled
    BY <2>3 DEF EntryAt
  <2> HIDE DEF enabled
  <2>7. RenderEntryLines(lines[s].key, enabled, e.value, e.multiline) = old
    BY <2>1, <2>6, EntryRendersItself
  <2>8. EntryRewritten(lines, updates, s, lines) = Splice(lines, e, Replacement(e, updates[e.key]))
    BY DEF EntryRewritten
  <2> HIDE DEF e
  <2>9. Splice(lines, e, old) = lines
    BY <2>1, <2>2, <2>4, SpliceSelf
  <2>10. QED
    BY <2>2, <2>5, <2>7, <2>8, <2>9
<1>5. ASSUME NEW s \in 1..(last - 1), s + 1 \in S PROVE s \in S
  <2>1. s \in 1..Len(lines) /\ s \in 1..last /\ f[s + 1] = lines
    BY <1>2, <1>5
  <2>2. IF s \in Targeted(lines, updates)
        THEN EntryRewritten(lines, updates, s, f[s + 1]) \in Seq(Line) =>
               f[s] = EntryRewritten(lines, updates, s, f[s + 1])
        ELSE f[s] = f[s + 1]
    BY <1>1, <2>1 DEF Unrolls
  <2>3. f[s] = lines
    <3>1. CASE s \in Targeted(lines, updates)
      <4>1. EntryRewritten(lines, updates, s, f[s + 1]) = lines
        BY <3>1, <2>1, <1>4
      <4>2. QED
        BY <4>1, <3>1, <2>2
    <3>2. CASE s \notin Targeted(lines, updates)
      BY <3>2, <2>1, <2>2
    <3>3. QED
      BY <3>1, <3>2
  <2>4. QED
    BY <2>1, <2>3
<1> HIDE DEF S
<1>6. \A s \in 1..last : s \in S
  BY <1>2, <1>3, <1>5, Upwards
<1>7. QED
  BY <1>1, <1>2, <1>6 DEF S

\* A download URL that shows its templated value in another text is one there.
LEMMA TemplatedIsSent ==
  ASSUME NEW lines \in Seq(Line), NEW e, IsTemplated(e), <<e.key, Shown(e)>> \in Shows(lines)
  PROVE  e.key \in DOMAIN RepoUpdates(lines)
<1>1. PICK u \in Starts(lines) : e.key = lines[u].key /\ Shown(e) = Shown(EntryAt(lines, u))
  BY DEF Shows, View
<1> DEFINE d == EntryAt(lines, u)
           words == Words(FilesRepo)
<1>2. d \in Entries(lines) /\ d.key = e.key
  BY <1>1 DEF Entries, EntryAt
<1>3. d.multiline \in BOOLEAN /\ (d.multiline => Len(d.value) > 1)
  BY <1>1, EntryIsInput DEF IsInputOf, IsBlockOf
<1> HIDE DEF d
<1>4. d.value = e.value
  <2>1. Shown(d).value = d.value /\ Shown(e).value = e.value
    BY DEF Shown
  <2>2. QED
    BY <2>1, <1>1 DEF d
<1>5. e.value = <<words>> /\ Len(<<words>>) = 1 /\ e.key \in Urls
  BY DEF IsTemplated
<1> HIDE DEF words
<1>6. ~d.multiline
  BY <1>3, <1>4, <1>5
<1>7. IsTemplated(d)
  BY <1>2, <1>4, <1>5, <1>6 DEF IsTemplated, words
<1>8. QED
  BY <1>2, <1>7, RepoUpdatesSent

\* What was configured is as it would be configured again.
LEMMA ConfiguredIsAsSent ==
  ASSUME NEW lines \in Seq(Line), ReposFit(lines), NoStray(lines),
         NEW text, text = Configured(lines), NEW s \in Targeted(text, RepoUpdates(text))
  PROVE  IsAsSent(text, s, RepoUpdates(text)[text[s].key])
<1> DEFINE k == text[s].key
           upd == RepoUpdates(text)[k]
           x == Shown(EntryAt(text, s))
<1>1. text \in Seq(Line)
  BY ConfiguredShows
<1>2. s \in Starts(text) /\ k \in DOMAIN RepoUpdates(text)
  BY DEF Targeted
<1>3. upd.enabled = TRUE /\ (IsRepo(k, upd) \/ IsUrl(text, k, upd))
  BY <1>1, <1>2, RepoUpdatesSent
<1>4. \A t \in Starts(text) : IsSettled(lines, text[t].key, Shown(EntryAt(text, t)))
  BY ConfiguredIsSettled
<1>5. IsSettled(lines, k, x)
  BY <1>2, <1>4
<1>6. x.enabled = IsActive(text[s]) /\ x.value = EntryAt(text, s).value
  BY DEF Shown, EntryAt
<1> HIDE DEF upd, x
<1>7. k \in DOMAIN RepoUpdates(lines)
  <2>1. CASE IsRepo(k, upd)
    BY <2>1, RepoUpdatesSent DEF IsRepo
  <2>2. CASE IsUrl(text, k, upd)
    <3>1. PICK e \in Entries(text) : e.key = k /\ IsTemplated(e)
      BY <2>2 DEF IsUrl
    <3>2. PICK t \in Starts(text) : e = EntryAt(text, t)
      BY <3>1 DEF Entries
    <3>3. text[t].key = k
      BY <3>1, <3>2 DEF EntryAt
    <3>4. IsSettled(lines, k, Shown(e))
      BY <3>2, <3>3, <1>4
    <3>5. k \notin DOMAIN RepoUpdates(lines) => <<e.key, Shown(e)>> \in Shows(lines)
      BY <3>1, <3>4 DEF IsSettled
    <3>6. QED
      BY <3>1, <3>5, TemplatedIsSent
  <2>3. QED
    BY <2>1, <2>2, <1>3
<1>8. x.enabled = TRUE
  BY <1>5, <1>7 DEF IsSettled
<1>9. IsActive(text[s])
  BY <1>6, <1>8
<1>10. ~upd.keep => upd.value = EntryAt(text, s).value
  <2>1. CASE IsRepo(k, upd)
    <3>1. x = RepoShown(k) /\ upd.value = RepoValue[k]
      BY <2>1, <1>5 DEF IsSettled, IsRepo
    <3>2. QED
      BY <3>1, <1>6 DEF RepoShown
  <2>2. CASE IsUrl(text, k, upd)
    BY <2>2 DEF IsUrl
  <2>3. QED
    BY <2>1, <2>2, <1>3
<1>11. QED
  BY <1>3, <1>9, <1>10 DEF IsAsSent, upd

\* After configuring, every repository key is switched on, and no key is lost.
LEMMA ConfiguredTurnsOn ==
  ASSUME NEW lines \in Seq(Line)
  PROVE  /\ Configured(lines) \in Seq(Line)
         /\ \A i \in DOMAIN Repos : HasActive(Configured(lines), Repos[i])
         /\ \A k : Has(lines, k) => Has(Configured(lines), k)
<1> DEFINE updates == RepoUpdates(lines)
           repos == {Repos[i] : i \in DOMAIN Repos}
           upserted == Upsert(lines, updates, Header, Repos)
           new == Configured(lines)
<1>1. AllOn(updates) /\ repos \subseteq DOMAIN updates
      /\ \A k \in DOMAIN updates : k \in repos \/ updates[k].keep = TRUE
  <2>1. AllOn(updates)
    BY RepoUpdatesAreRows, RowsAreUpdates DEF AllOn
  <2>2. repos = DOMAIN RepoValue
    BY EditingAssumption
  <2>3. repos \subseteq DOMAIN updates /\ \A k \in DOMAIN updates : k \in repos \/ updates[k].keep = TRUE
    BY <2>2, RepoUpdatesSent DEF IsRepo, IsUrl
  <2>4. QED
    BY <2>1, <2>3
<1>2. Header \in Line /\ Repos \in Seq(Keys)
  BY EditingAssumption
<1> HIDE DEF updates
<1>3. /\ upserted \in Seq(Line)
      /\ \A i \in DOMAIN Repos : Repos[i] \in DOMAIN updates => HasActive(upserted, Repos[i])
      /\ \A k : Has(lines, k) /\ (k \in DOMAIN updates => updates[k].keep = TRUE) => Has(upserted, k)
  BY <1>1, <1>2, UpsertTurnsOn
<1>4. new = Rejoin(upserted)
  BY DEF Configured, updates
<1> HIDE DEF upserted, new
<1>5. new \in Seq(Line) /\ Keeps(upserted, new, {})
  BY <1>3, <1>4, RejoinKeeps
<1>6. \A k : (Has(upserted, k) => Has(new, k)) /\ (HasActive(upserted, k) => HasActive(new, k))
  BY <1>3, <1>5, KeepsHas
<1>7. \A i \in DOMAIN Repos : HasActive(new, Repos[i])
  BY <1>1, <1>3, <1>6
<1>8. \A k : HasActive(new, k) => Has(new, k)
  BY DEF Has, HasActive
<1>9. ASSUME NEW k, Has(lines, k) PROVE Has(new, k)
  BY <1>1, <1>3, <1>6, <1>7, <1>8, <1>9
<1>10. QED
  BY <1>5, <1>7, <1>9 DEF new

\* Configuring what was configured only puts its lines together anew, twice.
LEMMA ConfiguredAgain ==
  ASSUME NEW lines \in Seq(Line), ReposFit(lines), NoStray(lines)
  PROVE  WithoutTail(Configured(Configured(lines))) = WithoutTail(Configured(lines))
<1> DEFINE text == Configured(lines)
           updates == RepoUpdates(text)
           updated == ApplyUpdates(text, updates)
<1>1. text \in Seq(Line) /\ \A i \in DOMAIN Repos : HasActive(text, Repos[i])
  BY ConfiguredTurnsOn
<1>2. \A s \in Targeted(text, updates) : IsAsSent(text, s, updates[text[s].key])
  BY ConfiguredIsAsSent
<1> HIDE DEF text
<1>3. AreUpdates(updates)
  BY <1>1, RepoUpdatesAreRows, RowsAreUpdates
<1>4. DOMAIN updates = DOMAIN RepoValue \cup {e.key : e \in {x \in Entries(text) : IsTemplated(x)}}
  BY <1>1, RepoUpdatesSent
<1>5. Configured(text) = Rejoin(Upsert(text, updates, Header, Repos))
  BY DEF Configured
<1> HIDE DEF updates
<1>6. updated = Rejoin(text)
  BY <1>1, <1>2, <1>3, NothingToRewrite DEF ApplyUpdates
<1>7. Keeps(text, Rejoin(text), {}) /\ Rejoin(text) \in Seq(Line)
  BY <1>1, RejoinKeeps
<1>8. ASSUME NEW k \in DOMAIN updates PROVE Has(updated, k)
  <2>1. CASE k \in DOMAIN RepoValue
    <3>1. PICK i \in DOMAIN Repos : Repos[i] = k
      BY <2>1, EditingAssumption
    <3>2. HasActive(updated, k)
      BY <3>1, <1>1, <1>6, <1>7, KeepsHas
    <3>3. QED
      BY <3>2 DEF Has, HasActive
  <2>2. CASE k \notin DOMAIN RepoValue
    <3>1. PICK e \in Entries(text) : e.key = k
      BY <2>2, <1>4
    <3>2. Has(text, k)
      BY <3>1 DEF Has, Entries, EntryAt
    <3>3. QED
      BY <3>2, <1>1, <1>6, <1>7, KeepsHas
  <2>3. QED
    BY <2>1, <2>2
<1>9. Missing(updated, updates) = {}
  BY <1>8 DEF Missing, Has
<1>10. Upsert(text, updates, Header, Repos) = Rejoin(text)
  BY <1>6, <1>9 DEF Upsert
<1>11. WithoutTail(Rejoin(Rejoin(text))) = WithoutTail(text)
  BY <1>1, <1>7, WithoutTailRejoined
<1>12. QED
  BY <1>5, <1>10, <1>11 DEF text

-----------------------------------------------------------------------------
(* A setting switched off and on again.                                    *)

\* With one entry to rewrite, that one is replaced and nothing else.
LEMMA RewrittenOnce ==
  ASSUME NEW lines \in Seq(Line), NEW updates, AreUpdates(updates), NEW s, Targeted(lines, updates) = {s}
  PROVE  Rewritten(lines, updates) = EntryRewritten(lines, updates, s, lines)
<1> DEFINE last == Len(lines) + 1
           next == s + 1
           done == EntryRewritten(lines, updates, s, lines)
<1>1. PICK f : Unrolls(lines, updates, f) /\ Rewritten(lines, updates) = f[1]
  BY RewrittenUnrolls, UpdatesAreTexts
<1>2. s \in Starts(lines) /\ s \in 1..Len(lines) /\ Len(lines) \in Nat /\ lines[s].key \in DOMAIN updates
  BY DEF Targeted, Starts
<1>3. next \in Nat /\ last \in Nat /\ next <= last /\ 1 \in Nat /\ s \in Nat /\ 1 <= s
  BY <1>2
<1>4. done \in Seq(Line)
  <2> DEFINE e == EntryAt(lines, s)
             new == Replacement(e, updates[e.key])
  <2>1. e.key = lines[s].key /\ e.start = s /\ e.end = EndOf(lines, s)
    BY DEF EntryAt
  <2>2. IsValue(updates[e.key].value)
    BY <2>1, <1>2 DEF AreUpdates
  <2>3. new \in Seq(Line)
    BY <2>2, <1>2, ReplacementIsBlock DEF IsBlock, IsValue
  <2>4. EndOf(lines, s) \in s..Len(lines)
    BY <1>2, EndExists DEF EndsAt
  <2>5. done = Splice(lines, e, new)
    BY DEF EntryRewritten
  <2> HIDE DEF done, e, new
  <2>6. QED
    BY <2>1, <2>3, <2>4, <2>5, <1>2, SplicedLines DEF IsSplice
<1> HIDE DEF done
<1>5. f[next] = lines
  <2> DEFINE S == {r \in next..last : f[r] = lines}
  <2>1. last \in S
    BY <1>1, <1>3 DEF Unrolls
  <2>2. ASSUME NEW r \in next..(last - 1), r + 1 \in S PROVE r \in S
    <3>1. r \in 1..Len(lines) /\ r # s /\ r \in next..last
      BY <1>2, <1>3
    <3>2. r \notin Targeted(lines, updates)
      BY <3>1
    <3>3. f[r] = f[r + 1]
      BY <3>1, <3>2, <1>1 DEF Unrolls
    <3>4. QED
      BY <3>1, <3>3, <2>2
  <2> HIDE DEF S
  <2>3. \A r \in next..last : r \in S
    BY <2>1, <2>2, <1>3, Upwards
  <2>4. next \in S
    BY <2>3, <1>3
  <2>5. QED
    BY <2>4 DEF S
<1>6. f[s] = done
  <2>1. EntryRewritten(lines, updates, s, f[s + 1]) \in Seq(Line) =>
          f[s] = EntryRewritten(lines, updates, s, f[s + 1])
    BY <1>1, <1>2 DEF Unrolls
  <2>2. EntryRewritten(lines, updates, s, f[s + 1]) = done
    BY <1>5 DEF done
  <2>3. QED
    BY <2>1, <2>2, <1>4
<1>7. f[1] = done
  <2> DEFINE S == {r \in 1..s : f[r] = done}
  <2>1. s \in S
    BY <1>3, <1>6
  <2>2. ASSUME NEW r \in 1..(s - 1), r + 1 \in S PROVE r \in S
    <3>1. r \in 1..Len(lines) /\ r # s /\ r \in 1..s
      BY <1>2, <1>3
    <3>2. r \notin Targeted(lines, updates)
      BY <3>1
    <3>3. f[r] = f[r + 1]
      BY <3>1, <3>2, <1>1 DEF Unrolls
    <3>4. QED
      BY <3>1, <3>3, <2>2
  <2> HIDE DEF S
  <2>3. \A r \in 1..s : r \in S
    BY <2>1, <2>2, <1>3, Upwards
  <2>4. 1 \in S
    BY <2>3, <1>3
  <2>5. QED
    BY <2>4 DEF S
<1>8. QED
  BY <1>1, <1>7 DEF done

\* What Rejoin leaves of a text: all of it, or all but a last blank line.
IsCut(lines, top, cut) ==
  /\ top \in Seq(Line) /\ cut \in {0, 1} /\ Len(lines) = Len(top) + cut
  /\ \A i \in 1..Len(top) : top[i] = lines[i]
  /\ cut = 1 => lines[Len(lines)] = Blank

\* Lines replaced and put back, when the text in between lost some of its last.
PutBack(lines, s, end, new, text, top, cut, back) ==
  /\ lines \in Seq(Line) /\ s \in 1..Len(lines) /\ end \in s..Len(lines) /\ new \in Seq(Line)
  /\ IsSplice(lines, s, end, new, text)
  /\ IsCut(text, top, cut) /\ s - 1 + Len(new) <= Len(top)
  /\ IsSplice(top, s, s - 1 + Len(new), SubSeq(lines, s, end), back)

LEMMA SplicedBack ==
  ASSUME NEW lines, NEW s, NEW end, NEW new, NEW text, NEW top, NEW cut, NEW back,
         PutBack(lines, s, end, new, text, top, cut, back)
  PROVE  back = SubSeq(lines, 1, Len(lines) - cut)
<1>1. /\ lines \in Seq(Line) /\ s \in 1..Len(lines) /\ end \in s..Len(lines) /\ new \in Seq(Line)
      /\ IsSplice(lines, s, end, new, text)
      /\ IsCut(text, top, cut) /\ s - 1 + Len(new) <= Len(top)
      /\ IsSplice(top, s, s - 1 + Len(new), SubSeq(lines, s, end), back)
  BY DEF PutBack
<1> DEFINE old == SubSeq(lines, s, end)
           n == Len(new)
           d == n - (end - s + 1)
           m == Len(lines) - cut
           kept == SubSeq(lines, 1, m)
<1>2. top \in Seq(Line) /\ cut \in Nat /\ Len(text) = Len(top) + cut
  BY <1>1 DEF IsCut
<1>3. /\ Len(lines) \in Nat /\ s \in Nat /\ end \in Nat /\ n \in Nat
      /\ s <= end /\ end <= Len(lines) /\ 1 <= s /\ Len(top) \in Nat
  BY <1>2, <1>1
<1>4. old \in Seq(Line) /\ Len(old) = end - s + 1 /\ \A i \in 1..(end - s + 1) : old[i] = lines[s + i - 1]
  BY <1>3, <1>1, PartPlaces
<1>5. /\ Len(text) = Len(lines) + d
      /\ \A i \in 1..(s - 1) : text[i] = lines[i]
      /\ \A i \in (end + 1)..Len(lines) : text[i + d] = lines[i]
  BY <1>1 DEF IsSplice
<1>6. /\ back \in Seq(Line) /\ Len(back) = Len(top) + (Len(old) - ((s - 1 + n) - s + 1))
      /\ \A i \in 1..(s - 1) : back[i] = top[i]
      /\ \A i \in 1..Len(old) : back[s - 1 + i] = old[i]
      /\ \A i \in ((s - 1 + n) + 1)..Len(top) : back[i + (Len(old) - ((s - 1 + n) - s + 1))] = top[i]
  BY <1>1 DEF IsSplice
<1>7. \A i \in 1..Len(top) : top[i] = text[i]
  BY <1>1 DEF IsCut
<1>8. d \in Int /\ s - 1 + n = end + d /\ n = d + (end - s + 1) /\ m \in Int
  BY <1>2, <1>3
<1>9. s - 1 + n <= Len(top) /\ Len(lines) = m + cut
  BY <1>2, <1>3, <1>1
<1> HIDE DEF d, n, m
<1>10. Len(top) + cut = Len(lines) + d
  BY <1>2, <1>5
<1>11. d \in Int /\ Len(top) = m + d /\ s - 1 + n = end + d /\ n = d + (end - s + 1) /\ m \in Int
  BY <1>2, <1>3, <1>8, <1>9, <1>10
<1> DEFINE size == Len(old)
           gap == size - ((s - 1 + n) - s + 1)
<1>12. size \in Nat /\ size = end - s + 1
  BY <1>3, <1>4
<1> HIDE DEF size, old
<1>13. gap = 0 - d
  BY <1>3, <1>12, <1>11
<1>14. /\ Len(back) = Len(top) + gap
       /\ \A i \in ((s - 1 + n) + 1)..Len(top) : back[i + gap] = top[i]
  BY <1>6 DEF size
<1> HIDE DEF gap
<1>15. m \in end..Len(lines) /\ s - 1 + n <= Len(top)
  BY <1>2, <1>3, <1>11, <1>9
<1>16. kept \in Seq(Line) /\ Len(kept) = m /\ \A i \in 1..m : kept[i] = lines[i]
  BY <1>3, <1>15, <1>1
<1> HIDE DEF kept
<1>17. Len(back) = m
  BY <1>3, <1>14, <1>11, <1>13, <1>15
<1>18. ASSUME NEW i \in 1..m PROVE back[i] = lines[i]
  <2>1. CASE i <= s - 1
    <3>1. i \in 1..(s - 1) /\ i \in 1..Len(top)
      BY <2>1, <1>3, <1>15
    <3>2. QED
      BY <3>1, <1>5, <1>6, <1>7
  <2>2. CASE s <= i /\ i <= end
    <3> DEFINE j == i - (s - 1)
    <3>1. j \in 1..(end - s + 1) /\ s - 1 + j = i /\ s + j - 1 = i
      BY <2>2, <1>3
    <3> HIDE DEF j
    <3>2. back[s - 1 + j] = old[j] /\ old[j] = lines[s + j - 1]
      BY <3>1, <1>4, <1>6, <1>12 DEF size
    <3>3. QED
      BY <3>1, <3>2
  <2>3. CASE end < i
    <3> DEFINE j == i + d
    <3>1. j \in ((s - 1 + n) + 1)..Len(top) /\ j + (0 - d) = i /\ j \in 1..Len(top)
      BY <2>3, <1>3, <1>11, <1>15
    <3>2. text[j] = lines[i]
      BY <2>3, <1>3, <1>5, <1>15
    <3> HIDE DEF j
    <3>3. back[j + (0 - d)] = top[j]
      BY <3>1, <1>14, <1>13
    <3>4. QED
      BY <3>1, <3>2, <3>3, <1>7
  <2>4. QED
    BY <2>1, <2>2, <2>3, <1>3, <1>15
<1>19. back = kept
  BY <1>6, <1>16, <1>17, <1>18, SeqEqual
<1>20. QED
  BY <1>15, <1>19 DEF m, kept

LEMMA RejoinCuts ==
  ASSUME NEW lines \in Seq(Line), lines # <<>>
  PROVE  \E cut : IsCut(lines, Rejoin(lines), cut)
<1>1. CASE Len(lines) > 1 /\ Last(lines) = Blank
  <2>1. Rejoin(lines) = Front(lines)
    BY <1>1 DEF Rejoin
  <2>2. Front(lines) = SubSeq(lines, 1, Len(lines) - 1) /\ lines[Len(lines)] = Blank
    BY <1>1 DEF Front, Last
  <2>3. Len(lines) \in Nat /\ Len(lines) - 1 \in (1 - 1)..Len(lines) /\ 1 \in 1..(Len(lines) + 1)
    BY <1>1
  <2> DEFINE top == SubSeq(lines, 1, Len(lines) - 1)
  <2>4. top \in Seq(Line) /\ Len(top) = (Len(lines) - 1) - 1 + 1
        /\ \A i \in 1..((Len(lines) - 1) - 1 + 1) : top[i] = lines[1 + i - 1]
    BY <2>3, PartPlaces
  <2> HIDE DEF top
  <2>5. \A i \in 1..Len(top) : top[i] = lines[i]
    <3> TAKE i \in 1..Len(top)
    <3>1. i \in 1..((Len(lines) - 1) - 1 + 1) /\ 1 + i - 1 = i
      BY <2>3, <2>4
    <3>2. QED
      BY <3>1, <2>4
  <2>6. Len(lines) = Len(top) + 1
    BY <2>3, <2>4
  <2>7. IsCut(lines, top, 1)
    BY <2>2, <2>4, <2>5, <2>6 DEF IsCut
  <2>8. QED
    BY <2>1, <2>2, <2>7 DEF top
<1>2. CASE ~(Len(lines) > 1 /\ Last(lines) = Blank)
  <2>1. Rejoin(lines) = lines
    BY <1>2 DEF Rejoin
  <2>2. IsCut(lines, lines, 0)
    BY DEF IsCut
  <2>3. QED
    BY <2>1, <2>2
<1>3. QED
  BY <1>1, <1>2

\* A last blank line more or less, the lines up to the last that is not blank are the same.
LEMMA CutTail ==
  ASSUME NEW lines \in Seq(Line), NEW cut \in {0, 1}, Len(lines) > cut,
         cut = 1 => lines[Len(lines)] = Blank
  PROVE  WithoutTail(SubSeq(lines, 1, Len(lines) - cut)) = WithoutTail(lines)
<1>1. CASE cut = 0
  <2>1. SubSeq(lines, 1, Len(lines) - cut) = lines
    BY <1>1
  <2>2. QED
    BY <2>1
<1>2. CASE cut = 1
  <2>1. Len(lines) > 1 /\ Last(lines) = Blank
    BY <1>2 DEF Last
  <2>2. Rejoin(lines) = SubSeq(lines, 1, Len(lines) - 1)
    BY <2>1 DEF Rejoin, Front
  <2>3. QED
    BY <2>2, <1>2, WithoutTailRejoined
<1>3. QED
  BY <1>1, <1>2

\* upd switches the entry at line s, and sends the value it shows; no other
\* entry is of its key.
Switches(lines, s, updates, upd) ==
  /\ DOMAIN updates = {lines[s].key} /\ updates[lines[s].key] = upd
  /\ upd.enabled \in BOOLEAN /\ ~upd.keep /\ upd.value = EntryAt(lines, s).value
  /\ \A t \in Starts(lines) : lines[t].key = lines[s].key => t = s

\* One entry is rewritten in place.
LEMMA SwitchedText ==
  ASSUME NEW lines \in Seq(Line), NEW s \in Starts(lines), NEW updates, NEW upd,
         Switches(lines, s, updates, upd)
  PROVE  /\ Sends(lines[s].key, upd, EntryAt(lines, s).multiline)
         /\ Targeted(lines, updates) = {s}
         /\ Rewritten(lines, updates) = Splice(lines, EntryAt(lines, s), Replacement(EntryAt(lines, s), upd))
<1>1. lines[s].key \in Keys /\ s \in 1..Len(lines) /\ EntryAt(lines, s).key = lines[s].key
  BY EntryLines DEF Starts, EntryAt
<1>2. DOMAIN updates = {lines[s].key} /\ updates[lines[s].key] = upd
  BY DEF Switches
<1>3. AreUpdates(updates)
  <2>1. IsValue(upd.value)
    BY EntryValue DEF Switches
  <2>2. QED
    BY <2>1, <1>1, <1>2 DEF AreUpdates
<1>4. Targeted(lines, updates) = {s}
  BY <1>2 DEF Targeted, Switches
<1>5. Rewritten(lines, updates) = EntryRewritten(lines, updates, s, lines)
  BY <1>3, <1>4, RewrittenOnce
<1>6. Sends(lines[s].key, upd, EntryAt(lines, s).multiline)
  <2> DEFINE multiline == EntryAt(lines, s).multiline
             value == EntryAt(lines, s).value
  <2>1. multiline \in BOOLEAN /\ IsInputOf(lines[s].key, multiline, value)
    BY EntryIsInput
  <2>2. upd.enabled \in BOOLEAN /\ ~upd.keep /\ upd.value = value
    BY DEF Switches
  <2> HIDE DEF multiline, value
  <2>3. Sends(lines[s].key, upd, multiline)
    BY <2>1, <2>2 DEF Sends, IsInputOf
  <2>4. QED
    BY <2>3 DEF multiline
<1>7. QED
  BY <1>1, <1>2, <1>4, <1>5, <1>6 DEF EntryRewritten

\* What is sent twice from the same value, it is of one kind.
LEMMA OneKindOfValue ==
  ASSUME NEW k, NEW value, NEW a \in BOOLEAN, NEW b \in BOOLEAN,
         IsInputOf(k, a, value), IsInputOf(k, b, value)
  PROVE  a = b
<1>1. ~(IsBlockOf(k, value) /\ IsLineInput(value))
  <2> SUFFICES ASSUME IsBlockOf(k, value), IsLineInput(value) PROVE FALSE
    OBVIOUS
  <2>1. Len(value) > 1
    BY DEF IsBlockOf
  <2>2. CASE value = <<>>
    BY <2>1, <2>2
  <2>3. CASE \E text \in Texts \ {Empty} : value = <<Words(text)>>
    <3>1. PICK text \in Texts \ {Empty} : value = <<Words(text)>>
      BY <2>3
    <3> DEFINE line == Words(text)
    <3> HIDE DEF line
    <3>2. value = <<line>>
      BY <3>1 DEF line
    <3>3. QED
      BY <2>1, <3>2
  <2>4. QED
    BY <2>2, <2>3 DEF IsLineInput
<1>2. CASE a
  <2>1. IsBlockOf(k, value)
    BY <1>2 DEF IsInputOf
  <2>2. CASE ~b
    BY <2>1, <2>2, <1>1 DEF IsInputOf
  <2>3. QED
    BY <1>2, <2>2
<1>3. CASE ~a
  <2>1. IsLineInput(value)
    BY <1>3 DEF IsInputOf
  <2>2. CASE b
    BY <2>1, <2>2, <1>1 DEF IsInputOf
  <2>3. QED
    BY <1>3, <2>2
<1>4. QED
  BY <1>2, <1>3

\* An entry text stands in the lines that were given it, and what Rejoin takes
\* away is not of it.
Holds(lines, s, end, top, new, enabled) ==
  /\ Opens(top, s, new, enabled)
  /\ \A i \in 1..(s - 1) : top[i] = lines[i]
  /\ \A i \in (s + Len(new))..Len(top) : \E j \in (end + 1)..Len(lines) : top[i] = lines[j]

LEMMA SplicedHolds ==
  ASSUME NEW lines \in Seq(Line), NEW s \in 1..Len(lines), NEW end \in s..Len(lines),
         NEW k \in Keys, NEW enabled, NEW new, IsEntryText(k, enabled, new),
         NEW text, IsSplice(lines, s, end, new, text),
         NEW top, NEW cut, IsCut(text, top, cut),
         \/ end = Len(lines)
         \/ ~GoesOn(lines[end + 1], IF enabled THEN 0 ELSE 1)
  PROVE  /\ Holds(lines, s, end, top, new, enabled)
         /\ cut = 1 => lines[Len(lines)] = Blank /\ end < Len(lines)
<1> DEFINE n == Len(new)
           d == n - (end - s + 1)
           hash == IF enabled THEN 0 ELSE 1
<1>1. /\ new \in Seq(Line) /\ n \in Nat /\ n >= 1
      /\ new[1].key = k /\ \A i \in 2..n : new[i].indent
  BY EmptySeq DEF IsEntryText
<1>2. /\ text \in Seq(Line) /\ Len(text) = Len(lines) + d
      /\ \A i \in 1..(s - 1) : text[i] = lines[i]
      /\ \A i \in 1..n : text[s - 1 + i] = new[i]
      /\ \A i \in (end + 1)..Len(lines) : text[i + d] = lines[i]
  BY DEF IsSplice
<1>3. /\ top \in Seq(Line) /\ cut \in {0, 1} /\ Len(text) = Len(top) + cut /\ Len(top) \in Nat
      /\ \A i \in 1..Len(top) : top[i] = text[i]
      /\ cut = 1 => text[Len(text)] = Blank
  BY DEF IsCut
<1>4. Len(lines) \in Nat /\ s \in Nat /\ end \in Nat /\ 1 <= s /\ s <= end /\ end <= Len(lines)
  OBVIOUS
<1>5. \/ end = Len(lines)
      \/ ~GoesOn(lines[end + 1], hash)
  OBVIOUS
<1>6. d \in Int /\ n = d + (end - s + 1)
  BY <1>1, <1>4
<1> HIDE DEF n, d, hash
<1>7. Blank.key # k /\ ~Blank.indent
  BY GroupVarsAssumption DEF Blank, Words, Setting
<1>8. cut = 1 => end < Len(lines) /\ lines[Len(lines)] = Blank
  <2> SUFFICES ASSUME cut = 1 PROVE end < Len(lines) /\ lines[Len(lines)] = Blank
    OBVIOUS
  <2>1. CASE end < Len(lines)
    <3>1. Len(lines) \in (end + 1)..Len(lines) /\ Len(lines) + d = Len(text)
      BY <2>1, <1>2, <1>4
    <3>2. QED
      BY <2>1, <3>1, <1>2, <1>3
  <2>2. CASE end = Len(lines)
    <3>1. Len(text) = s - 1 + n /\ n \in 1..n
      BY <2>2, <1>1, <1>2, <1>4, <1>6
    <3>2. new[n] = Blank
      BY <3>1, <1>2, <1>3
    <3>3. n = 1 \/ n \in 2..n
      BY <1>1
    <3>4. QED
      BY <3>2, <3>3, <1>1, <1>7
  <2>3. QED
    BY <2>1, <2>2, <1>4
<1>9. s - 1 + n <= Len(top)
  BY <1>2, <1>3, <1>4, <1>6, <1>8
<1>10. \A i \in 1..n : top[s - 1 + i] = new[i]
  <2> TAKE i \in 1..n
  <2>1. s - 1 + i \in 1..Len(top)
    BY <1>3, <1>4, <1>9, <1>1
  <2>2. QED
    BY <2>1, <1>2, <1>3
<1>11. \A i \in 1..(s - 1) : top[i] = lines[i]
  <2> TAKE i \in 1..(s - 1)
  <2>1. i \in 1..Len(top)
    BY <1>3, <1>4, <1>9, <1>1
  <2>2. QED
    BY <2>1, <1>2, <1>3
<1>12. ASSUME NEW i \in (s + n)..Len(top)
       PROVE  i - d \in (end + 1)..Len(lines) /\ top[i] = lines[i - d]
  <2>1. i - d \in (end + 1)..Len(lines) /\ (i - d) + d = i /\ i \in 1..Len(top)
    BY <1>1, <1>2, <1>3, <1>4, <1>6
  <2>2. QED
    BY <2>1, <1>2, <1>3
<1>13. s - 1 + n = Len(top) \/ ~GoesOn(top[s + n], hash)
  <2> SUFFICES ASSUME s - 1 + n # Len(top) PROVE ~GoesOn(top[s + n], hash)
    OBVIOUS
  <2>1. s + n \in (s + n)..Len(top) /\ (s + n) - d = end + 1
    <3> DEFINE m == Len(top)
    <3>1. m \in Nat /\ s - 1 + n <= m /\ s - 1 + n # m
      BY <1>3, <1>9
    <3> HIDE DEF m
    <3>2. s + n \in (s + n)..m /\ (s + n) - d = end + 1
      BY <3>1, <1>1, <1>4, <1>6
    <3>3. QED
      BY <3>2 DEF m
  <2>2. top[s + n] = lines[end + 1] /\ end + 1 <= Len(lines)
    BY <2>1, <1>12, <1>4
  <2>3. QED
    BY <2>2, <1>4, <1>5
<1>14. Opens(top, s, new, enabled)
  BY <1>9, <1>10, <1>13 DEF Opens, n, hash
<1>15. QED
  BY <1>8, <1>11, <1>12, <1>14 DEF Holds, n

\* An entry is switched: the text then shows it, and no other of its key.
SwitchedTo(lines, s, top, cut, text, new, upd) ==
  /\ IsCut(text, top, cut) /\ IsSplice(lines, s, EndOf(lines, s), new, text)
  /\ new \in Seq(Line) /\ s - 1 + Len(new) <= Len(top)
  /\ cut = 1 => lines[Len(lines)] = Blank /\ EndOf(lines, s) < Len(lines)
  /\ ShowsAt(top, s, lines[s].key, upd) /\ EndOf(top, s) = s - 1 + Len(new)
  /\ \A t \in Starts(top) : top[t].key = lines[s].key => t = s

LEMMA SwitchedShows ==
  ASSUME NEW lines \in Seq(Line), NEW s \in Starts(lines), NEW updates, NEW upd,
         Switches(lines, s, updates, upd), NoStray(lines), SwallowsNothing(lines, s, upd.enabled)
  PROVE  \E cut, text, new : SwitchedTo(lines, s, ApplyUpdates(lines, updates), cut, text, new, upd)
<1> DEFINE k == lines[s].key
           e == EntryAt(lines, s)
           multiline == e.multiline
           end == EndOf(lines, s)
           new == Replacement(e, upd)
           text == Rewritten(lines, updates)
           top == Rejoin(text)
<1>1. s \in 1..Len(lines) /\ Len(lines) \in Nat /\ s \in Nat /\ 1 <= s /\ k \in Keys
  BY EntryLines DEF Starts
<1>2. e.key = k /\ e.start = s /\ e.end = end /\ end \in s..Len(lines)
  BY <1>1, EndExists DEF EntryAt, EndsAt
<1>3. upd.enabled \in BOOLEAN /\ ~upd.keep /\ upd.value = e.value
      /\ \A t \in Starts(lines) : lines[t].key = k => t = s
  BY DEF Switches
<1>4. Sends(k, upd, multiline) /\ text = Splice(lines, e, new)
  BY SwitchedText
<1>5. IsBlock(new)
  <2>1. IsValue(upd.value)
    BY <1>3, EntryValue
  <2>2. QED
    BY <2>1, ReplacementIsBlock DEF IsValue
<1>6. new = RenderEntryLines(k, upd.enabled, upd.value, multiline)
  BY <1>2, <1>3 DEF Replacement
<1>7. \/ end = Len(lines)
      \/ ~GoesOn(lines[end + 1], IF upd.enabled THEN 0 ELSE 1)
  BY <1>3, NotFollowed, Zenon
<1>8. top = ApplyUpdates(lines, updates)
  BY DEF ApplyUpdates
<1> HIDE DEF new, e, multiline, end, text, top
<1>9. IsSplice(lines, s, end, new, text)
  BY <1>1, <1>2, <1>4, <1>5, SplicedLines DEF IsBlock
<1>10. IsEntryText(k, upd.enabled, new)
  <2>1. new \in Seq(Line) /\ 1 - 1 + Len(new) = Len(new) /\ \A i \in 1..Len(new) : 1 - 1 + i = i
    BY <1>5 DEF IsBlock
  <2>2. Opens(new, 1, new, upd.enabled)
    BY <2>1 DEF Opens
  <2>3. 1 \in Nat /\ 1 >= 1
    OBVIOUS
  <2>4. QED
    BY <1>1, <1>4, <1>6, <2>1, <2>2, <2>3, EntryTextShows
<1>11. text # <<>> /\ text \in Seq(Line)
  <2>1. Len(new) \in Nat /\ Len(new) >= 1 /\ new[1] = new[1]
    BY <1>5, EmptySeq DEF IsBlock
  <2>2. text \in Seq(Line) /\ Len(text) = Len(lines) + (Len(new) - (end - s + 1))
    BY <1>9 DEF IsSplice
  <2>3. Len(text) >= 1
    BY <2>1, <2>2, <1>1, <1>2
  <2>4. QED
    BY <2>2, <2>3
<1>12. PICK cut : IsCut(text, top, cut)
  BY <1>11, RejoinCuts DEF top
<1>13. /\ Holds(lines, s, end, top, new, upd.enabled)
       /\ cut = 1 => lines[Len(lines)] = Blank /\ end < Len(lines)
  BY <1>1, <1>2, <1>7, <1>9, <1>10, <1>12, SplicedHolds
<1>14. top \in Seq(Line)
  BY <1>12 DEF IsCut
<1>15. ShowsAt(top, s, k, upd) /\ EndOf(top, s) = s - 1 + Len(new)
  BY <1>1, <1>4, <1>6, <1>13, <1>14, EntryTextShows DEF Holds
<1>16. ASSUME NEW t \in Starts(top), top[t].key = k PROVE t = s
  <2>1. t \in 1..Len(top) /\ IsEntryLine(top[t]) /\ Len(top) \in Nat
    BY <1>14 DEF Starts
  <2>2. Len(new) \in Nat /\ \A i \in 2..Len(new) : new[i].indent
    BY <1>10 DEF IsEntryText
  <2>3. /\ \A i \in 1..Len(new) : top[s - 1 + i] = new[i]
        /\ \A i \in 1..(s - 1) : top[i] = lines[i]
        /\ \A i \in (s + Len(new))..Len(top) : \E j \in (end + 1)..Len(lines) : top[i] = lines[j]
    BY <1>13 DEF Holds, Opens
  <2>4. ASSUME NEW j \in 1..Len(lines), top[t] = lines[j] PROVE j = s
    <3>1. j \in Starts(lines) /\ lines[j].key = k
      BY <2>1, <2>4, <1>16 DEF Starts
    <3>2. QED
      BY <3>1, <1>3 DEF k
  <2>5. CASE t < s
    <3>1. t \in 1..(s - 1) /\ t \in 1..Len(lines)
      BY <2>1, <2>5, <1>1
    <3>2. QED
      BY <3>1, <2>3, <2>4
  <2>6. CASE s < t /\ t <= s - 1 + Len(new)
    <3> DEFINE i == t - (s - 1)
    <3>1. i \in 2..Len(new) /\ i \in 1..Len(new) /\ s - 1 + i = t
      BY <2>1, <2>2, <2>6, <1>1
    <3> HIDE DEF i
    <3>2. top[t].indent
      BY <3>1, <2>2, <2>3
    <3>3. QED
      BY <3>2, <2>1, IndentedIsNoEntry
  <2>7. CASE s - 1 + Len(new) < t
    <3>1. t \in (s + Len(new))..Len(top)
      BY <2>1, <2>2, <2>7, <1>1
    <3>2. PICK j \in (end + 1)..Len(lines) : top[t] = lines[j]
      BY <3>1, <2>3
    <3>3. j \in 1..Len(lines) /\ j # s
      BY <1>1, <1>2
    <3>4. QED
      BY <3>2, <3>3, <2>4
  <2>8. QED
    BY <2>1, <2>2, <2>5, <2>6, <2>7, <1>1
<1>17. new \in Seq(Line) /\ s - 1 + Len(new) <= Len(top)
  BY <1>5, <1>13 DEF IsBlock, Holds, Opens
<1>18. SwitchedTo(lines, s, top, cut, text, new, upd)
  BY <1>9, <1>12, <1>13, <1>15, <1>16, <1>17 DEF SwitchedTo, end, k
<1>19. QED
  BY <1>18, <1>8

\* Switched off and on, or on and off, with the value it shows, it is back.
LEMMA SwitchedBack ==
  ASSUME NEW lines \in Seq(Line), NEW s \in Starts(lines), NoStray(lines),
         NEW first, NEW upd, Switches(lines, s, first, upd), SwallowsNothing(lines, s, upd.enabled),
         NEW second, NEW back, DOMAIN second = {lines[s].key}, second[lines[s].key] = back,
         back.enabled = EntryAt(lines, s).enabled, ~back.keep, back.value = EntryAt(lines, s).value
  PROVE  WithoutTail(ApplyUpdates(ApplyUpdates(lines, first), second)) = WithoutTail(lines)
<1> DEFINE k == lines[s].key
           e == EntryAt(lines, s)
           top == ApplyUpdates(lines, first)
           f == EntryAt(top, s)
           end == EndOf(lines, s)
           old == SubSeq(lines, s, end)
           result == Rewritten(top, second)
<1>1. s \in 1..Len(lines) /\ Len(lines) \in Nat /\ s \in Nat /\ 1 <= s
  BY DEF Starts
<1>2. e.enabled \in BOOLEAN /\ end \in s..Len(lines) /\ end \in Nat
  BY <1>1, EndExists DEF EntryAt, EndsAt, IsActive
<1>3. PICK cut, text, new : SwitchedTo(lines, s, top, cut, text, new, upd)
  BY SwitchedShows
<1>4. /\ IsCut(text, top, cut) /\ IsSplice(lines, s, end, new, text)
      /\ new \in Seq(Line) /\ s - 1 + Len(new) <= Len(top)
      /\ cut = 1 => lines[Len(lines)] = Blank /\ end < Len(lines)
      /\ ShowsAt(top, s, k, upd) /\ EndOf(top, s) = s - 1 + Len(new)
      /\ \A t \in Starts(top) : top[t].key = k => t = s
  BY <1>3 DEF SwitchedTo
<1>5. /\ top \in Seq(Line) /\ cut \in {0, 1} /\ cut \in Nat /\ Len(text) = Len(top) + cut
      /\ \A i \in 1..Len(top) : top[i] = text[i]
  BY <1>4 DEF IsCut
<1>6. s \in Starts(top) /\ top[s].key = k /\ f.value = upd.value /\ upd.value = e.value
  BY <1>4 DEF ShowsAt, Shown, Switches
<1>7. Switches(top, s, second, back)
  BY <1>2, <1>4, <1>6 DEF Switches
<1>8. result = Splice(top, f, Replacement(f, back))
  BY <1>5, <1>6, <1>7, SwitchedText
<1>9. Replacement(f, back) = old
  <2> DEFINE a == e.multiline
             b == f.multiline
             value == e.value
             enabled == back.enabled
  <2>1. a \in BOOLEAN /\ IsInputOf(k, a, value)
    BY EntryIsInput
  <2>2. b \in BOOLEAN /\ IsInputOf(k, b, value)
    <3>1. b \in BOOLEAN /\ IsInputOf(top[s].key, b, f.value)
      BY <1>5, <1>6, EntryIsInput
    <3>2. QED
      BY <3>1, <1>6
  <2>3. RenderEntryLines(k, enabled, value, a) = old
    BY EntryRendersItself
  <2>4. f.key = k
    BY <1>6 DEF EntryAt
  <2>5. Replacement(f, back) = RenderEntryLines(k, enabled, value, b)
    BY <2>4, <1>6 DEF Replacement
  <2> HIDE DEF a, b, value, enabled, old
  <2>6. a = b
    BY <2>1, <2>2, OneKindOfValue
  <2>7. QED
    BY <2>3, <2>5, <2>6
<1> HIDE DEF top, result
<1>10. IsSplice(top, s, s - 1 + Len(new), old, result)
  <2>1. f.start = s /\ f.end = s - 1 + Len(new)
    BY <1>4 DEF EntryAt
  <2>2. old \in Seq(Line)
    BY <1>1, <1>2, PartPlaces
  <2>3. s \in 1..Len(top) /\ s - 1 + Len(new) \in s..Len(top)
    BY <1>4, <1>5, <1>6, EndExists DEF Starts, EndsAt
  <2> HIDE DEF f, old
  <2>4. QED
    BY <2>1, <2>2, <2>3, <1>5, <1>8, <1>9, SplicedLines
<1>11. result = SubSeq(lines, 1, Len(lines) - cut)
  <2> HIDE DEF end, old, e, f, k
  <2>1. IsSplice(top, s, s - 1 + Len(new), SubSeq(lines, s, end), result)
    BY <1>10 DEF old
  <2>2. PutBack(lines, s, end, new, text, top, cut, result)
    BY <2>1, <1>1, <1>2, <1>4 DEF PutBack
  <2>3. QED
    BY <2>2, SplicedBack
<1>12. result \in Seq(Line)
  BY <1>10 DEF IsSplice
<1>13. WithoutTail(ApplyUpdates(top, second)) = WithoutTail(result)
  BY <1>12, WithoutTailRejoined DEF ApplyUpdates, result
<1>14. WithoutTail(result) = WithoutTail(lines)
  <2>1. Len(lines) > cut /\ (cut = 1 => lines[Len(lines)] = Blank)
    BY <1>1, <1>2, <1>4, <1>5
  <2>2. QED
    BY <2>1, <1>5, <1>11, CutTail
<1>15. QED
  BY <1>13, <1>14 DEF top

-----------------------------------------------------------------------------
(* The theorems.                                                           *)

\* Whatever is saved and configured, the file is a text of lines.
THEOREM EditingTypeCorrect == Spec => []TypeOK
<1>1. Init => TypeOK
  BY EditingAssumption DEF Init, TypeOK
<1>2. TypeOK /\ [Next]_doc => TypeOK'
  <2> SUFFICES ASSUME TypeOK, [Next]_doc PROVE TypeOK'
    OBVIOUS
  <2>1. doc \in Seq(Line)
    BY DEF TypeOK
  <2>2. ASSUME NEW updates \in FormUpdates(doc), Save(updates) PROVE doc' \in Seq(Line)
    <3>1. ApplyUpdates(doc, updates) \in Seq(Line)
      BY <2>1, FormSendsTexts, ApplyUpdatesLines
    <3>2. Rejoin(ApplyUpdates(doc, updates)) \in Seq(Line)
      BY <3>1, RejoinKeeps
    <3>3. QED
      BY <2>1, <2>2, <3>2 DEF Save
  <2>3. ASSUME Configure PROVE doc' \in Seq(Line)
    <3>1. AreUpdates(RepoUpdates(doc)) /\ Header \in Line /\ Repos \in Seq(Keys)
      BY <2>1, RepoUpdatesAreRows, RowsAreUpdates, EditingAssumption
    <3>2. Upsert(doc, RepoUpdates(doc), Header, Repos) \in Seq(Line)
      BY <2>1, <3>1, UpsertKeeps
    <3>3. Configured(doc) \in Seq(Line)
      BY <3>2, RejoinKeeps DEF Configured
    <3>4. QED
      BY <2>3, <3>3 DEF Configure
  <2>4. QED
    BY <2>1, <2>2, <2>3 DEF Next, TypeOK
<1>3. QED
  BY <1>1, <1>2, PTL DEF Spec

\* Whatever is saved for some keys of any file, as long as no text sent for one
\* of them names another or begins indented, the entries of every other key keep
\* their order, their switches and their values.
THEOREM OthersUntouched == Spec => []OtherKeysUntouched
<1>1. TypeOK => OtherKeysUntouched
  <2> SUFFICES ASSUME doc \in Seq(Line), NEW updates \in FormUpdates(doc),
                      \A j \in DOMAIN updates : OfKey(j, updates[j].value),
                      NEW k \in Keys \ DOMAIN updates
               PROVE  Table(ApplyUpdates(doc, updates))[k] = Table(doc)[k]
    BY DEF TypeOK, OtherKeysUntouched
  <2>1. AreRows(updates)
    BY FormSendsTexts DEF AreTexts, AreRows, IsRow
  <2>2. Seen(ApplyUpdates(doc, updates), k) = Seen(doc, k)
    BY <2>1, OthersShowTheSame
  <2>3. QED
    BY <2>2 DEF Table
<1>2. QED
  BY <1>1, EditingTypeCorrect, PTL

\* Where a save is clean, each entry of an updated key reads back with the
\* switch and the value that were sent, whatever blocks grow or shrink above
\* it: what is written is what will be read.
THEOREM UpdatesAreRead == Spec => []UpdatesReadBack
<1>1. TypeOK => UpdatesReadBack
  <2> SUFFICES ASSUME doc \in Seq(Line), NEW updates \in FormUpdates(doc), Clean(doc, updates),
                      NEW k \in DOMAIN updates
               PROVE  Table(ApplyUpdates(doc, updates))[k] = [i \in DOMAIN Table(doc)[k] |-> Sent(updates[k])]
    BY DEF TypeOK, UpdatesReadBack, Sent
  <2>1. AreRows(updates) /\ k \in Keys
    BY CleanRows DEF AreRows
  <2>2. NoStray(doc) /\ ~Swallows(doc, updates)
    BY DEF Clean
  <2>3. Seen(ApplyUpdates(doc, updates), k) = Times(Sent(updates[k]), Len(Seen(doc, k)))
    BY <2>1, <2>2, CleanSends, SentReadsBack
  <2>4. DOMAIN Seen(doc, k) = 1..Len(Seen(doc, k))
    BY SeenIsSequence
  <2>5. QED
    BY <2>1, <2>3, <2>4 DEF Table, Times
<1>2. QED
  BY <1>1, EditingTypeCorrect, PTL

\* Whatever was edited, switched off, turned from a line into a block or lost
\* before, pointing kubespray at the repositories leaves an active entry of
\* every repository key, and loses no key of the file.
THEOREM ConfigureTurnsOn == Spec => []ConfigureEnables
<1>1. TypeOK => ConfigureEnables
  <2> SUFFICES ASSUME doc \in Seq(Line) PROVE ConfigureEnables
    BY DEF TypeOK
  <2> DEFINE new == Configured(doc)
  <2>1. /\ \A i \in DOMAIN Repos : HasActive(new, Repos[i])
        /\ \A k : Has(doc, k) => Has(new, k)
    BY ConfiguredTurnsOn
  <2> HIDE DEF new
  <2>2. ASSUME NEW i \in DOMAIN Repos PROVE \E e \in Entries(new) : e.key = Repos[i] /\ e.enabled
    <3>1. PICK s \in Starts(new) : new[s].key = Repos[i] /\ IsActive(new[s])
      BY <2>1 DEF HasActive
    <3>2. EntryAt(new, s).key = new[s].key /\ EntryAt(new, s).enabled = IsActive(new[s])
      BY DEF EntryAt
    <3>3. QED
      BY <3>1, <3>2 DEF Entries
  <2>3. {e.key : e \in Entries(doc)} \subseteq {e.key : e \in Entries(new)}
    <3>1. \A text : \A s \in Starts(text) : EntryAt(text, s).key = text[s].key
      BY DEF EntryAt
    <3>2. \A text, k : Has(text, k) <=> k \in {e.key : e \in Entries(text)}
      BY <3>1 DEF Has, Entries
    <3>3. QED
      BY <3>2, <2>1
  <2>4. QED
    BY <2>2, <2>3 DEF ConfigureEnables, new
<1>2. QED
  BY <1>1, EditingTypeCorrect, PTL

\* Pointing the file at the repositories once more changes nothing but the
\* blank lines at its end, whatever was edited, switched off or missing before,
\* if the repository keys it has are of the kind of their values and no entry
\* can claim a stray line.
THEOREM ConfigureOnce == Spec => []ConfigureIsIdempotent
<1>1. TypeOK => ConfigureIsIdempotent
  BY ConfiguredAgain DEF TypeOK, ConfigureIsIdempotent
<1>2. QED
  BY <1>1, EditingTypeCorrect, PTL

\* Two saves are as good as none: an entry that is the only one of its key is
\* switched off, whatever marks and indentation its lines have, and on again
\* with the value it showed, or on and off, and the file is what it was but for
\* blank lines at its end, if no entry claims a stray line or a remark.
THEOREM SwitchingBack == Spec => []SwitchingBackRestores
<1>1. TypeOK => SwitchingBackRestores
  <2> DEFINE Update(s, on) == [enabled |-> on, keep |-> FALSE, value |-> EntryAt(doc, s).value]
             Set(s, on) == Switch(EntryAt(doc, s), on)
  <2> SUFFICES ASSUME doc \in Seq(Line), NEW s \in Starts(doc),
                      \A x \in Entries(doc) : x.key = EntryAt(doc, s).key => x = EntryAt(doc, s),
                      Clean(doc, Set(s, FALSE))
               PROVE  WithoutTail(ApplyUpdates(ApplyUpdates(doc, Set(s, ~EntryAt(doc, s).enabled)),
                                               Set(s, EntryAt(doc, s).enabled))) = WithoutTail(doc)
    BY DEF TypeOK, SwitchingBackRestores
  <2>0. \A x : Set(s, x) = [j \in {EntryAt(doc, s).key} |-> Update(s, x)]
    BY DEF Switch
  <2> DEFINE e == EntryAt(doc, s)
             k == doc[s].key
             off == ~e.enabled
             on == e.enabled
  <2>1. e.key = k /\ e.start = s /\ on = IsActive(doc[s]) /\ on \in BOOLEAN /\ off \in BOOLEAN
    BY DEF EntryAt, IsActive
  <2>2. ASSUME NEW t \in Starts(doc), doc[t].key = k PROVE t = s
    <3>1. EntryAt(doc, t) \in Entries(doc) /\ EntryAt(doc, t).key = k /\ EntryAt(doc, t).start = t
      BY <2>2 DEF Entries, EntryAt
    <3>2. EntryAt(doc, t) = e
      BY <3>1, <2>1
    <3>3. QED
      BY <3>1, <3>2, <2>1
  <2>3. \A x : DOMAIN Set(s, x) = {k} /\ Set(s, x)[k] = Update(s, x)
    BY <2>0, <2>1
  <2>4. SwallowsNothing(doc, s, off)
    <3> DEFINE none == Set(s, FALSE)
    <3>1. DOMAIN none = {k} /\ none[k].enabled = FALSE
      <4>1. none = [j \in {k} |-> Update(s, FALSE)]
        BY <2>1 DEF Switch
      <4>2. Update(s, FALSE).enabled = FALSE
        OBVIOUS
      <4>3. QED
        BY <4>1, <4>2
    <3>2. ~Swallows(doc, none)
      BY DEF Clean
    <3> HIDE DEF none
    <3>3. s \in Targeted(doc, none)
      BY <3>1 DEF Targeted
    <3>4. QED
      BY <3>1, <3>2, <3>3 DEF Swallows, SwallowsNothing
  <2>5. NoStray(doc)
    BY DEF Clean
  <2> DEFINE first == Set(s, off)
             second == Set(s, on)
             upd == Update(s, off)
             back == Update(s, on)
  <2>6. DOMAIN first = {k} /\ first[k] = upd /\ DOMAIN second = {k} /\ second[k] = back
    BY <2>3
  <2>7. /\ upd.enabled = off /\ upd.keep = FALSE /\ upd.value = e.value
        /\ back.enabled = on /\ back.keep = FALSE /\ back.value = e.value
    OBVIOUS
  <2> HIDE DEF first, second, upd, back, off
  <2>8. Switches(doc, s, first, upd)
    BY <2>1, <2>2, <2>6, <2>7 DEF Switches
  <2>9. SwallowsNothing(doc, s, upd.enabled)
    BY <2>4, <2>7
  <2>10. WithoutTail(ApplyUpdates(ApplyUpdates(doc, first), second)) = WithoutTail(doc)
    BY <2>5, <2>6, <2>7, <2>8, <2>9, SwitchedBack
  <2>11. QED
    BY <2>10 DEF first, second, off
<1>2. QED
  BY <1>1, EditingTypeCorrect, PTL
=============================================================================
