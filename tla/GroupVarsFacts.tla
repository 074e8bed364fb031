---------------------------- MODULE GroupVarsFacts ----------------------------
(***************************************************************************)
(* What the parser's operations return: texts of lines, in which every     *)
(* entry that was not to be updated stands as it stood, only higher or     *)
(* lower.                                                                  *)
(*                                                                         *)
(* An entry ends where a line does not continue it.  It can neither lose a *)
(* line nor gain one as long as its lines stay together and what is put    *)
(* below it begins with a line that is not indented; that is so for every  *)
(* text an entry is replaced by.                                           *)
(***************************************************************************)
EXTENDS GroupVars, SequenceFacts

-----------------------------------------------------------------------------
(* Lines.                                                                  *)

LEMMA SettingIsLine ==
  ASSUME NEW k \in Keys \cup {None}, NEW text \in Texts
  PROVE  Setting(k, text) \in Line /\ ~Setting(k, text).indent
  BY DEF Setting, Line

LEMMA BlankIsLine ==
  /\ Blank \in Line /\ ~Blank.indent /\ ~IsEntryLine(Blank) /\ IsBlank(Blank)
  /\ \A text \in Texts : Words(text) \in Line /\ ~Words(text).indent
<1>1. \A text \in Texts : Words(text) \in Line /\ ~Words(text).indent /\ Words(text).key = None
  BY SettingIsLine DEF Words, Setting
<1>2. Empty \in Texts
  BY GroupVarsAssumption
<1>3. IsBlank(Blank)
  BY DEF Blank, Words, Setting, IsBlank, HasNothing
<1>4. QED
  BY <1>1, <1>2, <1>3 DEF Blank, IsEntryLine, IsActive, IsDisabled

\* A line of spaces is no setting and continues none.
LEMMA BlankStandsApart ==
  ASSUME NEW line, IsBlank(line)
  PROVE  ~IsEntryLine(line) /\ \A first : ~Continues(first, line)
  BY DEF IsBlank, HasNothing, IsEntryLine, IsActive, IsDisabled, Continues, GoesOn

LEMMA CommentIsLine ==
  ASSUME NEW line \in Line
  PROVE  /\ Comment(line) \in Line /\ Comment(line).indent = line.indent
         /\ Uncomment(line) \in Line /\ Uncomment(line).indent = line.indent
  BY DEF Comment, Uncomment, Line

LEMMA TextOfLine ==
  ASSUME NEW line \in Line
  PROVE  AsText(line) \in Texts
  BY GroupVarsAssumption DEF AsText, Line

LEMMA EntryLines ==
  ASSUME NEW line \in Line, IsEntryLine(line)
  PROVE  /\ line.key \in Keys /\ line.text \in Texts /\ ~line.indent
         /\ \A first : ~Continues(first, line)
  BY DEF IsEntryLine, IsActive, IsDisabled, Continues, GoesOn, Line

-----------------------------------------------------------------------------
(* Where an entry ends.                                                    *)

EndsAt(lines, s, e) ==
  /\ e \in s..Len(lines)
  /\ \A i \in (s + 1)..e : Continues(lines[s], lines[i])
  /\ e = Len(lines) \/ ~Continues(lines[s], lines[e + 1])

LEMMA EndExists ==
  ASSUME NEW lines \in Seq(Line), NEW s \in 1..Len(lines)
  PROVE  EndsAt(lines, s, EndOf(lines, s))
<1> DEFINE T == {e \in s..Len(lines) : e = Len(lines) \/ ~Continues(lines[s], lines[e + 1])}
<1>1. Len(lines) \in Nat /\ s \in Nat
  OBVIOUS
<1>2. T \subseteq Nat /\ Len(lines) \in T
  BY <1>1
<1>3. PICK e \in T : \A j \in T : e <= j
  BY <1>2, LeastElement
<1>4. ASSUME NEW i \in (s + 1)..e PROVE Continues(lines[s], lines[i])
  <2>1. i - 1 \in s..Len(lines) /\ ~(e <= i - 1) /\ (i - 1) + 1 = i
    BY <1>1, <1>3
  <2>2. i - 1 \notin T
    BY <1>3, <2>1
  <2>3. QED
    BY <2>1, <2>2
<1>5. EndsAt(lines, s, e)
  BY <1>3, <1>4 DEF EndsAt
<1>6. QED
  BY <1>5 DEF EndOf, EndsAt

LEMMA EndIsUnique ==
  ASSUME NEW lines \in Seq(Line), NEW s \in 1..Len(lines), NEW e, EndsAt(lines, s, e)
  PROVE  EndOf(lines, s) = e
<1> DEFINE d == EndOf(lines, s)
<1>1. EndsAt(lines, s, d)
  BY EndExists
<1> HIDE DEF d
<1>2. d \in s..Len(lines) /\ e \in s..Len(lines) /\ Len(lines) \in Nat
  BY <1>1 DEF EndsAt
<1>3. ~(d < e)
  <2> SUFFICES ASSUME d < e PROVE FALSE
    OBVIOUS
  <2>1. d + 1 \in (s + 1)..e /\ d # Len(lines)
    BY <1>2
  <2>2. QED
    BY <2>1, <1>1 DEF EndsAt
<1>4. ~(e < d)
  <2> SUFFICES ASSUME e < d PROVE FALSE
    OBVIOUS
  <2>1. e + 1 \in (s + 1)..d /\ e # Len(lines)
    BY <1>2
  <2>2. QED
    BY <2>1, <1>1 DEF EndsAt
<1>5. d = e
  BY <1>2, <1>3, <1>4
<1>6. QED
  BY <1>5 DEF d

-----------------------------------------------------------------------------
(* Values, and the lines they are rendered as.                             *)

\* The lines of a value; the first one takes the place of a `key:` line.
IsValue(value) == value \in Seq(Line) /\ (value # <<>> => ~value[1].indent)

IsBlock(lines) == lines \in Seq(Line) /\ lines # <<>> /\ ~lines[1].indent

LEMMA OneLine ==
  ASSUME NEW line \in Line, ~line.indent
  PROVE  IsBlock(<<line>>)
<1>1. <<line>> \in Seq(Line) /\ <<line>> # <<>> /\ <<line>>[1] = line
  OBVIOUS
<1>2. QED
  BY <1>1 DEF IsBlock

\* The value of an entry is one: its lines stay lines, and the first of them,
\* which carries the key, is not indented.
LEMMA EntryValue ==
  ASSUME NEW lines \in Seq(Line), NEW s \in Starts(lines)
  PROVE  IsValue(EntryAt(lines, s).value)
<1> DEFINE end == EndOf(lines, s)
           first == lines[s]
           block == [i \in 1..(end - s + 1) |-> Uncomment(lines[s + i - 1])]
<1>1. s \in 1..Len(lines) /\ Len(lines) \in Nat /\ first \in Line /\ IsEntryLine(first)
  BY DEF Starts
<1>2. first.text \in Texts /\ ~first.indent
  BY <1>1, EntryLines
<1>3. end \in s..Len(lines)
  BY <1>1, EndExists DEF EndsAt
<1>4. EntryAt(lines, s).value = CASE end > s -> block
                                  [] end = s /\ first.text # Empty -> <<Words(first.text)>>
                                  [] end = s /\ first.text = Empty -> <<>>
  BY DEF EntryAt
<1> HIDE DEF end
<1>5. CASE end > s
  <2>1. \A i \in 1..(end - s + 1) : s + i - 1 \in 1..Len(lines)
    BY <1>1, <1>3
  <2>2. \A i \in 1..(end - s + 1) : Uncomment(lines[s + i - 1]) \in Line
    BY <2>1, CommentIsLine
  <2>3. end - s + 1 \in Nat /\ 1 \in 1..(end - s + 1) /\ s + 1 - 1 = s
    BY <1>1, <1>3, <1>5
  <2>4. block \in Seq(Line)
    BY <2>2, <2>3
  <2>5. block[1] = Uncomment(first)
    BY <2>3
  <2>6. ~block[1].indent
    BY <2>5, <1>1, <1>2, CommentIsLine
  <2>7. EntryAt(lines, s).value = block
    BY <1>1, <1>3, <1>4, <1>5
  <2>8. QED
    BY <2>4, <2>6, <2>7 DEF IsValue
<1>6. CASE end = s
  <2>1. CASE first.text = Empty
    <3>1. EntryAt(lines, s).value = <<>>
      BY <1>1, <1>4, <1>6, <2>1
    <3>2. QED
      BY <3>1 DEF IsValue
  <2>2. CASE first.text # Empty
    <3>1. EntryAt(lines, s).value = <<Words(first.text)>>
      BY <1>1, <1>4, <1>6, <2>2
    <3>2. Words(first.text) \in Line /\ ~Words(first.text).indent
      BY <1>2, BlankIsLine
    <3>3. QED
      BY <3>1, <3>2, OneLine DEF IsValue, IsBlock
  <2>3. QED
    BY <2>1, <2>2
<1>7. QED
  BY <1>1, <1>3, <1>5, <1>6

\* strip() leaves lines of the text.
LEMMA StrippedLines ==
  ASSUME NEW value \in Seq(Line)
  PROVE  /\ Stripped(value) \in Seq(Line)
         /\ \A i \in 1..Len(Stripped(value)) : \E j \in 1..Len(value) : Stripped(value)[i] = value[j]
<1> DEFINE filled == {i \in DOMAIN value : value[i] # Blank}
<1>1. Len(value) \in Nat /\ DOMAIN value = 1..Len(value) /\ filled \subseteq 1..Len(value) /\ filled \subseteq Nat
  OBVIOUS
<1>2. Stripped(value) = IF filled = {} THEN <<>> ELSE SubSeq(value, Min(filled), Max(filled))
  BY DEF Stripped
<1> HIDE DEF filled
<1>3. CASE filled = {}
  BY <1>2, <1>3
<1>4. CASE filled # {}
  <2>1. /\ Min(filled) \in filled /\ Max(filled) \in filled
        /\ \A n \in filled : Min(filled) <= n
    BY <1>1, <1>4, LeastElement, GreatestElement
  <2> DEFINE m == Min(filled)
             n == Max(filled)
             part == SubSeq(value, m, n)
  <2>2. m \in 1..Len(value) /\ n \in 1..Len(value) /\ m <= n
    BY <2>1, <1>1
  <2> HIDE DEF m, n
  <2>3. m \in 1..(Len(value) + 1) /\ n \in (m - 1)..Len(value)
    BY <2>2, <1>1
  <2>4. /\ part \in Seq(Line) /\ Len(part) = n - m + 1
        /\ \A i \in 1..(n - m + 1) : part[i] = value[m + i - 1]
    BY <2>3, PartPlaces
  <2>5. \A i \in 1..(n - m + 1) : m + i - 1 \in 1..Len(value)
    BY <2>2, <1>1
  <2>6. Stripped(value) = part
    BY <1>2, <1>4 DEF part, m, n
  <2> HIDE DEF part
  <2>7. QED
    BY <2>4, <2>5, <2>6
<1>5. QED
  BY <1>3, <1>4

LEMMA StrippedOne ==
  /\ Stripped(<<>>) = <<>>
  /\ \A line \in Line : line # Blank => Stripped(<<line>>) = <<line>>
<1>1. Stripped(<<>>) = <<>>
  BY DEF Stripped
<1>2. ASSUME NEW line \in Line, line # Blank PROVE Stripped(<<line>>) = <<line>>
  <2> DEFINE one == <<line>>
             filled == {i \in DOMAIN one : one[i] # Blank}
  <2>1. one \in Seq(Line) /\ Len(one) = 1 /\ one[1] = line /\ DOMAIN one = 1..1
    OBVIOUS
  <2> HIDE DEF one
  <2>2. filled = {1}
    BY <2>1, <1>2
  <2>3. Stripped(one) = SubSeq(one, Min(filled), Max(filled))
    BY <2>2 DEF Stripped
  <2>4. filled \subseteq Nat /\ filled \subseteq 1..1 /\ filled # {}
    BY <2>2
  <2> HIDE DEF filled
  <2>5. Min(filled) = 1 /\ Max(filled) = 1
    BY <2>2, <2>4, LeastElement, GreatestElement
  <2>6. SubSeq(one, 1, 1) \in Seq(Line) /\ Len(SubSeq(one, 1, 1)) = 1 /\ SubSeq(one, 1, 1)[1] = one[1]
    BY <2>1
  <2>7. SubSeq(one, 1, 1) = one
    BY <2>1, <2>6, SeqEqual
  <2>8. QED
    BY <2>3, <2>5, <2>7 DEF one
<1>3. QED
  BY <1>1, <1>2

\* What is rendered: the value, without its outer empty lines if the entry has
\* one line.
BodyOf(value, multiline) == IF multiline THEN value ELSE Stripped(value)

LEMMA BodyLines ==
  ASSUME NEW value \in Seq(Line), NEW multiline
  PROVE  /\ BodyOf(value, multiline) \in Seq(Line)
         /\ \A i \in 1..Len(BodyOf(value, multiline)) : \E j \in 1..Len(value) : BodyOf(value, multiline)[i] = value[j]
<1>1. CASE multiline
  BY <1>1 DEF BodyOf
<1>2. CASE ~multiline
  BY <1>2, StrippedLines DEF BodyOf
<1>3. QED
  BY <1>1, <1>2

\* A text is rendered as a text.  What a value is rendered as can stand where an
\* entry stood: it has a first line, and that line does not continue the entry
\* above.
LEMMA RenderedBlock ==
  ASSUME NEW key \in Keys, NEW enabled, NEW value \in Seq(Line), NEW multiline \in BOOLEAN
  PROVE  /\ RenderEntryLines(key, enabled, value, multiline) \in Seq(Line)
         /\ IsValue(value) => IsBlock(RenderEntryLines(key, enabled, value, multiline))
<1> DEFINE Mark(line) == IF enabled THEN line ELSE Comment(line)
           body == BodyOf(value, multiline)
           new == RenderEntryLines(key, enabled, value, multiline)
<1>1. \A line \in Line : Mark(line) \in Line /\ Mark(line).indent = line.indent
  BY CommentIsLine
<1>2. new = CASE body = <<>> -> <<Mark(Setting(key, Empty))>>
              [] body # <<>> /\ multiline -> [i \in DOMAIN body |-> Mark(body[i])]
              [] body # <<>> /\ ~multiline ->
                   <<Mark(Setting(key, AsText(Head(body))))>> \o Tail(body)
  BY DEF RenderEntryLines, BodyOf
<1>0. body \in Seq(Line) /\ (multiline => body = value)
  BY BodyLines DEF BodyOf
<1> HIDE DEF new, Mark, body
<1>3. \A text \in Texts : Setting(key, text) \in Line /\ ~Setting(key, text).indent
  BY SettingIsLine
<1>4. CASE body = <<>>
  <2>1. new = <<Mark(Setting(key, Empty))>>
    BY <1>2, <1>4
  <2>2. Mark(Setting(key, Empty)) \in Line /\ ~Mark(Setting(key, Empty)).indent
    BY <1>1, <1>3, GroupVarsAssumption
  <2>3. QED
    BY <2>1, <2>2, OneLine DEF new, IsBlock
<1>5. CASE body # <<>> /\ multiline
  <2>1. new = [i \in DOMAIN body |-> Mark(body[i])]
    BY <1>2, <1>5
  <2>2. DOMAIN body = 1..Len(body) /\ Len(body) \in Nat /\ 1 \in 1..Len(body)
    BY <1>0, <1>5
  <2>3. \A i \in 1..Len(body) : Mark(body[i]) \in Line
    BY <2>2, <1>0, <1>1
  <2>4. new \in Seq(Line) /\ new[1] = Mark(body[1]) /\ new # <<>>
    BY <2>1, <2>2, <2>3
  <2>5. IsValue(value) => ~new[1].indent
    BY <2>2, <2>4, <1>0, <1>1, <1>5 DEF IsValue
  <2>6. QED
    BY <2>4, <2>5 DEF IsBlock, new
<1>6. CASE body # <<>> /\ ~multiline
  <2> DEFINE top == Mark(Setting(key, AsText(Head(body))))
  <2>1. new = <<top>> \o Tail(body)
    BY <1>2, <1>6
  <2>2. Head(body) \in Line /\ Tail(body) \in Seq(Line)
    BY <1>0, <1>6, HeadTailProperties
  <2>3. AsText(Head(body)) \in Texts
    BY <2>2, TextOfLine
  <2>4. top \in Line /\ ~top.indent
    BY <2>3, <1>1, <1>3
  <2> HIDE DEF top
  <2>5. IsBlock(<<top>>) /\ <<top>> \in Seq(Line) /\ Len(<<top>>) = 1 /\ <<top>>[1] = top
    BY <2>4, OneLine
  <2>6. new \in Seq(Line) /\ Len(new) = 1 + Len(Tail(body)) /\ Len(Tail(body)) \in Nat
    BY <2>1, <2>2, <2>5, ConcatProperties
  <2>7. new[1] = top
    BY <2>1, <2>2, <2>5, ConcatProperties
  <2>8. QED
    BY <2>4, <2>6, <2>7 DEF IsBlock, new
<1>7. QED
  BY <1>4, <1>5, <1>6

-----------------------------------------------------------------------------
(* Entries that stand elsewhere.                                           *)

\* The entry of lines from s to e is the entry of text at p.
StandsAt(lines, s, e, text, p) ==
  /\ p \in 1..Len(text) /\ EndsAt(text, p, p + (e - s))
  /\ \A i \in s..e : text[p + (i - s)] = lines[i]

\* Every entry of another key than ks still stands somewhere.
Keeps(lines, text, ks) ==
  \A s \in Starts(lines) : lines[s].key \notin ks =>
    \E p : StandsAt(lines, s, EndOf(lines, s), text, p)

LEMMA StandsAtStart ==
  ASSUME NEW lines \in Seq(Line), NEW s \in Starts(lines), NEW text \in Seq(Line), NEW p,
         StandsAt(lines, s, EndOf(lines, s), text, p)
  PROVE  /\ s \in 1..Len(lines) /\ EndOf(lines, s) \in s..Len(lines) /\ s \in Nat
         /\ p \in Starts(text) /\ text[p] = lines[s]
         /\ EndOf(text, p) = p + (EndOf(lines, s) - s)
<1> DEFINE e == EndOf(lines, s)
<1>1. s \in 1..Len(lines) /\ IsEntryLine(lines[s]) /\ Len(lines) \in Nat
  BY DEF Starts
<1>2. e \in s..Len(lines)
  BY <1>1, EndExists DEF EndsAt
<1> HIDE DEF e
<1>3. /\ p \in 1..Len(text) /\ EndsAt(text, p, p + (e - s))
      /\ \A i \in s..e : text[p + (i - s)] = lines[i]
  BY DEF StandsAt, e
<1>4. s \in s..e /\ p + (s - s) = p
  BY <1>1, <1>2, <1>3
<1>5. text[p] = lines[s]
  BY <1>3, <1>4
<1>6. p \in Starts(text)
  BY <1>1, <1>3, <1>5 DEF Starts
<1>7. EndOf(text, p) = p + (e - s)
  BY <1>3, EndIsUnique
<1>8. QED
  BY <1>1, <1>2, <1>5, <1>6, <1>7 DEF e

LEMMA KeepsIsTransitive ==
  ASSUME NEW a \in Seq(Line), NEW b \in Seq(Line), NEW c \in Seq(Line), NEW ks,
         Keeps(a, b, ks), Keeps(b, c, ks)
  PROVE  Keeps(a, c, ks)
<1> SUFFICES ASSUME NEW s \in Starts(a), a[s].key \notin ks
             PROVE  \E q : StandsAt(a, s, EndOf(a, s), c, q)
  BY DEF Keeps
<1> DEFINE e == EndOf(a, s)
<1>1. PICK p : StandsAt(a, s, e, b, p)
  BY DEF Keeps
<1>2. /\ s \in 1..Len(a) /\ e \in s..Len(a) /\ s \in Nat /\ Len(a) \in Nat
      /\ p \in Starts(b) /\ b[p] = a[s] /\ EndOf(b, p) = p + (e - s)
  BY <1>1, StandsAtStart
<1>3. PICK q : StandsAt(b, p, EndOf(b, p), c, q)
  BY <1>2 DEF Keeps
<1> HIDE DEF e
<1>4. p \in 1..Len(b) /\ Len(b) \in Nat /\ e \in Nat
  BY <1>2 DEF Starts
<1>5. (p + (e - s)) - p = e - s
  BY <1>2, <1>4
<1>6. q \in 1..Len(c) /\ EndsAt(c, q, q + (e - s))
  BY <1>2, <1>3, <1>5 DEF StandsAt
<1>7. ASSUME NEW i \in s..e PROVE c[q + (i - s)] = a[i]
  <2>1. p + (i - s) \in p..(p + (e - s)) /\ (p + (i - s)) - p = i - s
    BY <1>2, <1>4
  <2>2. c[q + ((p + (i - s)) - p)] = b[p + (i - s)]
    BY <1>2, <1>3, <2>1 DEF StandsAt
  <2>3. b[p + (i - s)] = a[i]
    BY <1>1 DEF StandsAt
  <2>4. QED
    BY <2>1, <2>2, <2>3
<1>8. StandsAt(a, s, e, c, q)
  BY <1>6, <1>7 DEF StandsAt
<1>9. QED
  BY <1>8 DEF e

LEMMA KeepsFewer ==
  ASSUME NEW a, NEW b, NEW js, NEW ks, Keeps(a, b, js), js \subseteq ks
  PROVE  Keeps(a, b, ks)
  BY DEF Keeps

\* A text that differs from another one only in the blank lines that it ends
\* with, or below a line that is not indented.
LEMMA PrefixStands ==
  ASSUME NEW lines \in Seq(Line), NEW text \in Seq(Line), NEW n \in 0..Len(lines),
         n <= Len(text), \A i \in 1..n : text[i] = lines[i],
         \A i \in (n + 1)..Len(lines) : IsBlank(lines[i]),
         n < Len(text) => ~text[n + 1].indent, NEW s \in Starts(lines)
  PROVE  StandsAt(lines, s, EndOf(lines, s), text, s)
<1> DEFINE e == EndOf(lines, s)
<1>1. s \in 1..Len(lines) /\ IsEntryLine(lines[s]) /\ Len(lines) \in Nat /\ Len(text) \in Nat
  BY DEF Starts
<1>2. e \in s..Len(lines) /\ EndsAt(lines, s, e)
  BY <1>1, EndExists DEF EndsAt
<1> HIDE DEF e
<1>3. \A i \in (n + 1)..Len(lines) : ~Continues(lines[s], lines[i]) /\ ~IsEntryLine(lines[i])
  BY BlankStandsApart
<1>4. s <= n
  BY <1>1, <1>3
<1>5. e <= n
  <2> SUFFICES ASSUME e > n PROVE FALSE
    BY <1>1, <1>2
  <2>1. e \in (n + 1)..Len(lines) /\ e \in (s + 1)..e
    BY <1>1, <1>2, <1>4
  <2>2. QED
    BY <2>1, <1>2, <1>3 DEF EndsAt
<1>6. \A i \in s..e : i \in 1..n /\ s + (i - s) = i
  BY <1>1, <1>2, <1>5
<1>7. s + (e - s) = e /\ e \in s..Len(text)
  BY <1>1, <1>2, <1>5
<1>8. \A i \in (s + 1)..e : Continues(text[s], text[i])
  <2>1. s \in 1..n /\ \A i \in (s + 1)..e : i \in 1..n
    BY <1>1, <1>4, <1>6
  <2>2. QED
    BY <2>1, <1>2 DEF EndsAt
<1>9. e = Len(text) \/ ~Continues(text[s], text[e + 1])
  <2>1. CASE e = n
    <3>1. e = Len(text) \/ n < Len(text)
      BY <2>1, <1>1
    <3>2. QED
      BY <2>1, <3>1 DEF Continues, GoesOn
  <2>2. CASE e # n
    <3>1. e + 1 \in 1..n /\ e # Len(lines) /\ s \in 1..n
      BY <2>2, <1>1, <1>2, <1>4, <1>5
    <3>2. QED
      BY <3>1, <1>2 DEF EndsAt
  <2>3. QED
    BY <2>1, <2>2
<1>10. StandsAt(lines, s, e, text, s)
  BY <1>1, <1>6, <1>7, <1>8, <1>9 DEF StandsAt, EndsAt
<1>11. QED
  BY <1>10 DEF e

LEMMA PrefixKeeps ==
  ASSUME NEW lines \in Seq(Line), NEW text \in Seq(Line), NEW n \in 0..Len(lines),
         n <= Len(text), \A i \in 1..n : text[i] = lines[i],
         \A i \in (n + 1)..Len(lines) : IsBlank(lines[i]),
         n < Len(text) => ~text[n + 1].indent
  PROVE  Keeps(lines, text, {})
BY PrefixStands DEF Keeps

\* Two entries that differ in where they stand at most.
SameEntry(e, f) == [e EXCEPT !.start = 0, !.end = 0] = [f EXCEPT !.start = 0, !.end = 0]

\* An entry that stands elsewhere has the key, the switch and the value it had.
LEMMA EntryStays ==
  ASSUME NEW lines \in Seq(Line), NEW s \in Starts(lines), NEW text \in Seq(Line), NEW p,
         StandsAt(lines, s, EndOf(lines, s), text, p)
  PROVE  EntryAt(text, p) \in Entries(text) /\ SameEntry(EntryAt(text, p), EntryAt(lines, s))
<1> DEFINE e == EndOf(lines, s)
           q == EndOf(text, p)
           Value(of, a, b) == CASE b > a -> [i \in 1..(b - a + 1) |-> Uncomment(of[a + i - 1])]
                                [] b = a /\ of[a].text # Empty -> <<Words(of[a].text)>>
                                [] b = a /\ of[a].text = Empty -> <<>>
<1>1. /\ s \in 1..Len(lines) /\ e \in s..Len(lines) /\ s \in Nat /\ Len(lines) \in Nat
      /\ p \in Starts(text) /\ text[p] = lines[s] /\ q = p + (e - s)
  BY StandsAtStart
<1>2. EntryAt(text, p) \in Entries(text)
  BY <1>1 DEF Entries
<1>3. /\ EntryAt(text, p) = [key |-> text[p].key, enabled |-> IsActive(text[p]), start |-> p,
                             end |-> q, multiline |-> q > p, value |-> Value(text, p, q)]
      /\ EntryAt(lines, s) = [key |-> lines[s].key, enabled |-> IsActive(lines[s]), start |-> s,
                              end |-> e, multiline |-> e > s, value |-> Value(lines, s, e)]
  BY DEF EntryAt
<1>4. \A i \in s..e : text[p + (i - s)] = lines[i]
  BY DEF StandsAt
<1> HIDE DEF e, q
<1>5. p \in Nat /\ e \in Nat /\ (q > p <=> e > s) /\ (q = p <=> e = s) /\ q - p + 1 = e - s + 1
  BY <1>1 DEF Starts
<1>6. Value(text, p, q) = Value(lines, s, e)
  <2>1. CASE e > s
    <3>1. \A i \in 1..(e - s + 1) : s + i - 1 \in s..e /\ p + ((s + i - 1) - s) = p + i - 1
      BY <1>1, <1>5
    <3>2. \A i \in 1..(e - s + 1) : Uncomment(text[p + i - 1]) = Uncomment(lines[s + i - 1])
      BY <3>1, <1>4
    <3>3. Value(lines, s, e) = [i \in 1..(e - s + 1) |-> Uncomment(lines[s + i - 1])]
      BY <2>1, <1>1, <1>5
    <3>4. q > p /\ q # p /\ q \in Nat
      BY <2>1, <1>1, <1>5
    <3>5. Value(text, p, q) = [i \in 1..(q - p + 1) |-> Uncomment(text[p + i - 1])]
      BY <3>4, <1>5
    <3>6. 1..(q - p + 1) = 1..(e - s + 1)
      BY <1>5
    <3>7. QED
      BY <3>2, <3>3, <3>5, <3>6
  <2>2. CASE e = s
    <3>1. q = p /\ ~(q > p) /\ ~(e > s) /\ e \in Nat /\ s \in Nat
      BY <2>2, <1>1, <1>5
    <3>2. CASE lines[s].text = Empty
      <4>1. Value(lines, s, e) = <<>> /\ Value(text, p, q) = <<>>
        BY <3>1, <3>2, <2>2, <1>1
      <4>2. QED
        BY <4>1
    <3>3. CASE lines[s].text # Empty
      <4>1. /\ Value(lines, s, e) = <<Words(lines[s].text)>>
            /\ Value(text, p, q) = <<Words(text[p].text)>>
        BY <3>1, <3>3, <2>2, <1>1
      <4>2. QED
        BY <4>1, <1>1
    <3>4. QED
      BY <3>2, <3>3
  <2>3. QED
    BY <2>1, <2>2, <1>1, <1>5
<1> HIDE DEF Value
<1>7. (q > p) = (e > s)
  BY <1>1, <1>5
<1> DEFINE v == Value(lines, s, e)
           first == lines[s]
           active == IsActive(first)
           several == e > s
<1>8. /\ EntryAt(text, p) = [key |-> first.key, enabled |-> active, start |-> p,
                             end |-> q, multiline |-> several, value |-> v]
      /\ EntryAt(lines, s) = [key |-> first.key, enabled |-> active, start |-> s,
                              end |-> e, multiline |-> several, value |-> v]
  BY <1>1, <1>3, <1>6, <1>7
<1> HIDE DEF v, first, active, several
<1>9. ASSUME NEW r, NEW a, NEW b,
             r = [key |-> first.key, enabled |-> active, start |-> a,
                  end |-> b, multiline |-> several, value |-> v]
      PROVE  [r EXCEPT !.start = 0, !.end = 0]
               = [key |-> first.key, enabled |-> active, start |-> 0,
                  end |-> 0, multiline |-> several, value |-> v]
  <2>1. [r EXCEPT !.start = 0] = [key |-> first.key, enabled |-> active, start |-> 0,
                                  end |-> b, multiline |-> several, value |-> v]
    BY <1>9
  <2>2. [r EXCEPT !.start = 0, !.end = 0] = [[r EXCEPT !.start = 0] EXCEPT !.end = 0]
    BY Zenon
  <2> DEFINE moved == [r EXCEPT !.start = 0]
  <2> HIDE DEF moved
  <2>3. moved = [key |-> first.key, enabled |-> active, start |-> 0,
                 end |-> b, multiline |-> several, value |-> v]
    BY <2>1, Zenon DEF moved
  <2>4. [moved EXCEPT !.end = 0] = [key |-> first.key, enabled |-> active, start |-> 0,
                                    end |-> 0, multiline |-> several, value |-> v]
    BY <2>3
  <2>5. QED
    BY <2>2, <2>4, Zenon DEF moved
<1>10. QED
  BY <1>2, <1>8, <1>9 DEF SameEntry

-----------------------------------------------------------------------------
(* One entry replaced.                                                     *)

\* A text in which new stands in the place of the lines from s to n: the lines
\* above are there, and those below, which have moved by the difference.
IsSplice(text, s, n, new, result) ==
  /\ result \in Seq(Line)
  /\ Len(result) = Len(text) + (Len(new) - (n - s + 1))
  /\ \A i \in 1..(s - 1) : result[i] = text[i]
  /\ \A i \in 1..Len(new) : result[s - 1 + i] = new[i]
  /\ \A i \in (n + 1)..Len(text) : result[i + (Len(new) - (n - s + 1))] = text[i]

LEMMA SplicedLines ==
  ASSUME NEW text \in Seq(Line), NEW s \in 1..Len(text), NEW end \in s..Len(text),
         NEW new \in Seq(Line), NEW e, e.start = s, e.end = end
  PROVE  IsSplice(text, s, end, new, Splice(text, e, new))
<1> DEFINE above == SubSeq(text, 1, s - 1)
           below == SubSeq(text, end + 1, Len(text))
           top == above \o new
<1>1. Len(text) \in Nat /\ Len(new) \in Nat /\ s \in Nat /\ end \in Nat
  OBVIOUS
<1>2. /\ above \in Seq(Line) /\ Len(above) = s - 1
      /\ \A i \in 1..(s - 1) : above[i] = text[i]
  <2>1. 1 \in 1..(Len(text) + 1) /\ s - 1 \in (1 - 1)..Len(text)
    BY <1>1
  <2>2. /\ above \in Seq(Line) /\ Len(above) = (s - 1) - 1 + 1
        /\ \A i \in 1..((s - 1) - 1 + 1) : above[i] = text[1 + i - 1]
    BY <2>1, PartPlaces
  <2>3. (s - 1) - 1 + 1 = s - 1 /\ \A i \in 1..(s - 1) : 1 + i - 1 = i
    BY <1>1
  <2>4. QED
    BY <2>2, <2>3
<1>3. /\ below \in Seq(Line) /\ Len(below) = Len(text) - end
      /\ \A i \in 1..(Len(text) - end) : below[i] = text[end + i]
  <2>1. end + 1 \in 1..(Len(text) + 1) /\ Len(text) \in ((end + 1) - 1)..Len(text)
    BY <1>1
  <2>2. /\ below \in Seq(Line) /\ Len(below) = Len(text) - (end + 1) + 1
        /\ \A i \in 1..(Len(text) - (end + 1) + 1) : below[i] = text[(end + 1) + i - 1]
    BY <2>1, PartPlaces
  <2>3. /\ Len(text) - (end + 1) + 1 = Len(text) - end
        /\ \A i \in 1..(Len(text) - end) : (end + 1) + i - 1 = end + i
    BY <1>1
  <2> HIDE DEF below
  <2>4. ASSUME NEW i \in 1..(Len(text) - end) PROVE below[i] = text[end + i]
    <3>1. below[i] = text[(end + 1) + i - 1]
      BY <2>2, <2>3
    <3>2. QED
      BY <3>1, <2>3
  <2>5. QED
    BY <2>2, <2>3, <2>4
<1> HIDE DEF above, below
<1>4. /\ top \in Seq(Line) /\ Len(top) = s - 1 + Len(new)
      /\ \A i \in 1..(s - 1) : top[i] = text[i]
      /\ \A i \in 1..Len(new) : top[s - 1 + i] = new[i]
  <2>1. /\ above \o new \in Seq(Line) /\ Len(above \o new) = Len(above) + Len(new)
        /\ \A i \in 1..Len(above) : (above \o new)[i] = above[i]
        /\ \A i \in 1..Len(new) : (above \o new)[Len(above) + i] = new[i]
    <3>1. above \in Seq(Line)
      BY <1>2
    <3>2. QED
      BY <3>1, JoinedPlaces
  <2> HIDE DEF top
  <2>2. /\ top \in Seq(Line) /\ Len(top) = Len(above) + Len(new)
        /\ \A i \in 1..Len(above) : top[i] = above[i]
        /\ \A i \in 1..Len(new) : top[Len(above) + i] = new[i]
    BY <2>1, Zenon DEF top
  <2>3. QED
    BY <2>2, <1>2
<1> DEFINE all == top \o below
<1>5. Splice(text, e, new) = all
  BY DEF Splice, above, below
<1> HIDE DEF top, all
<1>6. /\ all \in Seq(Line) /\ Len(all) = Len(top) + Len(below)
      /\ \A i \in 1..Len(top) : all[i] = top[i]
      /\ \A i \in 1..Len(below) : all[Len(top) + i] = below[i]
  <2>1. /\ top \o below \in Seq(Line) /\ Len(top \o below) = Len(top) + Len(below)
        /\ \A i \in 1..Len(top) : (top \o below)[i] = top[i]
        /\ \A i \in 1..Len(below) : (top \o below)[Len(top) + i] = below[i]
    <3>1. top \in Seq(Line) /\ below \in Seq(Line)
      BY <1>3, <1>4
    <3>2. QED
      BY <3>1, JoinedPlaces
  <2>2. QED
    BY <2>1, Zenon DEF all
<1>7. \A i \in 1..(s - 1) : all[i] = text[i]
  BY <1>1, <1>4, <1>6
<1>8. \A i \in 1..Len(new) : all[s - 1 + i] = new[i]
  BY <1>1, <1>4, <1>6
<1>9. ASSUME NEW i \in (end + 1)..Len(text)
      PROVE  all[i + (Len(new) - (end - s + 1))] = text[i]
  <2> DEFINE j == i + (Len(new) - (end - s + 1))
  <2>1. /\ j = Len(top) + (i - end) /\ i - end \in 1..Len(below)
        /\ i - end \in 1..(Len(text) - end) /\ end + (i - end) = i
    BY <1>1, <1>3, <1>4
  <2> HIDE DEF j
  <2>2. all[j] = below[i - end] /\ below[i - end] = text[i]
    BY <2>1, <1>3, <1>6
  <2>3. QED
    BY <2>2 DEF j
<1>10. Len(all) = Len(text) + (Len(new) - (end - s + 1))
  BY <1>1, <1>3, <1>4, <1>6
<1>11. QED
  BY <1>5, <1>6, <1>7, <1>8, <1>9, <1>10 DEF IsSplice

\* What stands below the lines that are replaced moves with them.
LEMMA StandsMoved ==
  ASSUME NEW lines, NEW s \in Nat, NEW e \in Nat, s <= e, NEW text \in Seq(Line), NEW p,
         StandsAt(lines, s, e, text, p), NEW moved \in Seq(Line), NEW d \in Int, NEW n \in Nat,
         n < p, p + d >= 1, Len(moved) = Len(text) + d,
         \A i \in (n + 1)..Len(text) : moved[i + d] = text[i]
  PROVE  StandsAt(lines, s, e, moved, p + d)
<1> DEFINE m == e - s
<1>1. m \in Nat /\ Len(text) \in Nat /\ Len(moved) \in Nat
  OBVIOUS
<1> HIDE DEF m
<1>2. /\ p \in 1..Len(text) /\ p + m \in p..Len(text)
      /\ \A i \in (p + 1)..(p + m) : Continues(text[p], text[i])
      /\ p + m = Len(text) \/ ~Continues(text[p], text[(p + m) + 1])
      /\ \A i \in s..e : text[p + (i - s)] = lines[i]
  BY DEF StandsAt, EndsAt, m
<1>3. /\ p \in (n + 1)..Len(text) /\ p + d \in 1..Len(moved)
      /\ (p + d) + m \in (p + d)..Len(moved) /\ (p + d) + m = (p + m) + d
      /\ p \in Nat /\ p + m <= Len(text)
  <2>1. p \in Nat /\ p <= Len(text) /\ p + m <= Len(text)
    BY <1>1, <1>2
  <2>2. p \in (n + 1)..Len(text)
    BY <1>1, <2>1
  <2>3. p + d \in 1..Len(moved)
    BY <1>1, <2>1
  <2>4. (p + d) + m = (p + m) + d
    BY <1>1, <2>1
  <2>5. (p + d) + m \in (p + d)..Len(moved)
    BY <1>1, <2>1
  <2>6. QED
    BY <2>1, <2>2, <2>3, <2>4, <2>5
<1>4. moved[p + d] = text[p]
  BY <1>3
<1>5. ASSUME NEW i \in ((p + d) + 1)..((p + d) + m) PROVE Continues(moved[p + d], moved[i])
  <2> DEFINE j == i - d
  <2>1. j \in Int /\ j + d = i /\ j >= p + 1 /\ j <= p + m
    BY <1>1, <1>3
  <2> HIDE DEF j
  <2>2. j \in (p + 1)..(p + m) /\ j \in (n + 1)..Len(text)
    BY <2>1, <1>1, <1>3
  <2>3. moved[i] = text[j]
    BY <2>1, <2>2
  <2>4. QED
    BY <2>2, <2>3, <1>2, <1>4
<1>6. (p + d) + m = Len(moved) \/ ~Continues(moved[p + d], moved[((p + d) + m) + 1])
  <2> p \in 1..Len(text) /\ p + m \in p..Len(text)
    BY <1>2
  <2>1. CASE p + m = Len(text)
    BY <2>1, <1>1, <1>3
  <2>2. CASE p + m # Len(text)
    <3>1. (p + m) + 1 \in (n + 1)..Len(text)
      BY <2>2, <1>1
    <3>2. ((p + d) + m) + 1 = ((p + m) + 1) + d
      BY <1>1
    <3> DEFINE i == (p + m) + 1
    <3>3. moved[i + d] = text[i]
      BY <3>1
    <3>4. moved[((p + d) + m) + 1] = text[(p + m) + 1]
      BY <3>2, <3>3
    <3>5. QED
      BY <3>4, <2>2, <1>2, <1>4
  <2>3. QED
    BY <2>1, <2>2
<1>7. ASSUME NEW i \in s..e PROVE moved[(p + d) + (i - s)] = lines[i]
  <2> DEFINE j == p + (i - s)
  <2>1. j \in Int /\ j >= p /\ j <= p + m
    BY <1>3 DEF m
  <2>2. (p + d) + (i - s) = j + d
    BY <1>3
  <2>3. text[j] = lines[i]
    BY <1>2
  <2> HIDE DEF j
  <2>4. j \in (n + 1)..Len(text)
    BY <2>1, <1>1, <1>3
  <2>5. QED
    BY <2>2, <2>3, <2>4
<1>8. StandsAt(lines, s, e, moved, p + d)
  BY <1>3, <1>5, <1>6, <1>7 DEF StandsAt, EndsAt, m
<1>9. QED
  BY <1>8

-----------------------------------------------------------------------------
(* All entries of the updated keys replaced, from the bottom up.           *)

\* The first entry at or below a line.
FirstFrom(lines, s, n) ==
  /\ n \in s..(Len(lines) + 1) /\ (n <= Len(lines) => n \in Starts(lines))
  /\ \A r \in s..(n - 1) : r \notin Starts(lines)

LEMMA FirstExists ==
  ASSUME NEW lines \in Seq(Line), NEW s \in 1..(Len(lines) + 1)
  PROVE  \E n : FirstFrom(lines, s, n)
<1> DEFINE T == {n \in s..(Len(lines) + 1) : n <= Len(lines) => n \in Starts(lines)}
<1>1. Len(lines) \in Nat /\ s \in Nat
  OBVIOUS
<1>2. T \subseteq Nat /\ Len(lines) + 1 \in T
  BY <1>1
<1>3. PICK n \in T : \A j \in T : n <= j
  BY <1>2, LeastElement
<1>4. ASSUME NEW r \in s..(n - 1) PROVE r \notin Starts(lines)
  <2>1. r \in s..(Len(lines) + 1) /\ ~(n <= r)
    BY <1>1, <1>3
  <2>2. QED
    BY <2>1, <1>3
<1>5. QED
  BY <1>3, <1>4 DEF FirstFrom

\* What the entries of text from line n on have to do with those of lines: n is
\* the first entry of lines that may have been replaced.
Agrees(lines, text, ks, n) ==
  /\ text \in Seq(Line)
  /\ n - 1 <= Len(text) /\ \A i \in 1..(n - 1) : text[i] = lines[i]
  /\ n = Len(lines) + 1 => text = lines
  /\ n <= Len(lines) => n <= Len(text) /\ ~text[n].indent
  /\ \A t \in Starts(lines) : t >= n /\ lines[t].key \notin ks =>
       \E p : StandsAt(lines, t, EndOf(lines, t), text, p) /\ p >= n

\* The entry above them is as it was.
LEMMA StandsStill ==
  ASSUME NEW lines \in Seq(Line), NEW text, NEW ks, NEW s \in Starts(lines), NEW m,
         FirstFrom(lines, s + 1, m), Agrees(lines, text, ks, m)
  PROVE  StandsAt(lines, s, EndOf(lines, s), text, s) /\ EndOf(lines, s) < m
<1> DEFINE e == EndOf(lines, s)
<1>1. s \in 1..Len(lines) /\ Len(lines) \in Nat /\ s \in Nat
  BY DEF Starts
<1>2. /\ e \in s..Len(lines)
      /\ \A i \in (s + 1)..e : Continues(lines[s], lines[i])
      /\ e = Len(lines) \/ ~Continues(lines[s], lines[e + 1])
  BY <1>1, EndExists DEF EndsAt
<1> HIDE DEF e
<1>3. /\ m \in (s + 1)..(Len(lines) + 1) /\ (m <= Len(lines) => m \in Starts(lines))
  BY DEF FirstFrom
<1>4. /\ text \in Seq(Line) /\ Len(text) \in Nat
      /\ m - 1 <= Len(text) /\ \A i \in 1..(m - 1) : text[i] = lines[i]
      /\ m = Len(lines) + 1 => text = lines
      /\ m <= Len(lines) => m <= Len(text) /\ ~text[m].indent
  BY DEF Agrees
<1>5. e < m
  <2> SUFFICES ASSUME ~(e < m) PROVE FALSE
    OBVIOUS
  <2>1. m \in (s + 1)..e /\ m \in Starts(lines)
    BY <1>1, <1>2, <1>3
  <2>2. IsEntryLine(lines[m]) /\ lines[m] \in Line
    BY <2>1 DEF Starts
  <2>3. QED
    BY <2>1, <2>2, <1>2, EntryLines
<1>6. s <= Len(text) /\ text[s] = lines[s]
  BY <1>1, <1>3, <1>4
<1>7. \A i \in s..e : i \in 1..(m - 1) /\ s + (i - s) = i
  BY <1>1, <1>2, <1>3, <1>5
<1>8. s + (e - s) = e /\ e \in s..Len(text) /\ s \in 1..Len(text)
  BY <1>1, <1>2, <1>3, <1>4, <1>5
<1>9. \A i \in (s + 1)..e : text[i] = lines[i]
  BY <1>1, <1>7, <1>4
<1>10. e = Len(text) \/ ~Continues(text[s], text[e + 1])
  <2>1. CASE m = Len(lines) + 1
    BY <2>1, <1>2, <1>4
  <2>2. CASE m # Len(lines) + 1 /\ e + 1 = m
    BY <2>2, <1>3, <1>4 DEF Continues, GoesOn
  <2>3. CASE m # Len(lines) + 1 /\ e + 1 # m
    <3>1. e + 1 \in 1..(m - 1) /\ e # Len(lines)
      BY <2>3, <1>1, <1>2, <1>3, <1>5
    <3>2. QED
      BY <3>1, <1>2, <1>4, <1>6
  <2>4. QED
    BY <2>1, <2>2, <2>3
<1>11. StandsAt(lines, s, e, text, s)
  BY <1>7, <1>8, <1>9, <1>10, <1>2, <1>4, <1>6 DEF StandsAt, EndsAt
<1>12. QED
  BY <1>5, <1>11 DEF e

\* An entry that is not updated is left where it is.
LEMMA AgreesAbove ==
  ASSUME NEW lines \in Seq(Line), NEW text, NEW ks, NEW s \in Starts(lines), NEW m,
         FirstFrom(lines, s + 1, m), Agrees(lines, text, ks, m)
  PROVE  Agrees(lines, text, ks, s)
<1>1. s \in 1..Len(lines) /\ IsEntryLine(lines[s]) /\ Len(lines) \in Nat /\ s \in Nat /\ lines[s] \in Line
  BY DEF Starts
<1>2. /\ m \in (s + 1)..(Len(lines) + 1) /\ (m <= Len(lines) => m \in Starts(lines))
      /\ \A r \in (s + 1)..(m - 1) : r \notin Starts(lines)
  BY DEF FirstFrom
<1>3. /\ text \in Seq(Line) /\ Len(text) \in Nat
      /\ m - 1 <= Len(text) /\ \A i \in 1..(m - 1) : text[i] = lines[i]
  BY DEF Agrees
<1>4. s - 1 <= Len(text) /\ s <= Len(text) /\ text[s] = lines[s] /\ \A i \in 1..(s - 1) : text[i] = lines[i]
  BY <1>1, <1>2, <1>3
<1>5. ~text[s].indent
  BY <1>1, <1>4, EntryLines
<1>6. ASSUME NEW t \in Starts(lines), t >= s, lines[t].key \notin ks
      PROVE  \E p : StandsAt(lines, t, EndOf(lines, t), text, p) /\ p >= s
  <2>1. t \in 1..Len(lines) /\ t \in Nat
    BY DEF Starts
  <2>2. CASE t = s
    <3>1. StandsAt(lines, s, EndOf(lines, s), text, s)
      BY StandsStill
    <3>2. QED
      BY <2>2, <3>1, <1>1
  <2>3. CASE t # s
    <3>1. t >= m
      BY <2>1, <2>3, <1>1, <1>2, <1>6
    <3>2. PICK p : StandsAt(lines, t, EndOf(lines, t), text, p) /\ p >= m
      BY <3>1, <1>6 DEF Agrees
    <3>3. p \in Nat
      BY <3>2 DEF StandsAt
    <3>4. QED
      BY <3>2, <3>3, <1>1, <1>2
  <2>4. QED
    BY <2>2, <2>3
<1>7. s # Len(lines) + 1
  BY <1>1
<1>8. QED
  BY <1>3, <1>4, <1>5, <1>6, <1>7 DEF Agrees

\* So is one that is, with other lines in its place.
LEMMA AgreesReplaced ==
  ASSUME NEW lines \in Seq(Line), NEW text, NEW ks, NEW s \in Starts(lines), NEW m,
         FirstFrom(lines, s + 1, m), Agrees(lines, text, ks, m), lines[s].key \in ks,
         NEW e, e.start = s, e.end = EndOf(lines, s), NEW new, IsBlock(new)
  PROVE  Agrees(lines, Splice(text, e, new), ks, s)
<1> DEFINE end == EndOf(lines, s)
           result == Splice(text, e, new)
           d == Len(new) - (end - s + 1)
<1>1. s \in 1..Len(lines) /\ Len(lines) \in Nat /\ s \in Nat
  BY DEF Starts
<1>2. /\ end \in s..Len(lines)
      /\ \A i \in (s + 1)..end : Continues(lines[s], lines[i])
  BY <1>1, EndExists DEF EndsAt
<1>3. e.end = end
  OBVIOUS
<1> HIDE DEF end
<1>4. /\ m \in (s + 1)..(Len(lines) + 1) /\ (m <= Len(lines) => m \in Starts(lines))
      /\ \A r \in (s + 1)..(m - 1) : r \notin Starts(lines)
  BY DEF FirstFrom
<1>5. /\ text \in Seq(Line) /\ Len(text) \in Nat /\ m - 1 <= Len(text)
      /\ \A i \in 1..(m - 1) : text[i] = lines[i]
  BY DEF Agrees
<1>6. end < m
  <2> SUFFICES ASSUME ~(end < m) PROVE FALSE
    OBVIOUS
  <2>1. m \in (s + 1)..end /\ m \in Starts(lines)
    BY <1>1, <1>2, <1>4
  <2>2. IsEntryLine(lines[m]) /\ lines[m] \in Line
    BY <2>1 DEF Starts
  <2>3. QED
    BY <2>1, <2>2, <1>2, EntryLines
<1>7. /\ new \in Seq(Line) /\ Len(new) \in Nat /\ Len(new) >= 1 /\ ~new[1].indent
  BY EmptySeq DEF IsBlock
<1>8. s \in 1..Len(text) /\ end \in s..Len(text) /\ end \in Nat
  BY <1>1, <1>2, <1>4, <1>5, <1>6
<1>9. IsSplice(text, s, end, new, result)
  BY <1>3, <1>5, <1>7, <1>8, SplicedLines
<1> HIDE DEF result
<1>10. /\ result \in Seq(Line) /\ Len(result) = Len(text) + d
       /\ \A i \in 1..(s - 1) : result[i] = text[i]
       /\ \A i \in 1..Len(new) : result[s - 1 + i] = new[i]
       /\ \A i \in (end + 1)..Len(text) : result[i + d] = text[i]
       /\ d \in Int /\ s - 1 + Len(new) = end + d
  <2>1. d \in Int /\ s - 1 + Len(new) = end + d
    BY <1>1, <1>7, <1>8
  <2>2. QED
    BY <1>9, <2>1 DEF IsSplice
<1> HIDE DEF d
<1>11. s <= Len(result) /\ s - 1 <= Len(result)
  BY <1>1, <1>5, <1>7, <1>8, <1>10
<1>12. \A i \in 1..(s - 1) : result[i] = lines[i]
  BY <1>1, <1>4, <1>5, <1>10
<1>13. ~result[s].indent
  <2>1. 1 \in 1..Len(new) /\ s - 1 + 1 = s
    BY <1>1, <1>7
  <2>2. result[s] = new[1]
    BY <2>1, <1>10
  <2>3. QED
    BY <2>2, <1>7
<1>14. ASSUME NEW t \in Starts(lines), t >= s, lines[t].key \notin ks
       PROVE  \E p : StandsAt(lines, t, EndOf(lines, t), result, p) /\ p >= s
  <2>1. t \in 1..Len(lines) /\ t \in Nat /\ t # s
    BY <1>14 DEF Starts
  <2>2. t >= m
    BY <2>1, <1>1, <1>4, <1>14
  <2>3. PICK p : StandsAt(lines, t, EndOf(lines, t), text, p) /\ p >= m
    BY <2>2, <1>14 DEF Agrees
  <2>4. EndOf(lines, t) \in t..Len(lines)
    BY <2>1, EndExists DEF EndsAt
  <2>5. p \in Nat /\ end < p
    BY <2>3, <1>1, <1>4, <1>6, <1>8 DEF StandsAt
  <2>6. p + d >= s /\ p + d >= 1
    BY <2>5, <1>1, <1>7, <1>8, <1>10
  <2>7. EndOf(lines, t) \in Nat /\ t <= EndOf(lines, t)
    BY <2>1, <2>4
  <2>8. StandsAt(lines, t, EndOf(lines, t), result, p + d)
    BY <2>1, <2>3, <2>5, <2>6, <2>7, <1>5, <1>8, <1>10, StandsMoved
  <2>9. QED
    BY <2>6, <2>8
<1>15. s # Len(lines) + 1
  BY <1>1
<1>16. Agrees(lines, result, ks, s)
  BY <1>10, <1>11, <1>12, <1>13, <1>14, <1>15 DEF Agrees
<1>17. QED
  BY <1>16 DEF result

\* What is sent for each key are lines; those of a value: an update without one
\* (keep) takes that of the entry.
AreTexts(updates) ==
  DOMAIN updates \subseteq Keys /\ \A k \in DOMAIN updates : updates[k].value \in Seq(Line)

AreUpdates(updates) ==
  DOMAIN updates \subseteq Keys /\ \A k \in DOMAIN updates : IsValue(updates[k].value)

LEMMA UpdatesAreTexts ==
  ASSUME NEW updates, AreUpdates(updates)
  PROVE  AreTexts(updates)
BY DEF AreUpdates, AreTexts, IsValue

LEMMA ReplacementIsBlock ==
  ASSUME NEW lines \in Seq(Line), NEW s \in Starts(lines), NEW upd, upd.value \in Seq(Line)
  PROVE  /\ Replacement(EntryAt(lines, s), upd) \in Seq(Line)
         /\ IsValue(upd.value) => IsBlock(Replacement(EntryAt(lines, s), upd))
<1> DEFINE e == EntryAt(lines, s)
           value == IF upd.keep THEN e.value ELSE upd.value
<1>1. lines[s] \in Line /\ IsEntryLine(lines[s])
  BY DEF Starts
<1>2. e.key = lines[s].key /\ e.multiline = (EndOf(lines, s) > s)
  BY DEF EntryAt
<1>3. e.key \in Keys /\ e.multiline \in BOOLEAN
  BY <1>1, <1>2, EntryLines
<1>4. value \in Seq(Line) /\ (IsValue(upd.value) => IsValue(value))
  BY EntryValue DEF IsValue
<1> HIDE DEF e, value
<1>5. /\ RenderEntryLines(e.key, upd.enabled, value, e.multiline) \in Seq(Line)
      /\ IsValue(value) => IsBlock(RenderEntryLines(e.key, upd.enabled, value, e.multiline))
  BY <1>3, <1>4, RenderedBlock
<1>6. QED
  BY <1>4, <1>5 DEF Replacement, e, value

\* The text in which the entry at s is rewritten as well.
EntryRewritten(lines, updates, s, text) ==
  Splice(text, EntryAt(lines, s), Replacement(EntryAt(lines, s), updates[EntryAt(lines, s).key]))

\* The texts of Rewritten, as far as they are known to be texts.
Unrolls(lines, updates, f) ==
  /\ f[Len(lines) + 1] = lines
  /\ \A s \in 1..Len(lines) :
       IF s \in Targeted(lines, updates)
       THEN EntryRewritten(lines, updates, s, f[s + 1]) \in Seq(Line) =>
              f[s] = EntryRewritten(lines, updates, s, f[s + 1])
       ELSE f[s] = f[s + 1]

LEMMA EntryRewrittenAgrees ==
  ASSUME NEW lines \in Seq(Line), NEW updates, AreUpdates(updates), NEW s \in Starts(lines),
         lines[s].key \in DOMAIN updates, NEW text, NEW m, FirstFrom(lines, s + 1, m),
         Agrees(lines, text, DOMAIN updates, m)
  PROVE  Agrees(lines, EntryRewritten(lines, updates, s, text), DOMAIN updates, s)
<1> DEFINE e == EntryAt(lines, s)
           new == Replacement(e, updates[e.key])
<1>1. e.key = lines[s].key /\ e.start = s /\ e.end = EndOf(lines, s)
  BY DEF EntryAt
<1>2. IsBlock(new)
  <2>1. IsValue(updates[e.key].value)
    BY <1>1 DEF AreUpdates
  <2>2. QED
    BY <2>1, ReplacementIsBlock DEF IsValue
<1>3. EntryRewritten(lines, updates, s, text) = Splice(text, e, new)
  BY DEF EntryRewritten
<1> HIDE DEF e, new
<1>4. Agrees(lines, Splice(text, e, new), DOMAIN updates, s)
  BY <1>1, <1>2, AgreesReplaced
<1>5. QED
  BY <1>3, <1>4

LEMMA UnrolledAgrees ==
  ASSUME NEW lines \in Seq(Line), NEW updates, AreUpdates(updates),
         NEW f, Unrolls(lines, updates, f)
  PROVE  \A s \in 1..(Len(lines) + 1) : \A n :
           FirstFrom(lines, s, n) => Agrees(lines, f[s], DOMAIN updates, n)
<1> DEFINE ks == DOMAIN updates
           len == Len(lines)
           Good(s) == \A n : FirstFrom(lines, s, n) => Agrees(lines, f[s], ks, n)
           T == {k \in 0..len : ~Good(len + 1 - k)}
<1>1. len \in Nat
  OBVIOUS
<1>2. Good(len + 1)
  <2> SUFFICES ASSUME NEW n, FirstFrom(lines, len + 1, n) PROVE Agrees(lines, f[len + 1], ks, n)
    OBVIOUS
  <2>1. n = len + 1
    BY <1>1 DEF FirstFrom
  <2>2. f[len + 1] = lines
    BY DEF Unrolls
  <2>3. \A t \in Starts(lines) : ~(t >= n)
    BY <2>1, <1>1 DEF Starts
  <2>4. QED
    BY <2>1, <2>2, <2>3, <1>1 DEF Agrees
<1>3. ASSUME NEW s \in 1..len, Good(s + 1) PROVE Good(s)
  <2> SUFFICES ASSUME NEW n, FirstFrom(lines, s, n) PROVE Agrees(lines, f[s], ks, n)
    OBVIOUS
  <2>1. s + 1 \in 1..(len + 1) /\ s \in Nat
    BY <1>1
  <2>2. PICK m : FirstFrom(lines, s + 1, m)
    BY <2>1, FirstExists
  <2>3. Agrees(lines, f[s + 1], ks, m)
    BY <2>2, <1>3
  <2>4. CASE s \in Starts(lines)
    <3>1. n = s
      <4>1. n \in s..(len + 1) /\ \A r \in s..(n - 1) : r \notin Starts(lines)
        BY DEF FirstFrom
      <4>2. n # s => s \in s..(n - 1)
        BY <4>1, <2>1, <1>1
      <4>3. QED
        BY <4>1, <4>2, <2>4
    <3>2. CASE lines[s].key \in ks
      <4>1. s \in Targeted(lines, updates)
        BY <2>4, <3>2 DEF Targeted
      <4>2. Agrees(lines, EntryRewritten(lines, updates, s, f[s + 1]), ks, s)
        BY <2>2, <2>3, <2>4, <3>2, EntryRewrittenAgrees
      <4>3. EntryRewritten(lines, updates, s, f[s + 1]) \in Seq(Line)
        BY <4>2 DEF Agrees
      <4>4. f[s] = EntryRewritten(lines, updates, s, f[s + 1])
        BY <4>1, <4>3 DEF Unrolls
      <4>5. QED
        BY <3>1, <4>2, <4>4
    <3>3. CASE lines[s].key \notin ks
      <4>1. s \notin Targeted(lines, updates)
        BY <3>3 DEF Targeted
      <4>2. f[s] = f[s + 1]
        BY <4>1 DEF Unrolls
      <4>3. QED
        BY <2>2, <2>3, <2>4, <3>1, <4>2, AgreesAbove
    <3>4. QED
      BY <3>2, <3>3
  <2>5. CASE s \notin Starts(lines)
    <3>1. s \notin Targeted(lines, updates)
      BY <2>5 DEF Targeted
    <3>2. f[s] = f[s + 1]
      BY <3>1 DEF Unrolls
    <3>3. n # s
      BY <2>5, <1>1 DEF FirstFrom
    <3>4. FirstFrom(lines, s + 1, n)
      BY <3>3, <2>1, <1>1 DEF FirstFrom
    <3>5. QED
      BY <3>2, <3>4, <1>3
  <2>6. QED
    BY <2>4, <2>5
<1> HIDE DEF Good
<1>4. T = {}
  <2> SUFFICES ASSUME T # {} PROVE FALSE
    OBVIOUS
  <2>1. T \subseteq Nat
    OBVIOUS
  <2>2. PICK k \in T : \A j \in T : k <= j
    BY <2>1, LeastElement
  <2>3. k \in 0..len /\ ~Good(len + 1 - k)
    BY <2>2
  <2>4. k # 0
    BY <2>3, <1>1, <1>2
  <2>5. /\ k - 1 \in 0..len /\ len + 1 - k \in 1..len
        /\ (len + 1 - k) + 1 = len + 1 - (k - 1) /\ ~(k <= k - 1)
    BY <2>3, <2>4, <1>1
  <2>6. Good(len + 1 - (k - 1))
    BY <2>2, <2>5
  <2>7. QED
    BY <1>3, <2>3, <2>5, <2>6
<1>5. \A s \in 1..(len + 1) : Good(s)
  <2> TAKE s \in 1..(len + 1)
  <2>1. len + 1 - s \in 0..len /\ len + 1 - (len + 1 - s) = s
    BY <1>1
  <2>2. QED
    BY <2>1, <1>4
<1>6. QED
  BY <1>5 DEF Good

\* The texts of Rewritten have every line above the one they are rewritten from.
Reaches(text, s) == text \in Seq(Line) /\ Len(text) >= s - 1

LEMMA EntryRewrittenReaches ==
  ASSUME NEW lines \in Seq(Line), NEW updates, AreTexts(updates),
         NEW s \in Targeted(lines, updates), NEW text, Reaches(text, s + 1)
  PROVE  Reaches(EntryRewritten(lines, updates, s, text), s)
<1> DEFINE e == EntryAt(lines, s)
           new == Replacement(e, updates[e.key])
           end == EndOf(lines, s)
           above == SubSeq(text, 1, s - 1)
           below == SubSeq(text, end + 1, Len(text))
           top == above \o new
           all == top \o below
<1>1. s \in 1..Len(lines) /\ s \in Starts(lines) /\ lines[s].key \in DOMAIN updates /\ Len(lines) \in Nat
  BY DEF Targeted, Starts
<1>2. e.key = lines[s].key /\ e.start = s /\ e.end = end
  BY DEF EntryAt
<1>3. end \in s..Len(lines)
  BY <1>1, EndExists DEF EndsAt
<1>4. new \in Seq(Line)
  BY <1>1, <1>2, ReplacementIsBlock DEF AreTexts
<1>5. text \in Seq(Line) /\ Len(text) \in Nat /\ s - 1 <= Len(text) /\ s \in Nat /\ end \in Nat
  BY <1>1, <1>3 DEF Reaches
<1>6. above \in Seq(Line) /\ Len(above) = s - 1
  <2>1. 1 \in 1..(Len(text) + 1) /\ s - 1 \in (1 - 1)..Len(text) /\ s - 1 - 1 + 1 = s - 1
    BY <1>1, <1>5
  <2>2. QED
    BY <2>1, <1>5, PartPlaces
<1>7. below \in Seq(Line)
  <2>1. CASE end + 1 <= Len(text) + 1
    <3>1. end + 1 \in 1..(Len(text) + 1) /\ Len(text) \in ((end + 1) - 1)..Len(text)
      BY <2>1, <1>5
    <3>2. QED
      BY <3>1, <1>5, PartPlaces
  <2>2. CASE ~(end + 1 <= Len(text) + 1)
    <3> DEFINE past == end + 1
    <3>1. past \in Nat /\ past > Len(text)
      BY <2>2, <1>5
    <3> HIDE DEF past
    <3>2. SubSeq(text, past, Len(text)) = <<>>
      BY <3>1, <1>5
    <3>3. <<>> \in Seq(Line)
      OBVIOUS
    <3>4. QED
      BY <3>2, <3>3 DEF past
  <2>3. QED
    BY <2>1, <2>2
<1>8. EntryRewritten(lines, updates, s, text) = all
  BY <1>2 DEF EntryRewritten, Splice
<1> HIDE DEF e, new, end, above, below, top, all
<1>9. top \in Seq(Line) /\ Len(top) = Len(above) + Len(new)
  BY <1>4, <1>6, JoinedPlaces DEF top
<1>10. all \in Seq(Line) /\ Len(all) = Len(top) + Len(below)
  BY <1>7, <1>9, JoinedPlaces DEF all
<1>11. Len(new) \in Nat /\ Len(below) \in Nat
  BY <1>4, <1>7
<1>12. Len(all) >= s - 1
  BY <1>1, <1>6, <1>9, <1>10, <1>11
<1>13. QED
  BY <1>8, <1>10, <1>12 DEF Reaches

LEMMA UnrolledReaches ==
  ASSUME NEW lines \in Seq(Line), NEW updates, AreTexts(updates),
         NEW f, Unrolls(lines, updates, f)
  PROVE  \A s \in 1..(Len(lines) + 1) : Reaches(f[s], s)
<1> DEFINE len == Len(lines)
           Good(s) == Reaches(f[s], s)
           T == {k \in 0..len : ~Good(len + 1 - k)}
<1>1. len \in Nat
  OBVIOUS
<1>2. Good(len + 1)
  BY <1>1 DEF Unrolls, Reaches
<1>3. ASSUME NEW s \in 1..len, Good(s + 1) PROVE Good(s)
  <2>1. CASE s \in Targeted(lines, updates)
    <3>1. Reaches(EntryRewritten(lines, updates, s, f[s + 1]), s)
      BY <1>3, <2>1, EntryRewrittenReaches
    <3>2. f[s] = EntryRewritten(lines, updates, s, f[s + 1])
      BY <2>1, <3>1 DEF Unrolls, Reaches
    <3>3. QED
      BY <3>1, <3>2
  <2>2. CASE s \notin Targeted(lines, updates)
    <3>1. f[s] = f[s + 1]
      BY <2>2 DEF Unrolls
    <3>2. QED
      BY <3>1, <1>1, <1>3 DEF Reaches
  <2>3. QED
    BY <2>1, <2>2
<1> HIDE DEF Good
<1>4. T = {}
  <2> SUFFICES ASSUME T # {} PROVE FALSE
    OBVIOUS
  <2>1. T \subseteq Nat
    OBVIOUS
  <2>2. PICK k \in T : \A j \in T : k <= j
    BY <2>1, LeastElement
  <2>3. k \in 0..len /\ ~Good(len + 1 - k)
    BY <2>2
  <2>4. k # 0
    BY <2>3, <1>1, <1>2
  <2>5. /\ k - 1 \in 0..len /\ len + 1 - k \in 1..len
        /\ (len + 1 - k) + 1 = len + 1 - (k - 1) /\ ~(k <= k - 1)
    BY <2>3, <2>4, <1>1
  <2>6. Good(len + 1 - (k - 1))
    BY <2>2, <2>5
  <2>7. QED
    BY <1>3, <2>3, <2>5, <2>6
<1>5. \A s \in 1..(len + 1) : Good(s)
  <2> TAKE s \in 1..(len + 1)
  <2>1. len + 1 - s \in 0..len /\ len + 1 - (len + 1 - s) = s
    BY <1>1
  <2>2. QED
    BY <2>1, <1>4
<1>6. QED
  BY <1>5 DEF Good

\* The texts of Rewritten exist, and they unroll: the definition is a recursive
\* function over the line numbers.
LEMMA RewrittenUnrolls ==
  ASSUME NEW lines \in Seq(Line), NEW updates, AreTexts(updates)
  PROVE  \E f : Unrolls(lines, updates, f) /\ Rewritten(lines, updates) = f[1]
<1> DEFINE len == Len(lines)
           Body(f) == [s \in 1..(len + 1) |->
                         IF s \in Targeted(lines, updates) THEN EntryRewritten(lines, updates, s, f[s + 1])
                         ELSE IF s = len + 1 THEN lines ELSE f[s + 1]]
           Clip(text) == IF text \in Seq(Line) THEN text ELSE lines
           F == [s \in 1..len |-> [x \in Seq(Line) |->
                   IF s \in Targeted(lines, updates) THEN Clip(EntryRewritten(lines, updates, s, x)) ELSE x]]
<1>1. len \in Nat /\ len + 1 \notin Targeted(lines, updates) /\ Targeted(lines, updates) \subseteq Starts(lines)
  BY DEF Targeted, Starts
<1>2. \E g : g = Body(g)
  <2>1. F \in [1..len -> [Seq(Line) -> Seq(Line)]]
    OBVIOUS
  <2>2. \A s \in 1..len, x \in Seq(Line) :
          F[s][x] = IF s \in Targeted(lines, updates) THEN Clip(EntryRewritten(lines, updates, s, x)) ELSE x
    OBVIOUS
  <2> HIDE DEF F
  <2>3. PICK g : CountsDown(g, len, Seq(Line), lines, F)
    BY <1>1, <2>1, Countdown
  <2>4. /\ g \in [1..(len + 1) -> Seq(Line)] /\ g[len + 1] = lines
        /\ \A s \in 1..len : g[s] = F[s][g[s + 1]]
    BY <2>3 DEF CountsDown
  <2>5. \A s \in 1..len : s + 1 \in 1..(len + 1) /\ g[s + 1] \in Seq(Line)
    BY <2>4, <1>1
  <2>6. \A s \in 1..len : g[s] = IF s \in Targeted(lines, updates)
                                 THEN Clip(EntryRewritten(lines, updates, s, g[s + 1])) ELSE g[s + 1]
    BY <2>2, <2>4, <2>5
  <2>7. Unrolls(lines, updates, g)
    BY <2>4, <2>6 DEF Unrolls
  <2>8. \A s \in 1..(len + 1) : Reaches(g[s], s)
    BY <2>7, UnrolledReaches
  <2>9. ASSUME NEW s \in 1..len, s \in Targeted(lines, updates)
        PROVE  EntryRewritten(lines, updates, s, g[s + 1]) \in Seq(Line)
    BY <2>5, <2>8, <2>9, EntryRewrittenReaches DEF Reaches
  <2>10. ASSUME NEW s \in 1..(len + 1) PROVE g[s] = Body(g)[s]
    <3>1. CASE s = len + 1
      BY <3>1, <2>4, <1>1
    <3>2. CASE s # len + 1
      <4>1. s \in 1..len
        BY <3>2, <1>1
      <4>2. QED
        BY <4>1, <3>2, <2>6, <2>9
    <3>3. QED
      BY <3>1, <3>2
  <2> HIDE DEF Body
  <2>11. g = Body(g)
    BY <2>4, <2>10 DEF Body
  <2>12. QED
    BY <2>11
<1> DEFINE from == CHOOSE f : f = Body(f)
<1>3. from = Body(from)
  BY <1>2
<1>4. Rewritten(lines, updates) = from[1]
  BY DEF Rewritten, EntryRewritten
<1> HIDE DEF from
<1>5. /\ from[len + 1] = lines
      /\ \A s \in 1..len : from[s] = IF s \in Targeted(lines, updates)
                                     THEN EntryRewritten(lines, updates, s, from[s + 1]) ELSE from[s + 1]
  <2>1. \A s \in 1..(len + 1) : from[s] = Body(from)[s]
    BY <1>3, Zenon
  <2>2. len + 1 \in 1..(len + 1) /\ \A s \in 1..len : s \in 1..(len + 1) /\ s # len + 1
    BY <1>1
  <2>3. QED
    BY <2>1, <2>2, <1>1
<1>6. Unrolls(lines, updates, from)
  BY <1>5 DEF Unrolls
<1>7. QED
  BY <1>4, <1>6

\* What is typed stays a text of lines.
LEMMA RewrittenLines ==
  ASSUME NEW lines \in Seq(Line), NEW updates, AreTexts(updates)
  PROVE  Rewritten(lines, updates) \in Seq(Line)
<1>1. PICK f : Unrolls(lines, updates, f) /\ Rewritten(lines, updates) = f[1]
  BY RewrittenUnrolls
<1>2. 1 \in 1..(Len(lines) + 1)
  OBVIOUS
<1>3. QED
  BY <1>1, <1>2, UnrolledReaches DEF Reaches

\* What apply_updates makes of the lines: a text in which every entry of another
\* key stands as it stood.
LEMMA RewrittenKeeps ==
  ASSUME NEW lines \in Seq(Line), NEW updates, AreUpdates(updates)
  PROVE  /\ Rewritten(lines, updates) \in Seq(Line)
         /\ Keeps(lines, Rewritten(lines, updates), DOMAIN updates)
<1>1. PICK f : Unrolls(lines, updates, f) /\ Rewritten(lines, updates) = f[1]
  BY RewrittenUnrolls, UpdatesAreTexts
<1>2. Len(lines) \in Nat /\ 1 \in 1..(Len(lines) + 1)
  OBVIOUS
<1>3. PICK n : FirstFrom(lines, 1, n)
  BY <1>2, FirstExists
<1>4. Agrees(lines, f[1], DOMAIN updates, n)
  BY <1>1, <1>2, <1>3, UnrolledAgrees
<1>5. \A t \in Starts(lines) : t >= n
  BY <1>2, <1>3 DEF FirstFrom, Starts
<1>6. QED
  BY <1>1, <1>4, <1>5 DEF Agrees, Keeps

-----------------------------------------------------------------------------
(* The text as a whole.                                                    *)

\* Joining the lines and splitting them again leaves a line at least, and every
\* entry: only a blank line may be gone from the end.
LEMMA RejoinKeeps ==
  ASSUME NEW lines \in Seq(Line)
  PROVE  Rejoin(lines) \in Seq(Line) /\ Rejoin(lines) # <<>> /\ Keeps(lines, Rejoin(lines), {})
<1>1. Len(lines) \in Nat
  OBVIOUS
<1>2. CASE lines = <<>>
  <2>1. Rejoin(lines) = <<Blank>>
    BY <1>2 DEF Rejoin
  <2>2. IsBlock(<<Blank>>)
    BY BlankIsLine, OneLine
  <2> DEFINE text == <<Blank>>
  <2> HIDE DEF text
  <2>3. text \in Seq(Line) /\ text # <<>> /\ ~text[1].indent
    BY <2>2 DEF IsBlock, text
  <2>4. /\ 0 \in 0..Len(lines) /\ 0 <= Len(text) /\ \A i \in 1..0 : text[i] = lines[i]
        /\ (\A i \in (0 + 1)..Len(lines) : IsBlank(lines[i])) /\ ~text[0 + 1].indent
    BY <1>2, <2>3
  <2>5. Keeps(lines, text, {})
    BY <2>3, <2>4, PrefixKeeps
  <2>6. QED
    BY <2>1, <2>3, <2>5 DEF text
<1>3. CASE lines # <<>> /\ Len(lines) > 1 /\ Last(lines) = Blank
  <2>1. Rejoin(lines) = SubSeq(lines, 1, Len(lines) - 1)
    BY <1>3, <1>1 DEF Rejoin, Front
  <2> DEFINE text == SubSeq(lines, 1, Len(lines) - 1)
  <2>2. text \in Seq(Line) /\ Len(text) = Len(lines) - 1 /\ \A i \in 1..(Len(lines) - 1) : text[i] = lines[i]
    BY <1>3
  <2> HIDE DEF text
  <2>3. lines[Len(lines)] = Blank
    BY <1>3 DEF Last
  <2>4. \A i \in ((Len(lines) - 1) + 1)..Len(lines) : IsBlank(lines[i])
    BY <2>3, <1>1, BlankIsLine
  <2>5. Len(lines) - 1 \in 0..Len(lines) /\ Len(lines) - 1 <= Len(text) /\ ~(Len(lines) - 1 < Len(text))
    BY <2>2, <1>1, <1>3
  <2>6. Keeps(lines, text, {})
    BY <2>2, <2>4, <2>5, PrefixKeeps
  <2>7. text # <<>>
    BY <2>2, <1>1, <1>3
  <2>8. QED
    BY <2>1, <2>2, <2>6, <2>7 DEF text
<1>4. CASE lines # <<>> /\ ~(Len(lines) > 1 /\ Last(lines) = Blank)
  <2>1. Rejoin(lines) = lines
    BY <1>4 DEF Rejoin
  <2>2. Keeps(lines, lines, {})
    BY <1>1, PrefixKeeps
  <2>3. QED
    BY <2>1, <2>2, <1>4
<1>5. QED
  BY <1>2, <1>3, <1>4

\* What is taken from the end are blank lines.
LEMMA TailIsBlank ==
  ASSUME NEW lines \in Seq(Line)
  PROVE  \E n \in 0..Len(lines) :
           WithoutTail(lines) = SubSeq(lines, 1, n) /\ \A i \in (n + 1)..Len(lines) : IsBlank(lines[i])
<1> DEFINE T == {i \in 1..Len(lines) : ~IsBlank(lines[i])}
           n == IF T # {} THEN Max(T) ELSE 0
<1>1. Len(lines) \in Nat /\ T \subseteq 1..Len(lines)
  OBVIOUS
<1>2. WithoutTail(lines) = SubSeq(lines, 1, n)
  BY DEF WithoutTail, SelectLastInSeq
<1>3. n \in 0..Len(lines) /\ \A i \in T : n >= i
  <2>1. CASE T = {}
    BY <2>1, <1>1
  <2>2. CASE T # {}
    <3>1. Max(T) \in T /\ \A i \in T : Max(T) >= i
      BY <2>2, <1>1, GreatestElement
    <3>2. QED
      BY <3>1, <2>2, <1>1
  <2>3. QED
    BY <2>1, <2>2
<1> HIDE DEF n
<1>4. ASSUME NEW i \in (n + 1)..Len(lines) PROVE IsBlank(lines[i])
  <2>1. i \in 1..Len(lines) /\ ~(n >= i)
    BY <1>1, <1>3
  <2>2. QED
    BY <2>1, <1>3
<1>5. QED
  BY <1>2, <1>3, <1>4

\* Whatever is put below a blank line, the entries above stay.
LEMMA ExtendedKeeps ==
  ASSUME NEW lines \in Seq(Line), NEW header \in Line, NEW more \in Seq(Line)
  PROVE  /\ WithoutTail(lines) \o <<Blank, header>> \o more \in Seq(Line)
         /\ Keeps(lines, WithoutTail(lines) \o <<Blank, header>> \o more, {})
<1> DEFINE gap == <<Blank, header>>
<1>1. PICK n \in 0..Len(lines) :
        WithoutTail(lines) = SubSeq(lines, 1, n) /\ \A i \in (n + 1)..Len(lines) : IsBlank(lines[i])
  BY TailIsBlank
<1> DEFINE kept == SubSeq(lines, 1, n)
<1>2. Len(lines) \in Nat /\ n \in Nat
  BY <1>1
<1>3. kept \in Seq(Line) /\ Len(kept) = n /\ \A i \in 1..n : kept[i] = lines[i]
  BY <1>1
<1>4. gap \in Seq(Line) /\ Len(gap) = 2 /\ gap[1] = Blank
  BY BlankIsLine
<1> HIDE DEF gap, kept
<1> DEFINE top == kept \o gap
<1>5. top \in Seq(Line) /\ Len(top) = n + 2 /\ (\A i \in 1..n : top[i] = lines[i]) /\ top[n + 1] = Blank
  <2>0. kept \in Seq(Line) /\ gap \in Seq(Line)
    BY <1>3, <1>4
  <2>1. /\ top \in Seq(Line) /\ Len(top) = Len(kept) + Len(gap)
        /\ \A i \in 1..Len(kept) : top[i] = kept[i]
        /\ \A i \in 1..Len(gap) : top[Len(kept) + i] = gap[i]
    BY <2>0, JoinedPlaces
  <2> HIDE DEF top
  <2>2. QED
    BY <2>1, <1>2, <1>3, <1>4
<1> HIDE DEF top
<1> DEFINE text == top \o more
<1>6. /\ text \in Seq(Line) /\ Len(text) >= n + 2
      /\ (\A i \in 1..n : text[i] = lines[i]) /\ text[n + 1] = Blank
  <2>0. top \in Seq(Line)
    BY <1>5
  <2>1. /\ text \in Seq(Line) /\ Len(text) = Len(top) + Len(more)
        /\ \A i \in 1..Len(top) : text[i] = top[i]
    BY <2>0, JoinedPlaces
  <2> HIDE DEF text
  <2>2. Len(more) \in Nat /\ n + 1 \in 1..Len(top) /\ \A i \in 1..n : i \in 1..Len(top)
    BY <1>2, <1>5
  <2>3. QED
    BY <2>1, <2>2, <1>2, <1>5
<1>7. WithoutTail(lines) \o <<Blank, header>> \o more = text
  BY <1>1 DEF text, top, gap, kept
<1> HIDE DEF text
<1>8. n <= Len(text) /\ ~text[n + 1].indent
  BY <1>2, <1>6, BlankIsLine
<1>9. Keeps(lines, text, {})
  BY <1>1, <1>6, <1>8, PrefixKeeps
<1>10. QED
  BY <1>6, <1>7, <1>9

LEMMA AppendedLines ==
  ASSUME NEW updates, AreTexts(updates), NEW missing, missing \subseteq DOMAIN updates,
         NEW order \in Seq(Keys)
  PROVE  Appended(updates, missing, order) \in Seq(Line)
<1> DEFINE New(k) == RenderEntryLines(k, updates[k].enabled, updates[k].value, Len(updates[k].value) > 1)
           parts == [i \in DOMAIN order |-> IF order[i] \in missing THEN New(order[i]) ELSE <<>>]
<1>1. \A k \in missing : New(k) \in Seq(Line)
  <2> TAKE k \in missing
  <2>1. k \in Keys /\ updates[k].value \in Seq(Line) /\ (Len(updates[k].value) > 1) \in BOOLEAN
    BY DEF AreTexts
  <2>2. QED
    BY <2>1, RenderedBlock
<1> HIDE DEF New
<1>2. DOMAIN order = 1..Len(order) /\ Len(order) \in Nat
  OBVIOUS
<1>3. \A i \in 1..Len(order) : (IF order[i] \in missing THEN New(order[i]) ELSE <<>>) \in Seq(Line)
  BY <1>1
<1>4. parts \in Seq(Seq(Line))
  BY <1>2, <1>3
<1>5. Appended(updates, missing, order) = FlattenSeq(parts)
  BY DEF Appended, New
<1> HIDE DEF parts
<1>6. QED
  BY <1>4, <1>5, FlattenedElements

\* apply_updates returns a text, and one that has every entry of another key;
\* upsert does too.
LEMMA ApplyUpdatesLines ==
  ASSUME NEW lines \in Seq(Line), NEW updates, AreTexts(updates)
  PROVE  ApplyUpdates(lines, updates) \in Seq(Line)
BY RewrittenLines, RejoinKeeps DEF ApplyUpdates

LEMMA ApplyUpdatesKeeps ==
  ASSUME NEW lines \in Seq(Line), NEW updates, AreUpdates(updates)
  PROVE  /\ ApplyUpdates(lines, updates) \in Seq(Line)
         /\ Keeps(lines, ApplyUpdates(lines, updates), DOMAIN updates)
<1> DEFINE new == Rewritten(lines, updates)
<1>1. new \in Seq(Line) /\ Keeps(lines, new, DOMAIN updates)
  BY RewrittenKeeps
<1> HIDE DEF new
<1>2. Rejoin(new) \in Seq(Line) /\ Keeps(new, Rejoin(new), DOMAIN updates)
  BY <1>1, RejoinKeeps, KeepsFewer
<1>3. ApplyUpdates(lines, updates) = Rejoin(new)
  BY DEF ApplyUpdates, new
<1>4. QED
  BY <1>1, <1>2, <1>3, KeepsIsTransitive

LEMMA UpsertKeeps ==
  ASSUME NEW lines \in Seq(Line), NEW updates, AreUpdates(updates),
         NEW header \in Line, NEW order \in Seq(Keys)
  PROVE  /\ Upsert(lines, updates, header, order) \in Seq(Line)
         /\ Keeps(lines, Upsert(lines, updates, header, order), DOMAIN updates)
<1> DEFINE updated == ApplyUpdates(lines, updates)
           missing == Missing(updated, updates)
           more == Appended(updates, missing, order)
           extended == WithoutTail(updated) \o <<Blank, header>> \o more
<1>1. updated \in Seq(Line) /\ Keeps(lines, updated, DOMAIN updates)
  BY ApplyUpdatesKeeps
<1> HIDE DEF updated
<1>2. more \in Seq(Line)
  BY AppendedLines, UpdatesAreTexts DEF Missing
<1>3. Upsert(lines, updates, header, order) = IF missing = {} THEN updated ELSE extended
  BY DEF Upsert, updated
<1> HIDE DEF missing, more
<1>4. extended \in Seq(Line) /\ Keeps(updated, extended, {})
  BY <1>1, <1>2, ExtendedKeeps
<1> HIDE DEF extended
<1>5. Keeps(updated, extended, DOMAIN updates)
  BY <1>4, KeepsFewer
<1>6. Keeps(lines, extended, DOMAIN updates)
  BY <1>1, <1>4, <1>5, KeepsIsTransitive
<1>7. QED
  BY <1>1, <1>3, <1>4, <1>6

-----------------------------------------------------------------------------
(* Texts that are left as they are, and texts put together.                *)

LEMMA SpliceSelf ==
  ASSUME NEW lines \in Seq(Line), NEW s \in 1..Len(lines), NEW end \in s..Len(lines),
         NEW e, e.start = s, e.end = end
  PROVE  Splice(lines, e, SubSeq(lines, s, end)) = lines
<1> DEFINE same == SubSeq(lines, s, end)
           result == Splice(lines, e, same)
<1>1. Len(lines) \in Nat /\ s \in Nat /\ end \in Nat
  OBVIOUS
<1>2. same \in Seq(Line) /\ Len(same) = end - s + 1 /\ \A i \in 1..(end - s + 1) : same[i] = lines[s + i - 1]
  BY <1>1, PartPlaces
<1> HIDE DEF same
<1>3. IsSplice(lines, s, end, same, result)
  BY <1>2, SplicedLines
<1> HIDE DEF result
<1> DEFINE d == Len(same) - (end - s + 1)
<1>4. d = 0
  BY <1>1, <1>2
<1>5. /\ result \in Seq(Line) /\ Len(result) = Len(lines) + d
      /\ \A i \in 1..(s - 1) : result[i] = lines[i]
      /\ \A i \in 1..Len(same) : result[s - 1 + i] = same[i]
      /\ \A i \in (end + 1)..Len(lines) : result[i + d] = lines[i]
  BY <1>3 DEF IsSplice
<1> HIDE DEF d
<1>6. ASSUME NEW i \in 1..Len(lines) PROVE result[i] = lines[i]
  <2>1. CASE i < s
    BY <2>1, <1>1, <1>5
  <2>2. CASE i \in s..end
    <3> DEFINE j == i - (s - 1)
    <3>1. j \in 1..Len(same) /\ s - 1 + j = i /\ s + j - 1 = i
      BY <2>2, <1>1, <1>2
    <3>2. result[s - 1 + j] = same[j] /\ same[j] = lines[s + j - 1]
      BY <3>1, <1>2, <1>5
    <3>3. QED
      BY <3>1, <3>2
  <2>3. CASE i > end
    <3>1. i \in (end + 1)..Len(lines) /\ i + d = i
      BY <2>3, <1>1, <1>4
    <3>2. QED
      BY <3>1, <1>5
  <2>4. QED
    BY <2>1, <2>2, <2>3, <1>1
<1>7. result = lines
  <2>1. Len(result) = Len(lines)
    BY <1>1, <1>4, <1>5
  <2>2. QED
    BY <2>1, <1>5, <1>6, SeqEqual
<1>8. QED
  BY <1>7 DEF result, same

\* An entry rendered with its own switch and value is what it was.
LEMMA EntryRendersItself ==
  ASSUME NEW lines \in Seq(Line), NEW s \in Starts(lines), NEW enabled, enabled = EntryAt(lines, s).enabled
  PROVE  RenderEntryLines(lines[s].key, enabled, EntryAt(lines, s).value, EntryAt(lines, s).multiline)
           = SubSeq(lines, s, EndOf(lines, s))
<1> DEFINE end == EndOf(lines, s)
           first == lines[s]
           key == first.key
           value == EntryAt(lines, s).value
           multiline == EntryAt(lines, s).multiline
           block == [i \in 1..(end - s + 1) |-> Uncomment(lines[s + i - 1])]
           same == SubSeq(lines, s, end)
           Mark(line) == IF enabled THEN line ELSE Comment(line)
           hash == IF enabled THEN 0 ELSE 1
           body == BodyOf(value, multiline)
           new == RenderEntryLines(key, enabled, value, multiline)
<1>1. s \in 1..Len(lines) /\ Len(lines) \in Nat /\ first \in Line /\ s \in Nat
  BY DEF Starts
<1>2. end \in s..Len(lines) /\ \A i \in (s + 1)..end : Continues(lines[s], lines[i])
  BY <1>1, EndExists DEF EndsAt
<1>3. /\ multiline = (end > s)
      /\ value = CASE end > s -> block
                   [] end = s /\ first.text # Empty -> <<Words(first.text)>>
                   [] end = s /\ first.text = Empty -> <<>>
  BY DEF EntryAt
<1>4. new = CASE body = <<>> -> <<Mark(Setting(key, Empty))>>
              [] body # <<>> /\ multiline -> [i \in DOMAIN body |-> Mark(body[i])]
              [] body # <<>> /\ ~multiline -> <<Mark(Setting(key, AsText(Head(body))))>> \o Tail(body)
  BY Zenon DEF RenderEntryLines, BodyOf
<1>12. (multiline = TRUE => body = value) /\ (multiline = FALSE => body = Stripped(value))
  BY DEF BodyOf
<1>5. same \in Seq(Line) /\ Len(same) = end - s + 1 /\ \A i \in 1..(end - s + 1) : same[i] = lines[s + i - 1]
  BY <1>1, <1>2, PartPlaces
<1>6. first.hash = hash /\ ~first.indent
  <2>1. IsEntryLine(first) /\ (enabled <=> IsActive(first))
    BY DEF Starts, EntryAt
  <2>2. QED
    BY <2>1 DEF IsEntryLine, IsActive, IsDisabled
<1>7. \A line \in Line : line.hash = hash => Mark(Uncomment(line)) = line
  <2>1. \A line \in Line : line.hash = 0 => Uncomment(line) = line
    BY DEF Uncomment, Line
  <2>2. ASSUME NEW line \in Line, line.hash = 1 PROVE Comment(Uncomment(line)) = line
    <3> DEFINE bare == Uncomment(line)
    <3>1. bare \in Line /\ bare.hash = 0 /\ bare.indent = line.indent /\ bare.key = line.key /\ bare.text = line.text
      BY <2>2 DEF Uncomment, Line
    <3> HIDE DEF bare
    <3>2. Comment(bare) \in Line /\ Comment(bare).hash = 1 /\ Comment(bare).indent = line.indent
          /\ Comment(bare).key = line.key /\ Comment(bare).text = line.text
      BY <3>1 DEF Comment, Line
    <3>3. Comment(bare) = line
      BY <3>2, <2>2 DEF Line
    <3>4. QED
      BY <3>3 DEF bare
  <2>3. QED
    BY <2>1, <2>2
<1>8. Mark(Setting(key, first.text)) = first
  <2> DEFINE plain == Setting(key, first.text)
  <2>1. plain \in Line /\ plain.hash = 0 /\ plain.indent = first.indent /\ plain.key = first.key
        /\ plain.text = first.text
    BY <1>1, <1>6 DEF Setting, Line
  <2> HIDE DEF plain
  <2>2. CASE enabled
    <3>1. first.hash = 0
      BY <2>2, <1>6
    <3>2. plain = first
      BY <2>1, <3>1, <1>1 DEF Line
    <3>3. QED
      BY <2>2, <3>2 DEF plain
  <2>3. CASE ~enabled
    <3>1. first.hash = 1
      BY <2>3, <1>6
    <3>2. \A line \in Line : /\ Comment(line) \in Line /\ Comment(line).hash = line.hash + 1
                             /\ Comment(line).indent = line.indent
                             /\ Comment(line).key = line.key /\ Comment(line).text = line.text
      BY DEF Comment, Line
    <3>3. Comment(plain) \in Line /\ Comment(plain).hash = 1 /\ Comment(plain).indent = first.indent
          /\ Comment(plain).key = first.key /\ Comment(plain).text = first.text
      BY <2>1, <3>2
    <3>4. Comment(plain) = first
      BY <3>1, <3>3, <1>1 DEF Line
    <3>5. QED
      BY <2>3, <3>4 DEF plain
  <2>4. QED
    BY <2>2, <2>3
<1> HIDE DEF end, value, multiline, block, same, new, Mark, hash, body
<1>9. CASE end > s
  <2>0. (end > s) = TRUE /\ end # s
    BY <1>1, <1>9
  <2>1. value = block /\ multiline = TRUE
    BY <2>0, <1>3
  <2>2. end - s + 1 \in Nat /\ end - s + 1 >= 1
    BY <1>1, <1>2
  <2>3. ASSUME NEW i \in 1..(end - s + 1) PROVE Mark(block[i]) = lines[s + i - 1]
    <3> DEFINE line == lines[s + i - 1]
    <3>1. s + i - 1 \in 1..Len(lines) /\ (s + i - 1 = s \/ s + i - 1 \in (s + 1)..end)
      BY <1>1, <1>2
    <3>2. line \in Line /\ line.hash = hash
      BY <3>1, <1>1, <1>2, <1>6 DEF Continues, GoesOn
    <3>3. block[i] = Uncomment(line)
      BY DEF block
    <3> HIDE DEF line
    <3>4. Mark(block[i]) = line
      BY <3>2, <3>3, <1>7
    <3>5. QED
      BY <3>4 DEF line
  <2>4. DOMAIN block = 1..(end - s + 1) /\ block # <<>>
    BY <2>2 DEF block
  <2>5. new = [i \in 1..(end - s + 1) |-> Mark(block[i])]
    BY <1>4, <1>12, <2>1, <2>4
  <2>6. new = [i \in 1..(end - s + 1) |-> lines[s + i - 1]]
    BY <2>3, <2>5
  <2>7. same = [i \in 1..(end - s + 1) |-> lines[s + i - 1]]
    BY <1>5, <2>2
  <2>8. QED
    BY <2>6, <2>7 DEF new, same, end, value, multiline
<1>10. CASE end = s
  <2>1. (end > s) = FALSE
    BY <1>1, <1>10
  <2>2. multiline = FALSE
    BY <2>1, <1>3
  <2>3. same = <<first>>
    <3>1. Len(same) = 1 /\ same[1] = first
      BY <1>1, <1>5, <1>10
    <3> DEFINE one == <<first>>
    <3>2. one \in Seq(Line) /\ Len(one) = 1 /\ one[1] = first
      BY <1>1
    <3> HIDE DEF one
    <3>3. one \in Seq(Line) /\ Len(one) = Len(same) /\ \A i \in 1..Len(same) : same[i] = one[i]
      BY <3>1, <3>2
    <3>4. same = one
      BY <3>3, <1>5, SeqEqual
    <3>5. QED
      BY <3>4 DEF one
  <2>4. new = <<first>>
    <3>1. CASE first.text = Empty
      <4>1. body = <<>>
        BY <3>1, <1>3, <1>10, <1>12, <2>1, <2>2, StrippedOne
      <4>2. QED
        BY <4>1, <3>1, <1>4, <1>8
    <3>2. CASE first.text # Empty
      <4> DEFINE word == Words(first.text)
      <4>1. value = <<word>>
        BY <3>2, <1>3, <1>10, <2>1
      <4>2. word \in Line /\ AsText(word) = first.text /\ word # Blank
        BY <3>2, <1>1, BlankIsLine DEF Words, Setting, AsText, Line, Blank
      <4> HIDE DEF word
      <4>3. body = <<word>>
        BY <4>1, <4>2, <1>12, <2>2, StrippedOne
      <4>7. body # <<>> /\ Head(body) = word /\ Tail(body) = <<>>
        BY <4>3
      <4>4. new = <<Mark(Setting(key, AsText(word)))>> \o <<>>
        BY <4>7, <1>4, <2>2
      <4>5. <<first>> \o <<>> = <<first>>
        BY <1>1
      <4>6. QED
        BY <4>2, <4>4, <4>5, <1>8
    <3>3. QED
      BY <3>1, <3>2
  <2>5. QED
    BY <2>3, <2>4 DEF new, same, end, value, multiline
<1>11. end > s \/ end = s
  BY <1>1, <1>2
<1>13. QED
  BY <1>9, <1>10, <1>11

\* The entries of two texts, one behind the other, are those of both.
JoinedEntry(a, b, p) ==
  \/ p \in Starts(a) /\ SameEntry(EntryAt(a \o b, p), EntryAt(a, p))
  \/ \E q \in Starts(b) : SameEntry(EntryAt(a \o b, p), EntryAt(b, q))

LEMMA JoinedEntries ==
  ASSUME NEW a \in Seq(Line), NEW b \in Seq(Line), b = <<>> \/ ~b[1].indent \/ IsBlank(b[1])
  PROVE  /\ \A p \in Starts(a) : p \in Starts(a \o b) /\ SameEntry(EntryAt(a \o b, p), EntryAt(a, p))
         /\ \A p \in Starts(a \o b) : JoinedEntry(a, b, p)
<1> DEFINE text == a \o b
<1>1. /\ text \in Seq(Line) /\ Len(text) = Len(a) + Len(b)
      /\ \A i \in 1..Len(a) : text[i] = a[i]
      /\ \A i \in 1..Len(b) : text[Len(a) + i] = b[i]
  BY JoinedPlaces
<1>2. Len(a) \in Nat /\ Len(b) \in Nat /\ (Len(b) # 0 => \A first : ~Continues(first, b[1]))
  <2>1. Len(a) \in Nat /\ Len(b) \in Nat /\ (Len(b) # 0 => ~b[1].indent \/ IsBlank(b[1]))
    BY EmptySeq
  <2>2. QED
    BY <2>1, BlankStandsApart DEF Continues, GoesOn
<1> HIDE DEF text
<1>3. ASSUME NEW p \in Starts(a) PROVE p \in Starts(text) /\ SameEntry(EntryAt(text, p), EntryAt(a, p))
  <2> DEFINE e == EndOf(a, p)
  <2>1. p \in 1..Len(a) /\ IsEntryLine(a[p]) /\ p \in Nat
    BY DEF Starts
  <2>2. EndsAt(a, p, e)
    BY <2>1, EndExists
  <2> HIDE DEF e
  <2>3. /\ e \in p..Len(a) /\ e \in Nat /\ p + (e - p) = e
        /\ \A i \in (p + 1)..e : Continues(a[p], a[i])
        /\ e = Len(a) \/ ~Continues(a[p], a[e + 1])
    BY <2>1, <2>2, <1>2 DEF EndsAt
  <2>4. \A i \in p..e : i \in 1..Len(a) /\ p + (i - p) = i
    BY <2>1, <2>3, <1>2
  <2>5. \A i \in p..e : text[p + (i - p)] = a[i]
    BY <2>4, <1>1
  <2>6. p \in 1..Len(text) /\ p \in p..e /\ text[p] = a[p]
    BY <2>1, <2>3, <1>1, <1>2
  <2>7. \A i \in (p + 1)..e : i \in 1..Len(a) /\ text[i] = a[i]
    <3>1. \A i \in (p + 1)..e : i \in 1..Len(a)
      BY <2>1, <2>3, <1>2
    <3>2. QED
      BY <3>1, <1>1
  <2>8. e = Len(text) \/ ~Continues(text[p], text[e + 1])
    <3>1. CASE e # Len(a)
      <4>1. e + 1 \in 1..Len(a)
        BY <3>1, <2>3, <1>2
      <4>2. QED
        BY <3>1, <4>1, <2>3, <2>6, <1>1
    <3>2. CASE e = Len(a) /\ Len(b) # 0
      <4>1. text[Len(a) + 1] = b[1]
        BY <3>2, <1>1, <1>2
      <4>2. QED
        BY <3>2, <4>1, <1>2
    <3>3. CASE e = Len(a) /\ Len(b) = 0
      BY <3>3, <1>1, <1>2
    <3>4. QED
      BY <3>1, <3>2, <3>3
  <2>9. EndsAt(text, p, p + (e - p))
    <3>1. e \in p..Len(text)
      BY <2>3, <1>1, <1>2
    <3>2. QED
      BY <3>1, <2>3, <2>6, <2>7, <2>8 DEF EndsAt
  <2>10. StandsAt(a, p, e, text, p)
    BY <2>5, <2>6, <2>9 DEF StandsAt
  <2>11. SameEntry(EntryAt(text, p), EntryAt(a, p))
    BY <2>10, <1>1, EntryStays DEF e
  <2>12. QED
    BY <2>1, <2>6, <2>11 DEF Starts
<1>4. ASSUME NEW q \in Starts(b) PROVE SameEntry(EntryAt(text, Len(a) + q), EntryAt(b, q))
  <2> DEFINE e == EndOf(b, q)
             p == Len(a) + q
  <2>1. q \in 1..Len(b) /\ IsEntryLine(b[q]) /\ q \in Nat
    BY DEF Starts
  <2>2. EndsAt(b, q, e)
    BY <2>1, EndExists
  <2> HIDE DEF e
  <2>3. /\ e \in q..Len(b) /\ e \in Nat
        /\ \A i \in (q + 1)..e : Continues(b[q], b[i])
        /\ e = Len(b) \/ ~Continues(b[q], b[e + 1])
    BY <2>1, <2>2, <1>2 DEF EndsAt
  <2>4. p \in 1..Len(text) /\ p \in Nat /\ p + (e - q) = Len(a) + e /\ p + (q - q) = p
    BY <2>1, <2>3, <1>1, <1>2
  <2>5. ASSUME NEW i \in q..e PROVE text[p + (i - q)] = b[i]
    <3>1. i \in 1..Len(b) /\ p + (i - q) = Len(a) + i
      BY <2>1, <2>3, <1>2
    <3>2. QED
      BY <3>1, <1>1
  <2>6. text[p] = b[q]
    BY <2>1, <1>1
  <2>7. ASSUME NEW i \in (p + 1)..(p + (e - q)) PROVE Continues(text[p], text[i])
    <3> DEFINE j == i - Len(a)
    <3>1. j \in (q + 1)..e /\ j \in 1..Len(b) /\ Len(a) + j = i
      BY <2>1, <2>3, <2>4, <1>2
    <3>2. text[i] = b[j]
      BY <3>1, <1>1
    <3>3. QED
      BY <3>1, <3>2, <2>3, <2>6
  <2>8. p + (e - q) = Len(text) \/ ~Continues(text[p], text[p + (e - q) + 1])
    <3>1. CASE e = Len(b)
      BY <3>1, <2>4, <1>1
    <3>2. CASE e # Len(b)
      <4>1. e + 1 \in 1..Len(b) /\ p + (e - q) + 1 = Len(a) + (e + 1)
        BY <3>2, <2>1, <2>3, <2>4, <1>2
      <4>2. text[p + (e - q) + 1] = b[e + 1]
        BY <4>1, <1>1
      <4>3. QED
        BY <3>2, <4>2, <2>3, <2>6
    <3>3. QED
      BY <3>1, <3>2
  <2>9. EndsAt(text, p, p + (e - q))
    <3>1. p + (e - q) \in p..Len(text)
      <4>1. e - q \in Nat /\ Len(a) + e <= Len(a) + Len(b)
        BY <2>1, <2>3, <1>2
      <4>2. p + (e - q) \in Nat /\ p <= p + (e - q) /\ p + (e - q) <= Len(text)
        BY <4>1, <2>4, <1>1
      <4>3. QED
        BY <4>2, <2>4, <1>1, <1>2
    <3>2. QED
      BY <3>1, <2>7, <2>8 DEF EndsAt
  <2>10. StandsAt(b, q, e, text, p)
    BY <2>4, <2>5, <2>9 DEF StandsAt
  <2>11. QED
    BY <2>10, <1>1, EntryStays DEF e
<1>5. ASSUME NEW p \in Starts(text) PROVE JoinedEntry(a, b, p)
  <2>1. p \in 1..Len(text) /\ IsEntryLine(text[p])
    BY DEF Starts
  <2>2. CASE p <= Len(a)
    <3>1. p \in 1..Len(a) /\ text[p] = a[p]
      BY <2>1, <2>2, <1>1, <1>2
    <3>2. p \in Starts(a)
      BY <3>1, <2>1 DEF Starts
    <3>3. QED
      BY <3>2, <1>3 DEF JoinedEntry, text
  <2>3. CASE ~(p <= Len(a))
    <3> DEFINE q == p - Len(a)
    <3>1. q \in 1..Len(b) /\ Len(a) + q = p
      BY <2>1, <2>3, <1>1, <1>2
    <3>2. q \in Starts(b)
      BY <3>1, <2>1, <1>1 DEF Starts
    <3> HIDE DEF q
    <3>3. SameEntry(EntryAt(text, p), EntryAt(b, q))
      BY <3>1, <3>2, <1>4
    <3>4. QED
      BY <3>2, <3>3 DEF JoinedEntry, text
  <2>4. QED
    BY <2>2, <2>3
<1>6. QED
  BY <1>3, <1>5 DEF text

LEMMA WithoutTailRejoined ==
  ASSUME NEW lines \in Seq(Line)
  PROVE  WithoutTail(Rejoin(lines)) = WithoutTail(lines)
<1> DEFINE Filled(text) == {i \in 1..Len(text) : ~IsBlank(text[i])}
           Foot(text) == IF Filled(text) # {} THEN Max(Filled(text)) ELSE 0
<1>1. Len(lines) \in Nat
  OBVIOUS
<1>2. \A text : WithoutTail(text) = SubSeq(text, 1, Foot(text))
  BY DEF WithoutTail, SelectLastInSeq
<1>3. CASE lines = <<>>
  <2> DEFINE blank == Blank
             text == <<blank>>
  <2>1. text \in Seq(Line) /\ Len(text) = 1 /\ text[1] = blank /\ IsBlank(blank)
    BY BlankIsLine
  <2>2. Rejoin(lines) = text
    BY <1>3 DEF Rejoin
  <2> HIDE DEF text
  <2>3. Filled(text) = {} /\ Filled(lines) = {}
    BY <1>3, <2>1
  <2>4. Foot(text) = 0 /\ Foot(lines) = 0
    BY <2>3
  <2> HIDE DEF Foot
  <2>5. SubSeq(text, 1, 0) = <<>> /\ SubSeq(lines, 1, 0) = <<>>
    BY <2>1
  <2>6. QED
    BY <2>2, <2>4, <2>5, <1>2
<1>4. CASE lines # <<>> /\ Len(lines) > 1 /\ Last(lines) = Blank
  <2> DEFINE n == Len(lines) - 1
             text == SubSeq(lines, 1, n)
  <2>1. Rejoin(lines) = text
    BY <1>4, <1>1 DEF Rejoin, Front
  <2>2. text \in Seq(Line) /\ Len(text) = n /\ n \in Nat /\ n < Len(lines) /\ \A i \in 1..n : text[i] = lines[i]
    BY <1>1, <1>4
  <2>3. IsBlank(lines[n + 1]) /\ n + 1 = Len(lines)
    BY <1>1, <1>4, BlankIsLine DEF Last
  <2> HIDE DEF text, n
  <2>4. Filled(text) = Filled(lines)
    <3>1. \A i \in 1..Len(lines) : i \in 1..n \/ i = n + 1
      BY <2>2, <2>3
    <3>2. \A i \in 1..n : i \in 1..Len(lines)
      BY <2>2, <1>1
    <3>3. QED
      BY <3>1, <3>2, <2>2, <2>3
  <2> DEFINE m == Foot(lines)
  <2>5. Foot(text) = m
    BY <2>4
  <2>6. m \in 0..n
    <3>1. CASE Filled(text) = {}
      BY <3>1, <2>2, <2>4
    <3>2. CASE Filled(text) # {}
      <4>1. Filled(text) \subseteq 1..n
        BY <2>2
      <4> HIDE DEF Filled
      <4>2. Max(Filled(text)) \in Filled(text)
        BY <3>2, <4>1, <2>2, GreatestElement
      <4>3. QED
        BY <3>2, <4>1, <4>2, <2>2, <2>4
    <3>3. QED
      BY <3>1, <3>2
  <2> HIDE DEF m, Foot
  <2>7. SubSeq(text, 1, m) = SubSeq(lines, 1, m)
    <3>1. m \in Nat /\ m <= n /\ m <= Len(lines)
      BY <2>2, <2>6, <1>1
    <3>2. SubSeq(text, 1, m) \in Seq(Line) /\ Len(SubSeq(text, 1, m)) = m
          /\ \A i \in 1..m : SubSeq(text, 1, m)[i] = text[i]
      BY <2>2, <3>1
    <3>3. SubSeq(lines, 1, m) \in Seq(Line) /\ Len(SubSeq(lines, 1, m)) = m
          /\ \A i \in 1..m : SubSeq(lines, 1, m)[i] = lines[i]
      BY <1>1, <3>1
    <3>4. \A i \in 1..m : text[i] = lines[i]
      BY <2>2, <3>1
    <3>5. QED
      BY <3>2, <3>3, <3>4, SeqEqual
  <2>8. QED
    BY <2>1, <2>5, <2>7, <1>2 DEF m
<1>5. CASE lines # <<>> /\ ~(Len(lines) > 1 /\ Last(lines) = Blank)
  BY <1>5 DEF Rejoin
<1>6. QED
  BY <1>3, <1>4, <1>5
=============================================================================
