------------------------- MODULE GroupVarsFileProofs -------------------------
(***************************************************************************)
(* Theorems about a group_vars file and the handlers that read and write   *)
(* it: every variable keeps its type, whoever looks sees one text, every   *)
(* text on disk has what nobody updated, and to one person a save is       *)
(* atomic.                                                                 *)
(*                                                                         *)
(* As long as nobody met the file while it was open, at most one handler   *)
(* has it open, and it is empty just then; otherwise it holds the text it  *)
(* began with or the one that a handler reported.  Such a text is always   *)
(* computed from another such text, and GroupVarsFacts says what stays in  *)
(* it.                                                                     *)
(***************************************************************************)
EXTENDS GroupVarsFile, GroupVarsFacts

Writers == {"save", "configure"}

\* A handler that has begun a save is one, and until it opens the file it has
\* nothing to write.
StageInv ==
  \A h \in Handlers : /\ pc[h] \in InFlight => Kind[h] \in Writers
                      /\ pc[h] \in {"new", "read"} => new[h] = <<>>

LEMMA UpdatesAreUpdates ==
  ASSUME NEW h \in Handlers, Kind[h] \in Writers
  PROVE  AreUpdates(Updates[h])
  BY UpdatesAssumption DEF Writers, AreUpdates, IsValue

\* What a handler makes of a text is a text that is not empty, in which stands
\* what it was not to update.
LEMMA ResultKeeps ==
  ASSUME NEW h \in Handlers, Kind[h] \in Writers, NEW text \in Seq(Line)
  PROVE  /\ Result(h, text) \in Seq(Line) /\ Result(h, text) # <<>>
         /\ Keeps(text, Result(h, text), DOMAIN Updates[h])
<1> DEFINE ks == DOMAIN Updates[h]
           made == CASE Kind[h] = "save" -> ApplyUpdates(text, Updates[h])
                     [] Kind[h] = "configure" -> Upsert(text, Updates[h], Header, Order)
<1>1. AreUpdates(Updates[h])
  BY UpdatesAreUpdates
<1>2. made \in Seq(Line) /\ Keeps(text, made, ks)
  <2>1. CASE Kind[h] = "save"
    <3>1. made = ApplyUpdates(text, Updates[h])
      BY <2>1
    <3>2. QED
      BY <3>1, <1>1, ApplyUpdatesKeeps
  <2>2. CASE Kind[h] = "configure"
    <3>1. made = Upsert(text, Updates[h], Header, Order)
      BY <2>2
    <3>2. QED
      BY <3>1, <1>1, UpsertKeeps, FileAssumption
  <2>3. QED
    BY <2>1, <2>2 DEF Writers
<1>3. Result(h, text) = Rejoin(made)
  BY DEF Result
<1> HIDE DEF made
<1>4. Rejoin(made) \in Seq(Line) /\ Rejoin(made) # <<>> /\ Keeps(made, Rejoin(made), ks)
  BY <1>2, RejoinKeeps, KeepsFewer
<1>5. QED
  BY <1>2, <1>3, <1>4, KeepsIsTransitive

-----------------------------------------------------------------------------
(* Types.                                                                  *)

TypedInv == TypeOK /\ StageInv

LEMMA TypedInit == Init => TypedInv
<1> SUFFICES ASSUME Init PROVE TypedInv
  OBVIOUS
<1>1. <<>> \in Seq(Line) /\ Template \in Seq(Line) /\ 0 \in 0..MaxCrashes
  BY FileAssumption
<1> DEFINE nothing == <<>>
<1> HIDE DEF nothing
<1>2. TypeOK
  <2>1. nothing \in Seq(Line)
    BY <1>1 DEF nothing
  <2>2. /\ file = Template /\ pc = [h \in Handlers |-> "new"]
        /\ seen = [h \in Handlers |-> nothing] /\ new = [h \in Handlers |-> nothing]
        /\ alone \in BOOLEAN /\ crashes = 0 /\ torn = FALSE
        /\ written = <<>> /\ readAt = [h \in Handlers |-> 0]
    BY DEF Init, nothing
  <2>3. written \in Seq(Handlers) /\ readAt \in [Handlers -> Nat]
    BY <2>2
  <2>4. QED
    BY <1>1, <2>1, <2>2, <2>3 DEF TypeOK
<1>3. StageInv
  BY DEF Init, StageInv, InFlight
<1>4. QED
  BY <1>2, <1>3 DEF TypedInv

LEMMA TypedNext ==
  ASSUME TypedInv, [Next]_vars
  PROVE  TypedInv'
<1> USE DEF TypedInv, InFlight, Answers
<1>1. TypeOK /\ StageInv
  OBVIOUS
<1>2. CASE UNCHANGED vars
  BY <1>1, <1>2 DEF vars, history, TypeOK, StageInv
<1>3. ASSUME NEW h \in Handlers, RawSave(h) PROVE TypedInv'
  BY <1>1, <1>3 DEF RawSave, GoTo, TypeOK, StageInv, history
<1>4. ASSUME NEW h \in Handlers, Get(h) PROVE TypedInv'
  BY <1>1, <1>4 DEF Get, GoTo, TypeOK, StageInv, history
<1>5. ASSUME NEW h \in Handlers, ReadText(h) PROVE TypedInv'
  BY <1>1, <1>5 DEF ReadText, MayStart, GoTo, TypeOK, StageInv, IsOpen, Writers
<1>6. ASSUME NEW h \in Handlers, Refuse(h) PROVE TypedInv'
  BY <1>1, <1>6 DEF Refuse, GoTo, TypeOK, StageInv, history
<1>7. ASSUME NEW h \in Handlers, OpenForWriting(h) PROVE TypedInv'
  <2> DEFINE r == Result(h, seen[h])
  <2>1. r \in Seq(Line) /\ r # <<>>
    BY <1>1, <1>7, ResultKeeps DEF OpenForWriting, TypeOK, StageInv
  <2>2. /\ new' = [new EXCEPT ![h] = r] /\ file' = <<>> /\ pc' = [pc EXCEPT ![h] = "writing"]
        /\ torn' = (torn \/ IsOpen) /\ UNCHANGED <<seen, alone, crashes, written, readAt>> /\ pc[h] = "read"
    BY <1>7 DEF OpenForWriting, GoTo
  <2> HIDE DEF r
  <2>3. file' \in Seq(Line) /\ torn' \in BOOLEAN
    BY <2>2, <1>1 DEF TypeOK, IsOpen
  <2>4. QED
    BY <2>1, <2>2, <2>3, <1>1 DEF TypeOK, StageInv
<1>8. ASSUME NEW h \in Handlers, WriteText(h) PROVE TypedInv'
  <2> DEFINE rest == SubSeq(file, Len(new[h]) + 1, Len(file))
  <2>1. file \in Seq(Line) /\ new[h] \in Seq(Line) /\ Len(new[h]) \in Nat /\ Len(file) \in Nat
    BY <1>1 DEF TypeOK
  <2>2. rest \in Seq(Line)
    BY <2>1, SubSeqProperties
  <2>3. /\ file' = new[h] \o rest /\ pc' = [pc EXCEPT ![h] = "ok"] /\ pc[h] = "writing"
        /\ UNCHANGED <<seen, new, alone, crashes, torn, readAt>> /\ written' = Append(written, h)
    BY <1>8 DEF WriteText, GoTo
  <2> HIDE DEF rest
  <2>4. file' \in Seq(Line)
    BY <2>1, <2>2, <2>3, ConcatProperties
  <2>5. written' \in Seq(Handlers)
    BY <2>3, <1>1, AppendProperties DEF TypeOK
  <2>6. QED
    BY <2>3, <2>4, <2>5, <1>1 DEF TypeOK, StageInv
<1>9. CASE Crash
  <2>1. /\ crashes < MaxCrashes /\ crashes' = crashes + 1
        /\ pc' = [h \in Handlers |-> IF pc[h] \in InFlight THEN "lost" ELSE pc[h]]
        /\ torn' = (torn \/ IsOpen) /\ UNCHANGED <<file, seen, new, alone, written, readAt>>
    BY <1>9 DEF Crash
  <2>2. crashes' \in 0..MaxCrashes /\ torn' \in BOOLEAN
    BY <2>1, <1>1, FileAssumption DEF TypeOK, IsOpen
  <2>3. QED
    BY <2>1, <2>2, <1>1 DEF TypeOK, StageInv
<1>10. QED
  BY <1>2, <1>3, <1>4, <1>5, <1>6, <1>7, <1>8, <1>9 DEF Next

LEMMA Typed == Spec => []TypedInv
<1>1. Init => TypedInv
  BY TypedInit
<1>2. TypedInv /\ [Next]_vars => TypedInv'
  BY TypedNext
<1>3. QED
  BY <1>1, <1>2, PTL DEF Spec

\* Whatever is saved and in whatever order, the file is a text of lines, and
\* what a handler writes is never nothing: at least a newline.
THEOREM FileTypeCorrect == Spec => []TypeOK
<1>1. TypedInv => TypeOK
  BY DEF TypedInv
<1>2. QED
  BY <1>1, Typed, PTL

-----------------------------------------------------------------------------
(* One text.                                                               *)

\* The keys that some request updates.
Touched == UNION {DOMAIN Updates[h] : h \in {g \in Handlers : Kind[g] \in Writers}}

\* A text in which every entry that no request updates stands as it did.
Whole(text) == text \in Seq(Line) /\ Keeps(Template, text, Touched)

\* Who has the file open, and what is in it.
OpenInv ==
  /\ \A g, h \in Handlers : pc[g] = "writing" /\ pc[h] = "writing" => g = h
  /\ IsOpen => file = <<>>
  /\ ~IsOpen => file # <<>> /\ (file = Template \/ \E h \in Handlers : pc[h] = "ok" /\ file = new[h])

\* What was read and what is written are whole texts.
WholeInv ==
  \A h \in Handlers : /\ pc[h] = "read" => Whole(seen[h])
                      /\ new[h] # <<>> => Whole(new[h])

TextsInv == TypedInv /\ (~torn => OpenInv /\ WholeInv) /\ ReadersSeeOneText

LEMMA TemplateIsWhole == Whole(Template)
<1>1. Template \in Seq(Line)
  BY FileAssumption
<1>2. /\ Len(Template) \in 0..Len(Template) /\ Len(Template) \in Nat
      /\ \A i \in (Len(Template) + 1)..Len(Template) : Template[i] = Blank
  BY <1>1
<1>3. Keeps(Template, Template, {})
  BY <1>1, <1>2, PrefixKeeps
<1>4. QED
  BY <1>1, <1>3, KeepsFewer DEF Whole

LEMMA ResultIsWhole ==
  ASSUME NEW h \in Handlers, Kind[h] \in Writers, NEW text, Whole(text)
  PROVE  Whole(Result(h, text))
<1>1. text \in Seq(Line) /\ Keeps(Template, text, Touched)
  BY DEF Whole
<1>2. Result(h, text) \in Seq(Line) /\ Keeps(text, Result(h, text), DOMAIN Updates[h])
  BY <1>1, ResultKeeps
<1>3. DOMAIN Updates[h] \subseteq Touched
  BY DEF Touched
<1> DEFINE r == Result(h, text)
<1> HIDE DEF r
<1>4. r \in Seq(Line) /\ Keeps(text, r, Touched)
  BY <1>2, <1>3, KeepsFewer DEF r
<1>5. Template \in Seq(Line)
  BY FileAssumption
<1>6. Keeps(Template, r, Touched)
  BY <1>1, <1>4, <1>5, KeepsIsTransitive
<1>7. QED
  BY <1>4, <1>6 DEF Whole, r

\* The file, while it is not open, is whole.
LEMMA FileIsWhole ==
  ASSUME TypedInv, OpenInv, WholeInv, ~IsOpen
  PROVE  Whole(file)
  BY TemplateIsWhole DEF OpenInv, WholeInv

LEMMA TextsInit == Init => TextsInv
<1> SUFFICES ASSUME Init PROVE TextsInv
  OBVIOUS
<1>1. TypedInv
  BY TypedInit
<1>2. file = Template /\ Template # <<>> /\ \A h \in Handlers : pc[h] = "new" /\ new[h] = <<>>
  BY FileAssumption DEF Init
<1>3. OpenInv /\ WholeInv /\ ReadersSeeOneText
  BY <1>2 DEF OpenInv, WholeInv, ReadersSeeOneText, IsOpen
<1>4. QED
  BY <1>1, <1>3 DEF TextsInv

LEMMA TextsNext ==
  ASSUME TextsInv, [Next]_vars
  PROVE  TextsInv'
<1>1. TypedInv /\ TypedInv' /\ TypeOK /\ StageInv
  BY TypedNext DEF TextsInv, TypedInv
<1>2. (~torn => OpenInv /\ WholeInv) /\ ReadersSeeOneText
  BY DEF TextsInv
<1>3. pc \in [Handlers -> {"new"} \cup InFlight \cup Answers] /\ seen \in [Handlers -> Seq(Line)]
      /\ new \in [Handlers -> Seq(Line)]
  BY <1>1 DEF TypeOK
<1>4. CASE UNCHANGED vars
  BY <1>1, <1>2, <1>4 DEF vars, history, TextsInv, OpenInv, WholeInv, ReadersSeeOneText, IsOpen
<1>5. ASSUME NEW h \in Handlers, RawSave(h) PROVE TextsInv'
  <2>1. pc' = [pc EXCEPT ![h] = "mismatch"] /\ UNCHANGED <<file, seen, new, torn>> /\ Kind[h] = "raw"
        /\ pc[h] = "new"
    BY <1>5 DEF RawSave, GoTo, MayStart, history
  <2>2. QED
    BY <2>1, <1>1, <1>2, <1>3 DEF TextsInv, OpenInv, WholeInv, ReadersSeeOneText, IsOpen
<1>6. ASSUME NEW h \in Handlers, Get(h) PROVE TextsInv'
  <2>1. /\ pc' = [pc EXCEPT ![h] = "ok"] /\ seen' = [seen EXCEPT ![h] = file]
        /\ UNCHANGED <<file, new, torn>> /\ pc[h] = "new"
    BY <1>6 DEF Get, GoTo, MayStart, history
  <2>2. ~torn => OpenInv' /\ WholeInv'
    BY <2>1, <1>2, <1>3 DEF OpenInv, WholeInv, IsOpen
  <2>3. ~torn => file \in {<<>>, Template} \cup {new[g] : g \in Handlers}
    BY <1>2 DEF OpenInv
  <2>4. ReadersSeeOneText'
    BY <2>1, <2>3, <1>2, <1>3 DEF ReadersSeeOneText
  <2>5. QED
    BY <2>1, <2>2, <2>4, <1>1 DEF TextsInv
<1>7. ASSUME NEW h \in Handlers, ReadText(h) PROVE TextsInv'
  <2>1. /\ pc' = [pc EXCEPT ![h] = "read"] /\ seen' = [seen EXCEPT ![h] = file]
        /\ torn' = (torn \/ IsOpen) /\ UNCHANGED <<file, new>> /\ pc[h] = "new"
        /\ Kind[h] \in Writers
    BY <1>7 DEF ReadText, GoTo, MayStart, Writers
  <2>2. ASSUME ~torn' PROVE OpenInv' /\ WholeInv'
    <3>1. ~torn /\ ~IsOpen /\ OpenInv /\ WholeInv
      BY <2>1, <2>2, <1>2
    <3>2. Whole(file)
      BY <3>1, <1>1, FileIsWhole
    <3>3. OpenInv'
      BY <3>1, <2>1, <1>3 DEF OpenInv, IsOpen
    <3>4. WholeInv'
      BY <3>1, <3>2, <2>1, <1>3 DEF WholeInv
    <3>5. QED
      BY <3>3, <3>4
  <2>3. ReadersSeeOneText'
    BY <2>1, <1>2, <1>3 DEF ReadersSeeOneText, Writers
  <2>4. QED
    BY <2>2, <2>3, <1>1 DEF TextsInv
<1>8. ASSUME NEW h \in Handlers, Refuse(h) PROVE TextsInv'
  <2>1. pc' = [pc EXCEPT ![h] = "invalid"] /\ UNCHANGED <<file, seen, new, torn>> /\ pc[h] = "read"
    BY <1>8 DEF Refuse, GoTo, history
  <2>2. QED
    BY <2>1, <1>1, <1>2, <1>3 DEF TextsInv, OpenInv, WholeInv, ReadersSeeOneText, IsOpen
<1>9. ASSUME NEW h \in Handlers, OpenForWriting(h) PROVE TextsInv'
  <2> DEFINE r == Result(h, seen[h])
  <2>1. /\ new' = [new EXCEPT ![h] = r] /\ file' = <<>> /\ pc' = [pc EXCEPT ![h] = "writing"]
        /\ torn' = (torn \/ IsOpen) /\ seen' = seen /\ pc[h] = "read"
    BY <1>9 DEF OpenForWriting, GoTo
  <2>2. Kind[h] \in Writers /\ new[h] = <<>>
    BY <2>1, <1>1 DEF StageInv, InFlight
  <2>3. ASSUME ~torn' PROVE OpenInv' /\ WholeInv'
    <3>1. ~torn /\ ~IsOpen /\ OpenInv /\ WholeInv
      BY <2>1, <2>3, <1>2
    <3>2. Whole(r)
      BY <3>1, <2>1, <2>2, ResultIsWhole DEF WholeInv
    <3> HIDE DEF r
    <3>3. pc'[h] = "writing" /\ \A g \in Handlers : pc'[g] = "writing" => g = h
      BY <3>1, <2>1, <1>3 DEF IsOpen
    <3>4. OpenInv'
      BY <3>3, <2>1 DEF OpenInv, IsOpen
    <3>5. WholeInv'
      BY <3>1, <3>2, <2>1, <1>3 DEF WholeInv
    <3>6. QED
      BY <3>4, <3>5
  <2> HIDE DEF r
  <2>4. ReadersSeeOneText'
    <3> SUFFICES ASSUME NEW g \in Handlers, Kind[g] = "get", pc'[g] = "ok", ~torn'
                 PROVE  seen'[g] \in {<<>>, Template} \cup {new'[k] : k \in Handlers}
      BY DEF ReadersSeeOneText
    <3>1. pc[g] = "ok" /\ ~torn /\ seen'[g] = seen[g]
      BY <2>1, <1>3
    <3>2. seen[g] \in {<<>>, Template} \cup {new[k] : k \in Handlers}
      BY <3>1, <1>2 DEF ReadersSeeOneText
    <3>3. \A k \in Handlers : k # h => new'[k] = new[k]
      BY <2>1, <1>3
    <3>4. QED
      BY <3>1, <3>2, <3>3, <2>2
  <2>5. QED
    BY <2>3, <2>4, <1>1 DEF TextsInv
<1>10. ASSUME NEW h \in Handlers, WriteText(h) PROVE TextsInv'
  <2>1. /\ file' = new[h] \o SubSeq(file, Len(new[h]) + 1, Len(file))
        /\ pc' = [pc EXCEPT ![h] = "ok"] /\ pc[h] = "writing" /\ UNCHANGED <<seen, new, torn>>
    BY <1>10 DEF WriteText, GoTo
  <2>2. Kind[h] \in Writers /\ new[h] # <<>>
    BY <2>1, <1>1 DEF StageInv, InFlight, TypeOK
  <2>3. ASSUME ~torn' PROVE OpenInv' /\ WholeInv'
    <3>1. OpenInv /\ WholeInv /\ IsOpen /\ file = <<>>
      BY <2>1, <2>3, <1>2 DEF OpenInv, IsOpen
    <3>2. new[h] \in Seq(Line) /\ Len(new[h]) \in Nat /\ Len(file) = 0
      BY <3>1, <1>3
    <3>3. SubSeq(file, Len(new[h]) + 1, Len(file)) = <<>>
      BY <3>2, SubSeqEmpty
    <3>4. file' = new[h]
      BY <2>1, <3>2, <3>3, ConcatEmptySeq
    <3>5. pc'[h] = "ok" /\ \A g \in Handlers : pc'[g] # "writing"
      BY <3>1, <2>1, <1>3 DEF OpenInv
    <3>6. OpenInv'
      BY <3>4, <3>5, <2>1, <2>2 DEF OpenInv, IsOpen
    <3>7. WholeInv'
      BY <3>1, <2>1, <1>3 DEF WholeInv
    <3>8. QED
      BY <3>6, <3>7
  <2>4. ReadersSeeOneText'
    BY <2>1, <2>2, <1>2, <1>3 DEF ReadersSeeOneText, Writers
  <2>5. QED
    BY <2>3, <2>4, <1>1 DEF TextsInv
<1>11. CASE Crash
  <2>1. /\ pc' = [h \in Handlers |-> IF pc[h] \in InFlight THEN "lost" ELSE pc[h]]
        /\ torn' = (torn \/ IsOpen) /\ UNCHANGED <<file, seen, new>>
    BY <1>11 DEF Crash
  <2>2. \A h \in Handlers : /\ (pc'[h] = "ok" <=> pc[h] = "ok")
                            /\ pc'[h] # "writing" /\ pc'[h] # "read"
    BY <2>1 DEF InFlight
  <2>3. ASSUME ~torn' PROVE OpenInv' /\ WholeInv'
    <3>1. ~torn /\ ~IsOpen /\ OpenInv /\ WholeInv
      BY <2>1, <2>3, <1>2
    <3>2. QED
      BY <3>1, <2>1, <2>2 DEF OpenInv, WholeInv, IsOpen
  <2>4. ReadersSeeOneText'
    BY <2>1, <2>2, <1>2 DEF ReadersSeeOneText
  <2>5. QED
    BY <2>3, <2>4, <1>1 DEF TextsInv
<1>12. QED
  BY <1>4, <1>5, <1>6, <1>7, <1>8, <1>9, <1>10, <1>11 DEF Next

LEMMA TextsHold == Spec => []TextsInv
<1>1. Init => TextsInv
  BY TextsInit
<1>2. TextsInv /\ [Next]_vars => TextsInv'
  BY TextsNext
<1>3. QED
  BY <1>1, <1>2, PTL DEF Spec

\* Whoever reads the file is shown a text that was whole or that is being
\* written, never a mixture of two, unless two had it open at once.
THEOREM ReadersSeeTexts == Spec => []ReadersSeeOneText
<1>1. TextsInv => ReadersSeeOneText
  BY DEF TextsInv
<1>2. QED
  BY <1>1, TextsHold, PTL

-----------------------------------------------------------------------------
(* Which text.                                                             *)

\* What h writes was computed from the text of the last save that was through
\* when it read.
Built(h) == readAt[h] \in 0..Len(written) /\ new[h] = Result(h, TextAfter(readAt[h]))

\* So is what was written, and what was read is such a text.
ChainInv ==
  /\ \A i \in 1..Len(written) : pc[written[i]] = "ok" /\ Built(written[i])
  /\ \A h \in Handlers : pc[h] = "writing" => Built(h)
  /\ \A h \in Handlers : pc[h] = "read" =>
       readAt[h] \in 0..Len(written) /\ seen[h] = TextAfter(readAt[h])
  /\ ~IsOpen => file = TextAfter(Len(written))

\* A handler that has not written goes on, and nothing gets written.
LEMMA ChainStays ==
  ASSUME TypeOK, ChainInv, NEW h \in Handlers, pc[h] # "ok", written' = written,
         \A g \in Handlers \ {h} : /\ pc'[g] = pc[g] /\ seen'[g] = seen[g]
                                   /\ new'[g] = new[g] /\ readAt'[g] = readAt[g],
         pc'[h] = "writing" => readAt'[h] \in 0..Len(written)
                               /\ new'[h] = Result(h, TextAfter(readAt'[h])),
         pc'[h] = "read" => readAt'[h] \in 0..Len(written) /\ seen'[h] = TextAfter(readAt'[h]),
         ~IsOpen' => file' = TextAfter(Len(written))
  PROVE  ChainInv'
<1>1. Len(written) \in Nat /\ \A i \in 1..Len(written) : written[i] \in Handlers \ {h}
  <2>1. Len(written) \in Nat /\ \A i \in 1..Len(written) : written[i] \in Handlers
    BY DEF TypeOK
  <2>2. \A i \in 1..Len(written) : pc[written[i]] = "ok"
    BY DEF ChainInv
  <2>3. QED
    BY <2>1, <2>2
<1>2. \A n \in 0..Len(written) : TextAfter(n)' = TextAfter(n)
  BY <1>1 DEF TextAfter
<1>3. ASSUME NEW g \in Handlers, g # h, Built(g) PROVE Built(g)'
  BY <1>2, <1>3 DEF Built, Result
<1>4. ASSUME NEW i \in 1..Len(written) PROVE pc'[written[i]] = "ok" /\ Built(written[i])'
  <2>1. written[i] \in Handlers /\ written[i] # h /\ Built(written[i]) /\ pc[written[i]] = "ok"
    BY <1>1 DEF ChainInv
  <2>2. QED
    BY <2>1, <1>3
<1>5. ASSUME NEW g \in Handlers, pc'[g] = "writing" PROVE Built(g)'
  <2>1. CASE g = h
    BY <1>2, <1>5, <2>1 DEF Built, Result
  <2>2. CASE g # h
    BY <1>3, <1>5, <2>2 DEF ChainInv
  <2>3. QED
    BY <2>1, <2>2
<1>6. ASSUME NEW g \in Handlers, pc'[g] = "read"
      PROVE  readAt'[g] \in 0..Len(written) /\ seen'[g] = TextAfter(readAt'[g])
  BY <1>6 DEF ChainInv
<1>7. ASSUME NEW g \in Handlers, pc'[g] = "read"
      PROVE  readAt'[g] \in 0..Len(written') /\ seen'[g] = TextAfter(readAt[g])'
  BY <1>2, <1>6, <1>7
<1>8. ~IsOpen' => file' = TextAfter(Len(written))'
  BY <1>1, <1>2
<1>9. QED
  <2>1. \A i \in 1..Len(written)' : pc'[written'[i]] = "ok" /\ Built(written[i])'
    BY <1>4
  <2>2. QED
    BY <2>1, <1>5, <1>7, <1>8 DEF ChainInv

\* A handler writes the empty file, and nobody else has it open.
LEMMA ChainGrows ==
  ASSUME TypeOK, ChainInv, NEW h \in Handlers, pc[h] = "writing",
         \A g \in Handlers : pc[g] = "writing" => g = h,
         pc' = [pc EXCEPT ![h] = "ok"], written' = Append(written, h),
         UNCHANGED <<seen, new, readAt>>, file' = new[h]
  PROVE  ChainInv'
<1>1. /\ Len(written) \in Nat /\ Len(written') = Len(written) + 1
      /\ \A i \in 1..Len(written) : written'[i] = written[i] /\ written[i] \in Handlers
      /\ written'[Len(written) + 1] = h
  BY DEF TypeOK
<1>2. \A n \in 0..Len(written) : TextAfter(n)' = TextAfter(n)
  BY <1>1 DEF TextAfter
<1>3. \A g \in Handlers : /\ pc'[g] = (IF g = h THEN "ok" ELSE pc[g])
                          /\ pc'[g] # "writing"
  BY DEF TypeOK
<1>4. ASSUME NEW g \in Handlers, Built(g) PROVE Built(g)'
  <2>1. readAt'[g] = readAt[g] /\ new'[g] = new[g] /\ readAt[g] \in 0..Len(written')
    BY <1>1, <1>4 DEF Built
  <2>2. new'[g] = Result(g, TextAfter(readAt[g]))
    BY <2>1, <1>4 DEF Built
  <2>3. TextAfter(readAt[g])' = TextAfter(readAt[g])
    BY <1>2, <1>4, <2>1 DEF Built
  <2>4. QED
    BY <2>1, <2>2, <2>3 DEF Built, Result
<1>5. ASSUME NEW i \in 1..Len(written') PROVE pc'[written'[i]] = "ok" /\ Built(written[i])'
  <2>1. CASE i = Len(written) + 1
    BY <1>1, <1>3, <1>4, <2>1 DEF ChainInv
  <2>2. CASE i \in 1..Len(written)
    BY <1>1, <1>3, <1>4, <2>2 DEF ChainInv
  <2>3. QED
    BY <1>1, <2>1, <2>2
<1>6. ASSUME NEW g \in Handlers, pc'[g] = "read"
      PROVE  readAt'[g] \in 0..Len(written') /\ seen'[g] = TextAfter(readAt[g])'
  BY <1>1, <1>2, <1>3, <1>6 DEF ChainInv
<1>7. file' = TextAfter(Len(written))'
  BY <1>1 DEF TextAfter
<1>8. QED
  BY <1>3, <1>5, <1>6, <1>7 DEF ChainInv

LEMMA ChainNext ==
  ASSUME TextsInv, ~torn => ChainInv, [Next]_vars
  PROVE  ~torn' => ChainInv'
<1> SUFFICES ASSUME ~torn' PROVE ChainInv'
  OBVIOUS
<1>1. /\ TypeOK /\ Len(written) \in Nat
      /\ pc \in [Handlers -> {"new"} \cup InFlight \cup Answers]
      /\ seen \in [Handlers -> Seq(Line)] /\ new \in [Handlers -> Seq(Line)]
      /\ readAt \in [Handlers -> Nat]
  BY DEF TextsInv, TypedInv, TypeOK
<1>2. ~torn => OpenInv /\ ChainInv
  BY DEF TextsInv
<1>3. CASE UNCHANGED vars
  BY <1>2, <1>3 DEF vars, history, ChainInv, Built, Result, TextAfter, IsOpen
<1>4. ASSUME NEW h \in Handlers, RawSave(h) \/ Get(h) \/ Refuse(h) PROVE ChainInv'
  <2>1. /\ pc[h] \in {"new", "read"} /\ UNCHANGED <<file, new, torn, written, readAt>>
        /\ \E place \in Answers : pc' = [pc EXCEPT ![h] = place]
        /\ seen' = seen \/ seen' = [seen EXCEPT ![h] = file]
    BY <1>4 DEF RawSave, Get, Refuse, GoTo, MayStart, Answers, history
  <2>2. pc'[h] \in Answers /\ \A g \in Handlers \ {h} : pc'[g] = pc[g] /\ seen'[g] = seen[g]
    BY <2>1, <1>1
  <2>3. IsOpen' <=> IsOpen
    BY <2>1, <2>2 DEF IsOpen, Answers
  <2>4. ~IsOpen' => file' = TextAfter(Len(written))
    BY <2>1, <2>3, <1>2 DEF ChainInv
  <2>5. QED
    BY <2>1, <2>2, <2>4, <1>1, <1>2, ChainStays DEF Answers
<1>5. ASSUME NEW h \in Handlers, ReadText(h) PROVE ChainInv'
  <2>1. /\ pc' = [pc EXCEPT ![h] = "read"] /\ seen' = [seen EXCEPT ![h] = file]
        /\ readAt' = [readAt EXCEPT ![h] = Len(written)]
        /\ ~torn /\ ~IsOpen /\ UNCHANGED <<file, new, written>> /\ pc[h] = "new"
    BY <1>5 DEF ReadText, GoTo, MayStart
  <2>2. file = TextAfter(Len(written))
    BY <2>1, <1>2 DEF ChainInv
  <2>3. /\ pc'[h] = "read" /\ readAt'[h] = Len(written) /\ seen'[h] = TextAfter(Len(written))
        /\ \A g \in Handlers \ {h} : pc'[g] = pc[g] /\ seen'[g] = seen[g] /\ readAt'[g] = readAt[g]
    BY <2>1, <2>2, <1>1
  <2>4. QED
    BY <2>1, <2>2, <2>3, <1>1, <1>2, ChainStays
<1>6. ASSUME NEW h \in Handlers, OpenForWriting(h) PROVE ChainInv'
  <2>1. /\ new' = [new EXCEPT ![h] = Result(h, seen[h])] /\ pc' = [pc EXCEPT ![h] = "writing"]
        /\ ~torn /\ UNCHANGED <<seen, written, readAt>> /\ pc[h] = "read"
    BY <1>6 DEF OpenForWriting, GoTo
  <2>2. readAt[h] \in 0..Len(written) /\ seen[h] = TextAfter(readAt[h])
    BY <2>1, <1>2 DEF ChainInv
  <2>3. /\ pc'[h] = "writing" /\ new'[h] = Result(h, TextAfter(readAt[h]))
        /\ \A g \in Handlers \ {h} : pc'[g] = pc[g] /\ new'[g] = new[g]
    BY <2>1, <2>2, <1>1
  <2>4. IsOpen'
    BY <2>3 DEF IsOpen
  <2>5. QED
    BY <2>1, <2>2, <2>3, <2>4, <1>1, <1>2, ChainStays
<1>7. ASSUME NEW h \in Handlers, WriteText(h) PROVE ChainInv'
  <2>1. /\ file' = new[h] \o SubSeq(file, Len(new[h]) + 1, Len(file))
        /\ pc' = [pc EXCEPT ![h] = "ok"] /\ pc[h] = "writing"
        /\ UNCHANGED <<seen, new, torn, readAt>> /\ written' = Append(written, h)
    BY <1>7 DEF WriteText, GoTo
  <2>2. OpenInv /\ ChainInv /\ file = <<>> /\ \A g \in Handlers : pc[g] = "writing" => g = h
    BY <2>1, <1>2 DEF OpenInv, IsOpen
  <2>3. new[h] \in Seq(Line) /\ Len(new[h]) \in Nat /\ Len(file) = 0
    BY <2>2, <1>1
  <2>4. SubSeq(file, Len(new[h]) + 1, Len(file)) = <<>>
    BY <2>3, SubSeqEmpty
  <2>5. file' = new[h]
    BY <2>1, <2>3, <2>4, ConcatEmptySeq
  <2>6. QED
    BY <2>1, <2>2, <2>5, <1>1, ChainGrows
<1>8. CASE Crash
  <2>1. /\ pc' = [h \in Handlers |-> IF pc[h] \in InFlight THEN "lost" ELSE pc[h]]
        /\ ~torn /\ ~IsOpen /\ UNCHANGED <<file, seen, new, written, readAt>>
    BY <1>8 DEF Crash
  <2>2. \A h \in Handlers : pc[h] = "ok" => pc'[h] = "ok"
    BY <2>1 DEF InFlight
  <2>3. \A h \in Handlers : pc'[h] \notin InFlight
    BY <2>1 DEF InFlight
  <2>4. ChainInv /\ \A i \in 1..Len(written) : written[i] \in Handlers
    BY <2>1, <1>1, <1>2 DEF TypeOK
  <2>5. QED
    BY <2>1, <2>2, <2>3, <2>4 DEF ChainInv, Built, Result, TextAfter, InFlight, IsOpen
<1>9. QED
  BY <1>3, <1>4, <1>5, <1>6, <1>7, <1>8 DEF Next

LEMMA QuietIsWhole ==
  ASSUME TextsInv, ~torn => ChainInv
  PROVE  WholeTexts
<1> SUFFICES ASSUME Quiet, ~torn PROVE WholeTexts
  BY DEF WholeTexts
<1>1. TypedInv /\ OpenInv /\ WholeInv
  BY DEF TextsInv
<1>2. ~IsOpen
  BY DEF Quiet, IsOpen, InFlight
<1>3. /\ file = TextAfter(Len(written))
      /\ \A i \in DOMAIN written :
           pc[written[i]] = "ok" /\ new[written[i]] = Result(written[i], TextAfter(readAt[written[i]]))
  BY <1>1, <1>2 DEF ChainInv, Built, TypedInv, TypeOK
<1>4. file \in Seq(Line) /\ Template \in Seq(Line) /\ Keeps(Template, file, Touched)
  BY <1>1, <1>2, FileIsWhole, FileAssumption DEF Whole
<1>5. ASSUME NEW e \in Entries(Template),
             \A h \in Handlers : Kind[h] \in {"save", "configure"} => e.key \notin DOMAIN Updates[h]
      PROVE  \E f \in Entries(file) :
               [f EXCEPT !.start = 0, !.end = 0] = [e EXCEPT !.start = 0, !.end = 0]
  <2>1. PICK s \in Starts(Template) : e = EntryAt(Template, s)
    BY DEF Entries
  <2>2. e.key = Template[s].key
    BY <2>1 DEF EntryAt
  <2>3. e.key \notin Touched
    BY <1>5 DEF Touched, Writers
  <2>4. PICK p : StandsAt(Template, s, EndOf(Template, s), file, p)
    BY <1>4, <2>2, <2>3 DEF Keeps
  <2>5. EntryAt(file, p) \in Entries(file) /\ SameEntry(EntryAt(file, p), EntryAt(Template, s))
    BY <1>4, <2>4, EntryStays
  <2>6. QED
    BY <2>1, <2>5, Zenon DEF SameEntry
<1>6. QED
  BY <1>3, <1>5 DEF WholeTexts

\* Once all is quiet and nobody met the file while it was open, it is the text
\* of the save that wrote last, each save was computed from the text of the last
\* one that was through when it read, and what no request was to update is as it
\* was.
THEOREM TextsAreWhole == Spec => []WholeTexts
<1> DEFINE Chain == ~torn => ChainInv
<1>1. Init => Chain
  BY FileAssumption DEF Init, ChainInv, TextAfter, IsOpen
<1>2. TextsInv /\ Chain /\ [Next]_vars => Chain'
  BY ChainNext
<1>3. TextsInv /\ Chain => WholeTexts
  BY QuietIsWhole
<1> HIDE DEF Chain
<1>4. QED
  BY <1>1, <1>2, <1>3, TextsHold, PTL DEF Spec

-----------------------------------------------------------------------------
(* One person at work.                                                     *)

\* Who waits for each answer has one request at most on its way, and between its
\* steps nobody else changes the file.
AloneInv ==
  alone => /\ \A g, h \in Handlers : pc[g] \in InFlight /\ pc[h] \in InFlight => g = h
           /\ \A h \in Handlers : pc[h] = "read" => seen[h] = file
           /\ \A h \in Handlers : pc[h] = "writing" => file = <<>> /\ new[h] = Result(h, seen[h])

OneAtATime == TypedInv /\ AloneInv

LEMMA AloneInit == Init => OneAtATime
<1>1. Init => AloneInv
  BY DEF Init, AloneInv, InFlight
<1>2. QED
  BY <1>1, TypedInit DEF OneAtATime

\* A save that is being written is of the text that was read.
LEMMA WritingIsOfSeen ==
  ASSUME TypedInv, AloneInv, alone, NEW h \in Handlers, pc[h] = "writing"
  PROVE  IsOpen /\ Committed = seen[h]
<1>1. \A g \in Handlers : pc[g] = "writing" => g = h
  BY DEF AloneInv, InFlight
<1>2. IsOpen
  BY DEF IsOpen
<1>3. (CHOOSE g \in Handlers : pc[g] = "writing") = h
  BY <1>1
<1>4. QED
  BY <1>2, <1>3 DEF Committed

\* What becomes of the text in a step.
Atomic ==
  Committed' # Committed =>
    \/ \E h \in Handlers : /\ pc[h] = "writing" /\ pc'[h] = "ok"
                          /\ Committed' = Result(h, Committed)
    \/ crashes' > crashes /\ Committed' = <<>>

LEMMA AloneNext ==
  ASSUME OneAtATime, [Next]_vars
  PROVE  OneAtATime' /\ (alone => Atomic)
<1>1. TypedInv /\ TypedInv' /\ TypeOK /\ StageInv /\ AloneInv
  BY TypedNext DEF OneAtATime, TypedInv
<1>2. alone' = alone
  BY DEF Next, vars, RawSave, Get, ReadText, Refuse, OpenForWriting, WriteText, Crash
<1>3. CASE ~alone
  BY <1>1, <1>2, <1>3 DEF OneAtATime, AloneInv
<1>4. CASE alone
  <2> DEFINE Done == AloneInv' /\ Atomic
  <2>1. pc \in [Handlers -> {"new"} \cup InFlight \cup Answers] /\ seen \in [Handlers -> Seq(Line)]
        /\ new \in [Handlers -> Seq(Line)]
    BY <1>1 DEF TypeOK
  <2>2. /\ \A g, h \in Handlers : pc[g] \in InFlight /\ pc[h] \in InFlight => g = h
        /\ \A h \in Handlers : pc[h] = "read" => seen[h] = file
        /\ \A h \in Handlers : pc[h] = "writing" => file = <<>> /\ new[h] = Result(h, seen[h])
    BY <1>1, <1>4 DEF AloneInv
  <2>3. ASSUME NEW h \in Handlers, MayStart(h)
        PROVE  pc[h] = "new" /\ ~IsOpen /\ \A g \in Handlers : pc[g] \notin InFlight
    BY <1>4, <2>3 DEF MayStart, IsOpen, InFlight
  <2>4. ASSUME UNCHANGED vars PROVE Done
    <3>1. Committed' = Committed
      BY <2>4 DEF vars, Committed, IsOpen
    <3>2. AloneInv'
      BY <2>4, <1>1 DEF vars, AloneInv, Result
    <3>3. QED
      BY <3>1, <3>2 DEF Atomic
  <2>5. ASSUME NEW h \in Handlers, RawSave(h) \/ Get(h) PROVE Done
    <3>1. /\ pc[h] = "new" /\ ~IsOpen /\ \A g \in Handlers : pc[g] \notin InFlight
          /\ file' = file
          /\ \E place \in Answers : pc' = [pc EXCEPT ![h] = place]
      BY <2>3, <2>5 DEF RawSave, Get, GoTo, Answers
    <3>2. \A g \in Handlers : pc'[g] \notin InFlight
      BY <3>1, <2>1 DEF InFlight, Answers
    <3>3. AloneInv' /\ ~IsOpen'
      BY <3>2 DEF AloneInv, IsOpen, InFlight
    <3>4. QED
      BY <3>1, <3>3 DEF Atomic, Committed
  <2>6. ASSUME NEW h \in Handlers, ReadText(h) PROVE Done
    <3>1. /\ pc[h] = "new" /\ ~IsOpen /\ \A g \in Handlers : pc[g] \notin InFlight
          /\ file' = file /\ seen' = [seen EXCEPT ![h] = file] /\ pc' = [pc EXCEPT ![h] = "read"]
      BY <2>3, <2>6 DEF ReadText, GoTo
    <3>2. \A g \in Handlers : g # h => pc'[g] \notin InFlight
      BY <3>1, <2>1
    <3>3. pc'[h] = "read" /\ seen'[h] = file'
      BY <3>1, <2>1
    <3>4. AloneInv' /\ ~IsOpen'
      BY <3>2, <3>3 DEF AloneInv, IsOpen, InFlight
    <3>5. QED
      BY <3>1, <3>4 DEF Atomic, Committed
  <2>7. ASSUME NEW h \in Handlers, Refuse(h) PROVE Done
    <3>1. pc[h] = "read" /\ file' = file /\ pc' = [pc EXCEPT ![h] = "invalid"]
      BY <2>7 DEF Refuse, GoTo
    <3>2. \A g \in Handlers : pc'[g] \notin InFlight /\ pc[g] # "writing"
      BY <3>1, <2>1, <2>2 DEF InFlight
    <3>3. AloneInv' /\ ~IsOpen' /\ ~IsOpen
      BY <3>2 DEF AloneInv, IsOpen, InFlight
    <3>4. QED
      BY <3>1, <3>3 DEF Atomic, Committed
  <2>8. ASSUME NEW h \in Handlers, OpenForWriting(h) PROVE Done
    <3> DEFINE r == Result(h, seen[h])
    <3>1. /\ new' = [new EXCEPT ![h] = r] /\ file' = <<>> /\ pc' = [pc EXCEPT ![h] = "writing"]
          /\ seen' = seen /\ pc[h] = "read"
      BY <2>8 DEF OpenForWriting, GoTo
    <3>2. \A g \in Handlers : pc[g] # "writing" /\ (g # h => pc'[g] \notin InFlight)
      BY <3>1, <2>1, <2>2 DEF InFlight
    <3>3. pc'[h] = "writing" /\ new'[h] = Result(h, seen'[h]) /\ seen'[h] = file
      BY <3>1, <2>1, <2>2
    <3> HIDE DEF r
    <3>4. AloneInv'
      BY <3>1, <3>2, <3>3 DEF AloneInv, InFlight, Result
    <3>5. ~IsOpen /\ Committed = file
      BY <3>2 DEF IsOpen, Committed
    <3>6. Committed' = seen'[h]
      <4>1. IsOpen' /\ (CHOOSE g \in Handlers : pc'[g] = "writing") = h
        BY <3>2, <3>3 DEF IsOpen, InFlight
      <4>2. QED
        BY <4>1 DEF Committed
    <3>7. QED
      BY <3>3, <3>4, <3>5, <3>6 DEF Atomic
  <2>9. ASSUME NEW h \in Handlers, WriteText(h) PROVE Done
    <3>1. /\ file' = new[h] \o SubSeq(file, Len(new[h]) + 1, Len(file))
          /\ pc' = [pc EXCEPT ![h] = "ok"] /\ pc[h] = "writing"
      BY <2>9 DEF WriteText, GoTo
    <3>2. new[h] \in Seq(Line) /\ Len(new[h]) \in Nat /\ file = <<>> /\ Len(file) = 0
      BY <3>1, <2>1, <2>2
    <3>3. SubSeq(file, Len(new[h]) + 1, Len(file)) = <<>>
      BY <3>2, SubSeqEmpty
    <3>4. file' = Result(h, seen[h])
      BY <3>1, <3>2, <3>3, <2>2, ConcatEmptySeq
    <3>5. Committed = seen[h]
      BY <3>1, <1>1, <1>4, WritingIsOfSeen
    <3>6. \A g \in Handlers : pc'[g] \notin InFlight
      BY <3>1, <2>1, <2>2 DEF InFlight
    <3>7. AloneInv' /\ ~IsOpen'
      BY <3>6 DEF AloneInv, IsOpen, InFlight
    <3>8. Committed' = Result(h, Committed) /\ pc'[h] = "ok"
      BY <3>1, <3>4, <3>5, <3>7, <2>1 DEF Committed
    <3>9. QED
      BY <3>1, <3>7, <3>8 DEF Atomic
  <2>10. ASSUME Crash PROVE Done
    <3>1. /\ pc' = [h \in Handlers |-> IF pc[h] \in InFlight THEN "lost" ELSE pc[h]]
          /\ file' = file /\ crashes' = crashes + 1 /\ crashes \in Nat
      BY <2>10, <1>1, FileAssumption DEF Crash, TypeOK
    <3>2. \A h \in Handlers : pc'[h] \notin InFlight
      BY <3>1 DEF InFlight
    <3>3. AloneInv' /\ ~IsOpen' /\ Committed' = file
      BY <3>1, <3>2 DEF AloneInv, IsOpen, InFlight, Committed
    <3>4. IsOpen => file = <<>>
      BY <2>2 DEF IsOpen
    <3>5. ~IsOpen => Committed = file
      BY DEF Committed
    <3>6. QED
      BY <3>1, <3>3, <3>4, <3>5 DEF Atomic
  <2>11. Done
    BY <2>4, <2>5, <2>6, <2>7, <2>8, <2>9, <2>10 DEF Next
  <2>12. QED
    BY <2>11, <1>1 DEF OneAtATime
<1>5. QED
  BY <1>3, <1>4

\* To one person who waits for each answer a save is atomic: the file goes from
\* one text to the one computed from it, or a crash empties it.
THEOREM SavesOfOnePerson == Spec => SavesAloneAreAtomic
<1>1. Init => OneAtATime
  BY AloneInit
<1>2. OneAtATime /\ [Next]_vars => OneAtATime'
  BY AloneNext
<1>3. OneAtATime /\ [Next]_vars =>
        [alone /\ Committed' # Committed =>
           \/ \E h \in Handlers : /\ pc[h] = "writing" /\ pc'[h] = "ok"
                                /\ Committed' = Result(h, Committed)
           \/ crashes' > crashes /\ Committed' = <<>>]_vars
  BY AloneNext DEF Atomic
<1>4. QED
  BY <1>1, <1>2, <1>3, PTL DEF Spec, SavesAloneAreAtomic
=============================================================================
