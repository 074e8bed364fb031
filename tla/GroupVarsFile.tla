---------------------------- MODULE GroupVarsFile ----------------------------
(***************************************************************************)
(* One group_vars file on disk and the handlers of backend/main.py that    *)
(* read and write it, each on a thread of its own and without a lock: the  *)
(* form's save (update_file), "Point kubespray at these repos"             *)
(* (configure_offline_yml), the raw editor's save (update_file_raw) and    *)
(* the readers (get_file, search).  Two browser tabs, or two inventories   *)
(* whose group_vars are a symlink to the same directory, share a file.     *)
(*                                                                         *)
(* A save reads the text, computes a new one, opens the file for writing,  *)
(* which empties it, and writes from the start; other threads run between  *)
(* these calls, and the server may die there.                              *)
(***************************************************************************)
EXTENDS GroupVars

CONSTANTS
  Handlers,    \* the requests that are made, each at most once
  Kind,        \* "save", "configure", "raw" or "get"
  Updates,     \* what a save or a configure is to write
  Template,    \* the text the file begins with
  Header,      \* the comment line above what configure appends
  Order,       \* the keys configure appends, in this order
  MaxCrashes   \* bound: how often the server dies

Kinds == {"save", "configure", "raw", "get"}

ASSUME FileAssumption ==
  /\ Kind \in [Handlers -> Kinds]
  /\ Template \in Seq(Line) /\ Template # <<>>
  /\ Header \in Line /\ Order \in Seq(Keys)
  /\ MaxCrashes \in Nat

\* What is sent for a key is a text, and as the docstring of upsert asks, "its
\* first line must be `key:`": none that is indented, which would read as a part
\* of the entry above.
ASSUME UpdatesAssumption ==
  \A h \in Handlers : Kind[h] \in {"save", "configure"} =>
    /\ DOMAIN Updates[h] \subseteq Keys
    /\ \A k \in DOMAIN Updates[h] :
         LET value == Updates[h][k].value IN
         value \in Seq(Line) /\ (value # <<>> => ~value[1].indent)

VARIABLES
  file,     \* the lines on disk
  pc,       \* where each handler stands
  seen,     \* the text it read
  new,      \* the text it is writing
  alone,    \* one person at work, who waits for each answer
  crashes,  \* how often the server died
  torn,     \* history: an open file was read, opened again or left behind
  written,  \* history: the handlers that wrote the file, in order
  readAt    \* history: how many had written it when a handler read it

history == <<torn, written, readAt>>
vars == <<file, pc, seen, new, alone, crashes, history>>

\* "read": it has the text; "writing": the file is open and empty; "ok": 200;
\* "invalid": 400; "mismatch": 422, the body is not of the form expected; "lost":
\* the server died under it.
Answers == {"ok", "invalid", "mismatch", "lost"}
InFlight == {"read", "writing"}

TypeOK ==
  /\ file \in Seq(Line)
  /\ pc \in [Handlers -> {"new"} \cup InFlight \cup Answers]
  /\ seen \in [Handlers -> Seq(Line)]
  /\ new \in [Handlers -> Seq(Line)]
  /\ \A h \in Handlers : pc[h] = "writing" => new[h] # <<>>   \* at least a newline
  /\ alone \in BOOLEAN
  /\ crashes \in 0..MaxCrashes
  /\ torn \in BOOLEAN
  /\ written \in Seq(Handlers)
  /\ readAt \in [Handlers -> Nat]

Init ==
  /\ file = Template
  /\ pc = [h \in Handlers |-> "new"]
  /\ seen = [h \in Handlers |-> <<>>]
  /\ new = [h \in Handlers |-> <<>>]
  /\ alone \in BOOLEAN
  /\ crashes = 0
  /\ torn = FALSE
  /\ written = <<>>
  /\ readAt = [h \in Handlers |-> 0]

IsOpen == \E h \in Handlers : pc[h] = "writing"

GoTo(h, place) == pc' = [pc EXCEPT ![h] = place]

\* A person who works alone starts nothing before the last answer.
MayStart(h) ==
  /\ pc[h] = "new"
  /\ alone => \A g \in Handlers : pc[g] \notin InFlight

-----------------------------------------------------------------------------
(* Routing: the first route that matches, in the order of declaration.     *)

Routes == <<"update_file", "update_file_raw">>

Matches(route, kind) ==
  CASE route = "update_file" -> kind \in {"save", "raw"}   \* {rel_path:path} takes ".../raw" too
    [] route = "update_file_raw" -> kind = "raw"

Dispatched(kind) == Routes[SelectInSeq(Routes, LAMBDA route : Matches(route, kind))]

\* A raw save reaches update_file, whose body must have "updates": 422.
RawSave(h) ==
  /\ MayStart(h) /\ Kind[h] = "raw"
  /\ Dispatched("raw") = "update_file"
  /\ GoTo(h, "mismatch")
  /\ UNCHANGED <<file, seen, new, alone, crashes, history>>

-----------------------------------------------------------------------------
\* get_file and search read the text and answer.
Get(h) ==
  /\ MayStart(h) /\ Kind[h] = "get"
  /\ seen' = [seen EXCEPT ![h] = file]
  /\ GoTo(h, "ok")
  /\ UNCHANGED <<file, new, alone, crashes, history>>

ReadText(h) ==
  /\ MayStart(h) /\ Kind[h] \in {"save", "configure"}
  /\ seen' = [seen EXCEPT ![h] = file]
  /\ torn' = (torn \/ IsOpen)
  /\ readAt' = [readAt EXCEPT ![h] = Len(written)]
  /\ GoTo(h, "read")
  /\ UNCHANGED <<file, new, alone, crashes, written>>

\* What the handler makes of a text.
Result(h, text) ==
  Rejoin(CASE Kind[h] = "save" -> ApplyUpdates(text, Updates[h])
           [] Kind[h] = "configure" -> Upsert(text, Updates[h], Header, Order))

\* update_file refuses a text that does not load; configure does not look.
Refuse(h) ==
  /\ pc[h] = "read" /\ Kind[h] = "save"
  /\ ~Loads(Result(h, seen[h]))
  /\ GoTo(h, "invalid")
  /\ UNCHANGED <<file, seen, new, alone, crashes, history>>

\* Mutants of OpenForWriting: the file is not emptied; the text is read once the
\* file is open.
OpenWithoutEmptying(h) ==
  /\ pc[h] = "read"
  /\ Kind[h] = "save" => Loads(Result(h, seen[h]))
  /\ new' = [new EXCEPT ![h] = Result(h, seen[h])]
  /\ torn' = (torn \/ IsOpen)
  /\ GoTo(h, "writing")
  /\ UNCHANGED <<file, seen, alone, crashes, written, readAt>>

OpenThenRead(h) ==
  /\ pc[h] = "read"
  /\ Kind[h] = "save" => Loads(Result(h, seen[h]))
  /\ new' = [new EXCEPT ![h] = Result(h, <<>>)]
  /\ file' = <<>>
  /\ torn' = (torn \/ IsOpen)
  /\ GoTo(h, "writing")
  /\ UNCHANGED <<seen, alone, crashes, written, readAt>>

\* write_text opens the file, which empties it ...
OpenForWriting(h) ==
  /\ pc[h] = "read"
  /\ Kind[h] = "save" => Loads(Result(h, seen[h]))
  /\ new' = [new EXCEPT ![h] = Result(h, seen[h])]
  /\ file' = <<>>
  /\ torn' = (torn \/ IsOpen)
  /\ GoTo(h, "writing")
  /\ UNCHANGED <<seen, alone, crashes, written, readAt>>

\* ... and writes from the start: of a longer text that somebody else wrote
\* since, the end stays.
WriteText(h) ==
  /\ pc[h] = "writing"
  /\ file' = new[h] \o SubSeq(file, Len(new[h]) + 1, Len(file))
  /\ GoTo(h, "ok")
  /\ written' = Append(written, h)
  /\ UNCHANGED <<seen, new, alone, crashes, torn, readAt>>

\* The container stops and is started again: what was in flight is gone.
Crash ==
  /\ crashes < MaxCrashes
  /\ crashes' = crashes + 1
  /\ pc' = [h \in Handlers |-> IF pc[h] \in InFlight THEN "lost" ELSE pc[h]]
  /\ torn' = (torn \/ IsOpen)
  /\ UNCHANGED <<file, seen, new, alone, written, readAt>>

Next ==
  \/ \E h \in Handlers : \/ RawSave(h) \/ Get(h)
                         \/ ReadText(h) \/ Refuse(h) \/ OpenForWriting(h) \/ WriteText(h)
  \/ Crash

Spec == Init /\ [][Next]_vars

-----------------------------------------------------------------------------
(* Properties.                                                             *)

Quiet == \A h \in Handlers : pc[h] \notin InFlight

\* The text as an observer sees it who takes a save for one step.
Committed ==
  IF IsOpen THEN seen[CHOOSE h \in Handlers : pc[h] = "writing"] ELSE file

\* To one person who waits for each answer a save is atomic: the file goes from
\* one text to the one computed from it, or a crash empties it.
SavesAloneAreAtomic ==
  [][alone /\ Committed' # Committed =>
       \/ \E h \in Handlers : /\ pc[h] = "writing" /\ pc'[h] = "ok"
                            /\ Committed' = Result(h, Committed)
       \/ crashes' > crashes /\ Committed' = <<>>]_vars

\* The text on disk after the first n writes.
TextAfter(n) == IF n = 0 THEN Template ELSE new[written[n]]

\* As long as nobody met the file while it was open, whoever overlapped with
\* whom and wherever the server died, the file is the text of the save that
\* wrote last, and each save was computed from the text of the last one that
\* was through when it read: what it loses is what was written since then, and
\* nothing else.  What no request was to update is as it was in the beginning.
WholeTexts ==
  Quiet /\ ~torn =>
    /\ file = TextAfter(Len(written))
    /\ \A i \in DOMAIN written :
         LET h == written[i] IN pc[h] = "ok" /\ new[h] = Result(h, TextAfter(readAt[h]))
    /\ \A e \in Entries(Template) :
         (\A h \in Handlers : Kind[h] \in {"save", "configure"} => e.key \notin DOMAIN Updates[h]) =>
           \E f \in Entries(file) : [f EXCEPT !.start = 0, !.end = 0] = [e EXCEPT !.start = 0, !.end = 0]

\* A reader is shown a text that was whole, or that somebody is writing: the
\* lines it gets are never a mixture unless two had the file open at once.
ReadersSeeOneText ==
  \A h \in Handlers : Kind[h] = "get" /\ pc[h] = "ok" /\ ~torn =>
    seen[h] \in {<<>>, Template} \cup {new[g] : g \in Handlers}

-----------------------------------------------------------------------------
(* What README.md says, and the handlers do not do.                        *)

\* README.md:17-18: a save rewrites exactly the lines that changed; what no
\* request updates stays in the file when all of them were answered with 200.
OtherLinesStay ==
  Quiet /\ crashes = 0 /\ (\A h \in Handlers : pc[h] \in {"new", "ok", "mismatch"}) =>
    \A e \in Entries(Template) :
      (\A h \in Handlers : Kind[h] \in {"save", "configure"} => e.key \notin DOMAIN Updates[h]) =>
        \E f \in Entries(file) : f.key = e.key

\* README.md:20: the "Raw YAML" toggle edits the text of a file directly; what
\* it sends is taken for a text and not for the updates of a form.
RawSavesAreTaken == \A h \in Handlers : Kind[h] = "raw" => pc[h] # "mismatch"
=============================================================================
