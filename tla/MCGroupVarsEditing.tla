------------------------- MODULE MCGroupVarsEditing --------------------------
(* Every file of up to three lines over two keys: settings on and off, with *)
(* and without a text, list items, remarks, an indented remark and blanks;  *)
(* and a file that has the repositories' keys and ends with blanks.         *)
EXTENDS GroupVarsEditing

MCTexts == {"", "key:", "x", "repo", "{{files_repo}}", "words"}

MCLines ==
  {Comment(Setting("a", "x")), Setting("a", ""), Comment(Setting("a", "")),
   Setting("b", "x"), Comment(Setting("b", "{{files_repo}}")),
   Item("words"), Comment(Item("words")), Comment(Words("words")), Blank}
MCEndsBlank == <<Setting("a", "x"), Comment(Setting("c", "")), Comment(Item("x")), Blank, Blank, Blank>>
\* A live line belongs to a setting, and a setting that stands there twice is of
\* one kind, as in the files kubespray ships.
MCTemplates ==
  {lines \in BoundedSeq(MCLines, 3) : NoStray(lines) /\ \A k \in {"a", "b"} : OneKind(lines, k)}
    \cup {MCEndsBlank}
MCTyped == {"repo"}
\* A block and what else a person may leave in its textarea: nothing, a line that
\* lost its key, a blank line or a remark in between, or another key.
MCBlocks ==
  {<<Setting("a", ""), Item("x")>>, <<>>, <<Item("x")>>, <<Setting("a", ""), Blank, Item("x")>>,
   <<Setting("b", ""), Item("x")>>}
MCRepos == <<"a", "c">>
MCUrls == {"b"}
MCRepoValue == ("a" :> <<Words("repo")>>) @@ ("c" :> <<Setting("c", ""), Item("repo")>>)
MCHeader == Comment(Words("words"))
=============================================================================
