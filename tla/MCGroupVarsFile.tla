--------------------------- MODULE MCGroupVarsFile ---------------------------
(* Two form saves of different length, one that does not load, a configure, *)
(* a raw save and a reader, on a file of three keys.                         *)
EXTENDS GroupVarsFile

CONSTANTS save1, save2, bad, conf, raw, get

MCHandlers == {save1, save2, bad, conf, raw, get}
MCKind == (save1 :> "save") @@ (save2 :> "save") @@ (bad :> "save")
          @@ (conf :> "configure") @@ (raw :> "raw") @@ (get :> "get")
MCTexts == {"", "key:", "x", "y", "words"}
MCTemplate == <<Comment(Setting("a", "x")), Setting("b", ""), Item("x"), Setting("k", "x")>>
To(enabled, value) == [enabled |-> enabled, keep |-> FALSE, value |-> value]
MCUpdates ==
  (save1 :> ("a" :> To(TRUE, <<Words("y")>>)))
  @@ (save2 :> ("b" :> To(TRUE, <<Setting("b", ""), Item("x"), Item("y")>>)))
  @@ (bad :> ("b" :> To(TRUE, <<Words("y")>>)))
  @@ (conf :> (("a" :> To(TRUE, <<Words("x")>>)) @@ ("c" :> To(TRUE, <<Words("x")>>))))
  @@ (raw :> <<>>) @@ (get :> <<>>)
MCOrder == <<"a", "c">>
MCHeader == Comment(Words("words"))
=============================================================================
