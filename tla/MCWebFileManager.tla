-------------------------- MODULE MCWebFileManager --------------------------
(* WebFileManager with one soft error and one that means a lost session; the *)
(* page and a script share out the operations.  The page posts its form whole, *)
(* with every value or with a password that is too long; the script posts    *)
(* nothing, the path, or both.                                               *)
EXTENDS WebFileManager

MCErrors == {"None", "QuitFailed", "ConnectionFailed"}
MCPageOps == {"connect", "copy"}
MCScriptOps == {"upload", "delete", "move", "quit", "local-list"}
MCNames == {"server", "path"}

Field(f, v) == [name |-> f, value |-> v]

MCPageForms ==
    {<<Field("server", v), Field("path", "given")>> : v \in {"given", "long"}}
MCScriptForms ==
    {<<>>, <<Field("path", "given")>>,
     <<Field("path", "given"), Field("server", "given")>>}

=============================================================================
