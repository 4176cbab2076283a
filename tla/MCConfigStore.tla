---------------------------- MODULE MCConfigStore ----------------------------
(***************************************************************************)
(* An instance of ConfigStore for TLC: the layers /e/g and e/k, read in /, *)
(* an included file e/s/b that includes others itself, and a file c in /,  *)
(* e and e/s.                                                              *)
(***************************************************************************)
EXTENDS ConfigMeaning, TLC

CONSTANTS Long  \* the number of entries of k at most

MCAtoms == {"e", "s", "g", "k", "b", "c", "none", "a", "x", "N", "HOME"}
Path(root, dirs, base) == [root |-> root, dirs |-> dirs, base |-> base]

MCLayers == <<Path(TRUE, <<"e">>, "g"), Path(FALSE, <<"e">>, "k")>>
MCHome == <<>>
MCEditable == {<<"a">>}
MCEnv == (<<"HOME">> :> <<"home">>)
MCValues == {"0", "1", "2", "home", "q", "j", "h", "#"}
MCCut == [v \in {"h", "#"} |-> IF v = "h" THEN "1" ELSE "nothing"]

A == <<"a">>
X == <<"x">>

MCMisread == {<<Literal("q")>>, <<Reference(X)>>}
MCFragile == {<<Literal("q")>>}

MCEntriesK ==
    {Assignment(A, <<Literal("1")>>),
     Assignment(A, <<Reference(A), Literal("2")>>),
     Assignment(X, <<Reference(A)>>),
     Assignment(X, <<Literal("q")>>),
     Deletion(<<A, X>>),
     Inclusion(Path(FALSE, <<"s">>, "b")),
     Inclusion(Path(FALSE, <<>>, "c")),
     Opening("N"), Closing, Malformed}

MCFilesB ==
    {<<Inclusion(Path(FALSE, <<>>, "c")), Assignment(X, <<Literal("2")>>)>>,
     <<Opening("N"), Inclusion(Path(TRUE, <<"e">>, "k")), Closing, Deletion(<<A>>)>>,
     <<Inclusion(Path(FALSE, <<"e">>, "k")), Inclusion(Path(FALSE, <<>>, "b"))>>,
     <<Inclusion(Path(TRUE, <<"e", "s">>, "c")), Inclusion(Path(FALSE, <<>>, "none"))>>,
     <<Opening("N"), Assignment(A, <<Reference(<<"HOME">>)>>)>>}

\* The second layer does not exist on a new installation.
MCNew == (<<"e", "g">> :> <<Assignment(A, <<Literal("0")>>)>>)

MCDisks == {MCNew} \cup
    { MCNew @@ (<<"e", "k">> :> k) @@ (<<"e", "s", "b">> :> b)
        @@ (<<"c">> :> <<Assignment(X, <<Literal("2")>>)>>)
        @@ (<<"e", "c">> :> <<Assignment(X, <<Literal("0")>>)>>)
        @@ (<<"e", "s", "c">> :> <<Assignment(X, <<Literal("1")>>)>>)
        : k \in SeqOf(MCEntriesK, Long), b \in MCFilesB }
==============================================================================
