---------------------------- MODULE MCConfigText ----------------------------
(* Instance of ConfigText for TLC: single values of up to four characters, *)
(* lists of two short values, typed texts of up to five characters.        *)
EXTENDS ConfigText

MCChars == {"n", Q, Bs, "#", ",", " ", NL}
MCLists ==
    { <<>> } \cup { <<v>> : v \in SeqOf(MCChars, 4) }
        \cup { <<v, w>> : v, w \in SeqOf(MCChars, 2) }
MCTyped == SeqOf(MCChars \ {NL}, 5)
=============================================================================
