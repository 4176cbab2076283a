---------------------------- MODULE ConfigMeaning ----------------------------
(***************************************************************************)
(* What configuration files mean, as recursive functions: no stack, no     *)
(* working directory, no prefixes that are pushed and popped.  The files   *)
(* are unfolded into one list of effects on the symbol table, which is     *)
(* then evaluated.  A reference for the steps of ConfigStore, for files    *)
(* without errors.                                                         *)
(***************************************************************************)
EXTENDS ConfigStore

\* What an entry does to the symbol table, its names in full; and how far the
\* unfolding is: the effects so far, the included texts, the namespaces open in the
\* file.
Effects == [name : Names, rhs : Seq(Items), uri : Texts] \cup [gone : SUBSET Names]
Progress == [effects : Seq(Effects), included : SUBSET Texts, ns : Names]

Unstarted == [effects |-> <<>>, included |-> {}, ns |-> <<>>]

\* A file that is to be unfolded: the text it is included by, and the namespaces that
\* are open around its include.
Sources == [file : Seq(Atoms), text : Texts, outer : Names]

LayerSource(i) ==
    [file |-> Real(Home, Layers[i]), text |-> Layers[i], outer |-> <<>>]

\* A file that does not exist has no entries.
Lines(d, p) == IF p \in DOMAIN d THEN d[p] ELSE <<>>

\* The source that an entry e in source a includes when u is reached.
Included(a, u, e) ==
    [file |-> Real(Front(a.file), e.path), text |-> e.path, outer |-> a.outer \o u.ns]

\* The progress at the beginning of a file that is reached when u is.
Begun(u, t) == [u EXCEPT !.included = @ \cup {t}, !.ns = <<>>]

\* The progress after u and the entry e of source a; `whole' unfolds included files.
Onward(whole, a, u, e) ==
    LET Full(n) == a.outer \o u.ns \o n
    IN CASE e.kind = "assign" ->
              [u EXCEPT !.effects =
                  Append(@, [name |-> Full(e.name), rhs |-> e.rhs, uri |-> a.text])]
         [] e.kind = "del" ->
              [u EXCEPT !.effects =
                  Append(@, [gone |-> { Full(n) : n \in ToSet(e.names) }])]
         [] e.kind = "open" -> [u EXCEPT !.ns = Append(@, e.name)]
         [] e.kind = "close" -> [u EXCEPT !.ns = Front(@)]
         [] e.kind = "include" /\ e.path \notin u.included ->
              [whole[<<Included(a, u, e), u>>] EXCEPT !.ns = u.ns]
         [] OTHER -> u

\* The progress, starting from u, after each of the entries of source a.
Unfolding(d, whole, a, u) ==
    LET lines == Lines(d, a.file)
        upto[i \in 0..Len(lines)] ==
            IF i = 0 THEN Begun(u, a.text)
            ELSE Onward(whole, a, upto[i - 1], lines[i])
    IN upto

\* The progress after a whole source, with no more than n files in one another, for
\* each n up to k.
Whole(d, k) ==
    LET whole[n \in 0..k] ==
            [x \in Sources \X Progress |->
                IF n = 0 THEN x[2]
                ELSE Unfolding(d, whole[n - 1], x[1], x[2])[Len(Lines(d, x[1].file))]]
    IN whole

\* The progress after each of the layers.
Layered(d, k) ==
    LET upto[i \in 0..Len(Layers)] ==
            IF i = 0 THEN Unstarted
            ELSE Whole(d, k)[k][<<LayerSource(i), upto[i - 1]>>]
    IN upto

Effect(T, o) ==
    IF "gone" \in DOMAIN o THEN Drop(T, o.gone)
    ELSE Put(T, o.name, [values |-> Eval(T, o.rhs), content |-> o.rhs, uri |-> o.uri])

\* The symbol table that a list of effects makes of an empty one.
Evaluated(effects) ==
    LET upto[i \in 0..Len(effects)] ==
            IF i = 0 THEN EmptyTable ELSE Effect(upto[i - 1], effects[i])
    IN upto[Len(effects)]

\* After a reading without errors the symbol table is what the files mean: later
\* assignments override earlier ones and layers, references have the value of the
\* time of their reading, and nothing is left of the way through the includes.  One
\* more file may be in one another than texts were included; as the included texts
\* agree, the unfolding never gets there and is complete.
LoadedAsMeant ==
    phase = "loaded" /\ Clean =>
        LET meant == Layered(disk, Cardinality(included) + 1)[Len(Layers)]
        IN table = Evaluated(meant.effects) /\ included = meant.included
==============================================================================
