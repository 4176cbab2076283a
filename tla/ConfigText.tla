------------------------------- MODULE ConfigText -------------------------------
(***************************************************************************)
(* How the configuration library writes the values of a parameter as text  *)
(* and reads text again: quotes, escapes, comments, continued lines and    *)
(* lists, character by character.  Nothing here is about names, files or   *)
(* references; ConfigStore is about those.                                 *)
(*                                                                         *)
(* A text is a sequence of characters, a file a sequence of lines.  The    *)
(* parameter is v; an unresolved reference, which the library marks by a   *)
(* text of its own, is left out.                                           *)
(***************************************************************************)
EXTENDS Naturals, Sequences, SequencesExt

CONSTANTS
    Lists,      \* the values a program may give to the parameter
    Typed,      \* right sides that somebody may type into a file
    Width       \* the length of a list above which it is written on several lines

VARIABLES
    phase,      \* "set", "typed", "written", "read", "rewritten", "reread"
    values,     \* the values of the parameter
    lines,      \* the file
    got,        \* what was read from it last
    first       \* what was read from it first

vars == <<phase, values, lines, got, first>>

Q == "\""
Bs == "\\"
NL == "newline"
Tab == "tab"
Blank == {" ", NL, Tab}
Quotable == Blank \cup {Bs, ",", "=", "$", "{", "}"}
Comma == <<",">>

Has(text, chars) == \E i \in DOMAIN text : text[i] \in chars

\* From left to right through a text: Step(state, position).
Scan(text, start, Step(_, _)) ==
    LET state[i \in 0..Len(text)] == IF i = 0 THEN start ELSE Step(state[i - 1], i)
    IN state[Len(text)]

Concat(texts) == Scan(texts, <<>>, LAMBDA s, i : s \o texts[i])
Map(text, F(_)) == Scan(text, <<>>, LAMBDA s, i : s \o F(text[i]))

-----------------------------------------------------------------------------
(* Writing *)

EscapeDoubleQuotes(v) == Map(v, LAMBDA c : IF c = Q THEN <<Bs, Q>> ELSE <<c>>)

\* The escape of a control stands between two quoted texts.
SplitControls(v) ==
    Map(v, LAMBDA c : IF c = NL THEN <<Q, Bs, "n", Q>>
                      ELSE IF c = Tab THEN <<Q, Bs, "t", Q>> ELSE <<c>>)

\* Mutant: a comma needs no quotes.
Mut_Quote(v) ==
    IF v = <<>> THEN <<Q, Q>>
    ELSE IF Has(v, Quotable \ {","}) THEN <<Q>> \o SplitControls(v) \o <<Q>> ELSE v

\* Mutant: neither does a backslash.
Mut_Quote_Escape(v) ==
    IF v = <<>> THEN <<Q, Q>>
    ELSE IF Has(v, Quotable \ {Bs}) THEN <<Q>> \o SplitControls(v) \o <<Q>> ELSE v

Quote(v) ==
    IF v = <<>> THEN <<Q, Q>>
    ELSE IF Has(v, Quotable) THEN <<Q>> \o SplitControls(v) \o <<Q>> ELSE v

Prefix == <<"v", " ", "=", " ">>
Indent == [i \in DOMAIN Prefix |-> " "]

\* The lines of the parameter: on one line, or with multilineLists, if the texts that
\* are measured are long, on one for each item.
Lay(items, measured, multiline) ==
    LET n == Len(items) IN
    IF multiline /\ n > 1 /\ Len(Concat(measured)) + 2 * (n - 1) > Width
      THEN [i \in 1..n |-> (IF i = 1 THEN Prefix ELSE Indent) \o items[i]
                              \o (IF i = n THEN <<>> ELSE <<",", Bs>>)]
      ELSE <<Prefix \o Scan(items, <<>>, LAMBDA s, i :
                 s \o (IF i = 1 THEN <<>> ELSE <<",", " ">>) \o items[i])>>

WriteValues(vs, multiline) ==
    IF vs = <<>> THEN <<Prefix \o <<Q, Q>>>>
    ELSE Lay([i \in DOMAIN vs |-> Quote(EscapeDoubleQuotes(vs[i]))], vs, multiline)

-----------------------------------------------------------------------------
(* Reading *)

Bad == [ok |-> FALSE, values |-> <<>>, content |-> <<>>]

TrimmedBy(text, solid) ==
    IF solid = {} THEN <<>>
    ELSE SubSeq(text, CHOOSE i \in solid : \A j \in solid : i <= j,
                      CHOOSE i \in solid : \A j \in solid : j <= i)
Trim(text) == TrimmedBy(text, { i \in DOMAIN text : text[i] \notin Blank })

\* The tokens of parseRValue: texts, and a comma for each comma outside of quotes; in
\* raw mode quotes and escapes are kept.
Pieces(entry, raw) ==
    LET Flush(s) == IF s.cur = <<>> THEN s.out ELSE Append(s.out, s.cur)
        Step(s, i) ==
          LET c == entry[i] IN
          IF c = Bs /\ ~s.str /\ ~s.esc
            THEN [s EXCEPT !.esc = TRUE, !.cur = IF raw THEN Append(@, c) ELSE @]
          ELSE IF s.esc
            THEN [s EXCEPT !.esc = FALSE,
                           !.cur = Append(@, IF raw THEN c ELSE IF c = "n" THEN NL
                                             ELSE IF c = "t" THEN Tab ELSE c)]
          ELSE IF c = Q
            THEN [s EXCEPT !.str = ~@, !.cur = IF raw THEN Append(@, c) ELSE @,
                           !.out = IF ~raw /\ i < Len(entry) /\ entry[i + 1] = Q
                                     THEN Append(@, <<>>) ELSE @]
          ELSE IF c = "," /\ ~s.str
            THEN [s EXCEPT !.cur = <<>>, !.out = Append(Flush(s), Comma)]
          ELSE IF c \in Blank /\ ~s.str THEN s
          ELSE [s EXCEPT !.cur = Append(@, c)]
        end == Scan(entry, [str |-> FALSE, esc |-> FALSE, cur |-> <<>>, out |-> <<>>], Step)
    IN [ok |-> ~end.str, tokens |-> Flush(end)]

\* ... and its grammar: texts side by side are one value, a comma ends it.
ParseRValue(entry, raw) ==
    LET pieces == Pieces(entry, raw)
        t == pieces.tokens
        Lonely(i) == \/ i = 1 \/ i = Len(t)
                     \/ t[i - 1] = Comma \/ t[i + 1] = Comma
        Step(s, i) ==
          IF t[i] = Comma THEN [vals |-> Append(s.vals, s.cur), cur |-> <<>>]
          ELSE IF i = Len(t) THEN [vals |-> Append(s.vals, s.cur \o t[i]), cur |-> <<>>]
          ELSE [s EXCEPT !.cur = @ \o t[i]]
    IN IF ~pieces.ok \/ t = <<>> \/ \E i \in DOMAIN t : t[i] = Comma /\ Lonely(i)
         THEN [ok |-> FALSE, values |-> <<>>]
         ELSE [ok |-> TRUE, values |-> Scan(t, [vals |-> <<>>, cur |-> <<>>], Step).vals]

StripEscapes(v) ==
    Scan(v, <<>>, LAMBDA s, i :
        IF v[i] = Bs /\ i < Len(v) /\ v[i + 1] = Q THEN s ELSE Append(s, v[i]))

Tokenize(entry) ==
    LET Flush(s) == IF s.cur = <<>> THEN s.out ELSE Append(s.out, s.cur)
        Step(s, i) ==
          LET c == entry[i]
              previous == entry[IF i = 1 THEN 1 ELSE i - 1]
          IN IF c = Bs /\ ~s.esc /\ ~s.str THEN [s EXCEPT !.esc = TRUE]
             ELSE IF s.esc
               THEN [s EXCEPT !.esc = FALSE,
                              !.cur = @ \o (IF s.out = <<>> THEN <<>> ELSE <<previous>>) \o <<c>>]
             ELSE IF s.str
               THEN IF c = Q THEN [s EXCEPT !.str = FALSE, !.cur = <<>>,
                                            !.out = Append(@, Append(s.cur, c))]
                    ELSE [s EXCEPT !.cur = Append(@, c)]
             ELSE IF c \in Blank THEN [s EXCEPT !.cur = <<>>, !.out = Flush(s)]
             ELSE IF c \in {"=", ","}
               THEN [s EXCEPT !.cur = <<>>, !.out = Append(Flush(s), <<c>>)]
             ELSE [s EXCEPT !.cur = Append(@, c), !.str = c = Q /\ previous # Bs]
    IN Scan(entry, [str |-> FALSE, esc |-> FALSE, cur |-> <<>>, out |-> <<>>], Step).out

\* handleEntry, of an assignment.
HandleEntry(entry) ==
    LET tokens == Tokenize(Append(entry, NL))
        content == Concat([i \in 1..(Len(tokens) - 2) |->
                       IF tokens[i + 2] = Comma THEN <<",", " ">> ELSE tokens[i + 2]])
        parsed == ParseRValue(content, FALSE)
    IN IF Len(tokens) < 3 \/ tokens[2] # <<"=">> \/ ~parsed.ok THEN Bad
       ELSE [ok |-> TRUE, content |-> content,
             values |-> [i \in DOMAIN parsed.values |-> StripEscapes(parsed.values[i])]]

\* parseFile: what each entry of the file is, one after the other.
ParseFile(file) ==
    LET Char(line, s, i) ==
          IF s.stop \/ (line[i] = "#" /\ ~s.str) THEN [s EXCEPT !.stop = TRUE]
          ELSE [s EXCEPT !.entry = Append(@, line[i]),
                         !.str = IF line[i] = Q /\ (@ \/ line[IF i = 1 THEN 1 ELSE i - 1] # Bs)
                                   THEN ~@ ELSE @]
        Line(s, k) ==
          LET line == Trim(file[k])
              end == Scan(line, [s EXCEPT !.stop = FALSE], LAMBDA r, i : Char(line, r, i))
              entry == Trim(end.entry)
          IN IF line = <<>> THEN s
             ELSE IF entry = <<>> THEN [end EXCEPT !.entry = <<>>]
             ELSE IF Last(entry) = Bs THEN [end EXCEPT !.entry = Front(entry)]
             ELSE [end EXCEPT !.entry = <<>>, !.str = FALSE,
                              !.out = Append(@, IF end.str THEN Bad ELSE HandleEntry(entry))]
    IN Scan(file, [entry |-> <<>>, str |-> FALSE, stop |-> FALSE, out |-> <<>>], Line).out

\* Mutant: quotes and escapes are not kept.
Mut_WriteContent(content, multiline) ==
    LET parsed == ParseRValue(content, FALSE) IN
    IF ~multiline \/ ~parsed.ok THEN <<Prefix \o content>>
    ELSE Lay(parsed.values, parsed.values, TRUE)

\* writeContent: the text that was read, taken apart again if it is to be laid out.
WriteContent(content, multiline) ==
    LET parsed == ParseRValue(content, TRUE) IN
    IF ~multiline \/ ~parsed.ok THEN <<Prefix \o content>>
    ELSE Lay(parsed.values, parsed.values, TRUE)

-----------------------------------------------------------------------------
(* A parameter is set or typed, and then written and read *)

\* Another entry that follows.
After == <<"v", "=", "n">>

Init ==
    /\ got = <<>> /\ first = <<>>
    /\ \/ phase = "set" /\ values \in Lists /\ lines = <<>>
       \/ phase = "typed" /\ values = <<>> /\ lines \in { <<Prefix \o t, After>> : t \in Typed }

Write ==
    /\ phase = "set"
    /\ phase' = "written"
    /\ \E multiline \in BOOLEAN : lines' = Append(WriteValues(values, multiline), After)
    /\ UNCHANGED <<values, got, first>>

Read ==
    /\ phase \in {"typed", "written"}
    /\ phase' = "read"
    /\ got' = ParseFile(lines) /\ first' = got'
    /\ UNCHANGED <<values, lines>>

Rewrite ==
    /\ phase = "read" /\ got # <<>> /\ got[1].ok
    /\ phase' = "rewritten"
    /\ \E multiline \in BOOLEAN : lines' = Append(WriteContent(got[1].content, multiline), After)
    /\ UNCHANGED <<values, got, first>>

Reread ==
    /\ phase = "rewritten"
    /\ phase' = "reread"
    /\ got' = ParseFile(lines)
    /\ UNCHANGED <<values, lines, first>>

Next == Write \/ Read \/ Rewrite \/ Reread

Spec == Init /\ [][Next]_vars

-----------------------------------------------------------------------------
(* Properties *)

FromProgram == lines \in { Append(WriteValues(values, m), After) : m \in BOOLEAN }

\* The values that survive: no double quote, no # that nothing else in the value makes
\* quote() protect, and not a comma alone; and the list is not empty.
Survives(vs) ==
    /\ vs # <<>>
    /\ \A i \in DOMAIN vs : /\ ~Has(vs[i], {Q})
                            /\ Has(vs[i], {"#"}) => Has(vs[i], Quotable)
                            /\ vs[i] # Comma

\* What is written is read back as it was set, for exactly those lists of values.
ReadsBack ==
    phase = "read" /\ FromProgram =>
        (Survives(values) <=> got[1].ok /\ got[1].values = values)

\* What is written without a double quote, even if it cannot be read, does not spoil the
\* entry that follows.  A value like "\# makes the line
\* end in an escape, and that entry becomes a part of the value.
NextEntryRead ==
    phase = "read" /\ FromProgram /\ (\A i \in DOMAIN values : ~Has(values[i], {Q})) =>
        got # <<>> /\ Last(got).values = <<<<"n">>>>

\* A file that was read and is written again, in either layout, means the same.  Only
\* where a backslash comes to stand before a double quote it may not: v = \\ "" reads as
\* a backslash and is written as v = \\"", which cannot be read.
RewriteKeeps ==
    LET content == first[1].content
        Touching == \E i \in 1..(Len(content) - 1) : content[i] = Bs /\ content[i + 1] = Q
    IN phase = "reread" /\ (Survives(values) \/ ~Touching) =>
           got[1].ok /\ got[1].values = first[1].values
=================================================================================
