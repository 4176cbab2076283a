---------------------------- MODULE ConfigSymbols ----------------------------
(***************************************************************************)
(* The data of the configuration library: the entries of a file, the       *)
(* symbol table, how a right side is evaluated against it, and the line a  *)
(* symbol becomes when the table is written.                               *)
(*                                                                         *)
(* A name is the sequence of its components between the dots.  A path text *)
(* is [root, dirs, base]: it begins with a slash or not, its directories,  *)
(* and the file name.  An item of a right side is a literal or a           *)
(* reference; items that concatenate several, `@file' references and       *)
(* references in `include' and `del' are left out.  Left out of a symbol:  *)
(* comment, stage and line.                                                *)
(***************************************************************************)
EXTENDS Integers, Sequences, SequencesExt

CONSTANTS
    Atoms,      \* components of names and paths
    Values,     \* the values of parameters
    WithQuote,  \* those not written as what they are: with a double quote, a lone comma
    Joining,    \* those of WithQuote whose line ends in a backslash, which continues it
    Misread,    \* right sides that a line of WithQuote may be read as
    Fragile,    \* right sides that, written as they were read, may be read as something else
    WithHash,   \* those that hold a # and no character of `quotable'
    Cut,        \* a value of WithHash up to its #
    Nothing,    \* the empty text: what Cut leaves of a value that begins with #
    Env,        \* the environment variables: from names to nonempty lists of values
    NoUri       \* the uri of a symbol that was set, not read

ASSUME ValuesAssumption ==
    /\ Nothing \notin Values
    /\ WithQuote \subseteq Values
    /\ Joining \subseteq WithQuote
    /\ WithHash \subseteq Values \ WithQuote
    /\ Cut \in [WithHash -> Values \cup {Nothing}]
    /\ \A n \in DOMAIN Env : Env[n] \in Seq(Values) /\ Env[n] # <<>>

Literal(v) == [lit |-> v]
Reference(n) == [ref |-> n]

Assignment(n, rhs) == [kind |-> "assign", name |-> n, rhs |-> rhs]
Deletion(names) == [kind |-> "del", names |-> names]
Inclusion(t) == [kind |-> "include", path |-> t]
Opening(c) == [kind |-> "open", name |-> c]
Closing == [kind |-> "close"]
Malformed == [kind |-> "malformed"]

\* An assignment to n at the end of a file whose line is continued, by nothing.
Unfinished(n) == [kind |-> "unfinished", name |-> n]

Names == Seq(Atoms)
Texts == [root : BOOLEAN, dirs : Seq(Atoms), base : Atoms]
Items == [lit : Values] \cup [ref : Names]
Entries ==
    [kind : {"assign"}, name : Names, rhs : Seq(Items)]
        \cup [kind : {"del"}, names : Seq(Names)]
        \cup [kind : {"include"}, path : Texts]
        \cup [kind : {"open"}, name : Atoms]
        \cup [kind : {"close", "malformed"}]
        \cup [kind : {"unfinished"}, name : Names]

\* The uri of a symbol that was read is the text of its file, which is not empty.
ASSUME UriAssumption == NoUri \notin Texts

ASSUME MisreadAssumption == Misread \subseteq Seq(Items)

-----------------------------------------------------------------------------
(* The symbol table: the symbols by name, and _symbolOrder *)

EmptyTable == [order |-> <<>>, sym |-> <<>>]

Defined(T) == DOMAIN T.sym

\* SymbolTable::add: a new symbol comes last, an old one keeps its place.
Put(T, n, s) ==
    [order |-> IF n \in Defined(T) THEN T.order ELSE Append(T.order, n),
     sym |-> [m \in Defined(T) \cup {n} |-> IF m = n THEN s ELSE T.sym[m]]]

\* The elements of s that are not in X, in their order.
Without(s, X) ==
    LET left[i \in 0..Len(s)] == IF i = 0 THEN <<>>
                                 ELSE IF s[i] \in X THEN left[i - 1]
                                 ELSE Append(left[i - 1], s[i])
    IN left[Len(s)]

\* Mutant: the order keeps pointers to the removed symbols.
Mut_Drop(T, names) == [T EXCEPT !.sym = Restrict(@, Defined(T) \ names)]

\* SymbolTable::remove, of each of the names.
Drop(T, names) ==
    [order |-> Without(T.order, names),
     sym |-> Restrict(T.sym, Defined(T) \ names)]

-----------------------------------------------------------------------------
(* Evaluation *)

\* Config::reference: symbols first, then the environment.
Lookup(T, n) ==
    IF n \in Defined(T) THEN T.sym[n].values
    ELSE IF n \in DOMAIN Env THEN Env[n] ELSE <<>>

\* Config::parseRValue.  An unresolved reference is dropped from a list; a list of
\* which nothing is left, and an unresolved reference that stands alone, are errors:
\* <<>>.
Eval(T, rhs) ==
    FlattenSeq([i \in DOMAIN rhs |->
        IF "lit" \in DOMAIN rhs[i] THEN <<rhs[i].lit>> ELSE Lookup(T, rhs[i].ref)])

\* The positions in one `del' that remove a symbol: they end at the first name
\* without one.
Removable(T, names) ==
    { i \in DOMAIN names : \A j \in 1..i : /\ names[j] \in Defined(T)
                                         /\ \A k \in 1..(j - 1) : names[k] # names[j] }

-----------------------------------------------------------------------------
(* Writing *)

\* What an assignment to n can be for a reader that does not see its quotes as they
\* were meant.
Garbled(n) == {Malformed} \cup { Assignment(n, rhs) : rhs \in Misread }

\* quote(escapeDoubleQuotes(v)), read again.  A # starts a comment unless something
\* else in v makes quote() quote it.  The backslash before a double quote does not
\* escape it inside of the quotes: the rest of v is outside of them, where a # starts a
\* comment as well, and a backslash in front of that continues the line.
WrittenValue(n, v) ==
    CASE v \in Joining -> {Unfinished(n)}
      [] v \in WithQuote \ Joining -> Garbled(n)
      [] v \in WithHash /\ Cut[v] = Nothing -> {Malformed}
      [] OTHER -> {Assignment(n, <<Literal(IF v \in WithHash THEN Cut[v] ELSE v)>>)}

\* Config::writeSymbol: the value of a symbol that was set, else the text that was
\* read, in which quotes may have moved next to a backslash.
WrittenLines(n, s) ==
    IF s.uri = NoUri THEN WrittenValue(n, s.values[1])
    ELSE {Assignment(n, s.content)}
           \cup (IF s.content \in Fragile THEN Garbled(n) \cup {Unfinished(n)} ELSE {})

\* The line of the symbol may be continued by the next one.
MayContinue(s) ==
    IF s.uri = NoUri THEN s.values[1] \in Joining ELSE s.content \in Fragile

\* What a file can be, entry by entry, with one more line.  A line that continues
\* another becomes a part of that entry, unless a comment stands between and ends it.
WithLine(file, l) ==
    LET ended == { Append(Front(file), e) : e \in Garbled(Last(file).name) }
    IN IF file = <<>> \/ Last(file).kind # "unfinished" THEN {Append(file, l)}
       ELSE { Append(f, l) : f \in ended }
              \cup (IF l.kind = "unfinished" THEN {file} ELSE ended)
==============================================================================
