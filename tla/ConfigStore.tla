----------------------------- MODULE ConfigStore -----------------------------
(***************************************************************************)
(* A program that reads configuration files, changes a parameter and       *)
(* writes the last file back: seiscomp.config.Config in the hands of the   *)
(* setup handler of kernel.py.  Reading is a stack of files, one Config    *)
(* object for each `include', over one symbol table; relative includes     *)
(* work by changing the working directory of the process.  Writing         *)
(* truncates the file and writes it line by line; the program may be       *)
(* killed meanwhile, and the files are read again.                         *)
(*                                                                         *)
(* A file of the disk is named by the sequence of its directories and its  *)
(* name; there are no links, no `..' and no `~'.  Left out: stdin and      *)
(* stdout as files, raw mode, localOnly = false, the count of the Config   *)
(* objects that share a table.                                             *)
(***************************************************************************)
EXTENDS ConfigSymbols, FiniteSets

CONSTANTS
    Disks,     \* the files and their entries at the beginning: a set of functions
    Layers,    \* the path texts given to readConfig, in order; the last is written
    Home,      \* the working directory at start: a sequence of directories
    Editable   \* the names of the parameters that setup sets or removes

ASSUME StoreAssumption ==
    /\ Layers \in Seq(Texts) /\ Layers # <<>>
    /\ Home \in Seq(Atoms)
    /\ Editable \subseteq Names
    /\ \A d \in Disks :
         /\ DOMAIN d \subseteq Seq(Atoms) \ {<<>>}
         /\ \A p \in DOMAIN d :
              /\ d[p] \in Seq(Entries)
              /\ \A i \in DOMAIN d[p] : d[p][i].kind = "unfinished" => i = Len(d[p])

VARIABLES
    disk,      \* the files: from paths to sequences of entries
    table,     \* the symbol table
    included,  \* _includedFiles: texts, not files
    cwd,       \* the working directory of the process
    frames,    \* the Config objects that are reading, the innermost last
    results,   \* what readConfig returned, for the layers read so far
    phase,     \* what the program does
    todo       \* while it writes: the names whose lines are still to be written

vars == <<disk, table, included, cwd, frames, results, phase, todo>>

Phases == {"read", "loaded", "edited", "write", "saved", "dead"}

\* A Config object that reads: _fileName, the open file, the next entry, the
\* _defaultNamespacePrefix, _namespacePrefix, _namespaces, `success', and oldPath of
\* the handleInclude that waits for it.
Frames == [text : Texts, file : Seq(Atoms), pos : Nat \ {0}, default : Names,
           prefix : Names, ns : Names, ok : BOOLEAN, back : Seq(Atoms)]

TypeOK ==
    /\ \A p \in DOMAIN disk : p \in Seq(Atoms) \ {<<>>} /\ disk[p] \in Seq(Entries)
    /\ ToSet(table.order) = Defined(table)  \* no symbol is lost, no pointer dangles
    /\ Len(table.order) = Cardinality(Defined(table))
    /\ \A n \in Defined(table) : n \in Names /\ table.sym[n].values \in Seq(Values) \ {<<>>}
    /\ included \subseteq Texts
    /\ cwd \in Seq(Atoms)
    /\ frames \in Seq(Frames)
    /\ results \in Seq(BOOLEAN)
    /\ phase \in Phases
    /\ todo \in Seq(Names)

\* A program starts: no symbols, no files included.
Init ==
    /\ disk \in Disks
    /\ table = EmptyTable
    /\ included = {}
    /\ cwd = Home
    /\ frames = <<>>
    /\ results = <<>>
    /\ phase = "read"
    /\ todo = <<>>

-----------------------------------------------------------------------------
(* Paths *)

\* The directory of a relative text, seen from d, and the file it names there.
From(d, t) == (IF t.root THEN <<>> ELSE d) \o t.dirs
Real(d, t) == Append(From(d, t), t.base)

\* chdir works: the directory exists.  The code's chdir("") for a file in / fails.
Enterable(d) == d # <<>> /\ \E p \in DOMAIN disk : IsPrefix(d, Front(p))

-----------------------------------------------------------------------------
(* Reading *)

Entry(f) == disk[f.file][f.pos]

\* The innermost Config, if there is one; and if an entry of that kind comes next.
Innermost == { frames[i] : i \in {Len(frames)} \ {0} }
AtEntry(kind) ==
    { f \in Innermost : /\ phase = "read"
                        /\ f.pos <= Len(disk[f.file])
                        /\ Entry(f).kind = kind }

\* Mutant: an entry with an error is tried again.
Mut_Past(g, ok) == IF ok THEN [g EXCEPT !.pos = @ + 1] ELSE [g EXCEPT !.ok = FALSE]

\* A Config that is through with an entry.
Past(g, ok) == [g EXCEPT !.pos = @ + 1, !.ok = @ /\ ok]

\* The innermost file is through with an entry; g is what the entry made of it.
Advance(g, ok) == frames' = [frames EXCEPT ![Len(frames)] = Past(g, ok)]

\* A Config that begins to read text t in directory d.
Opened(d, t, prefix) ==
    [text |-> t, file |-> Real(d, t), pos |-> 1, default |-> prefix,
     prefix |-> prefix, ns |-> <<>>, ok |-> TRUE, back |-> cwd]

Return(ok) ==
    /\ results' = Append(results, ok)
    /\ phase' = IF Len(results) + 1 = Len(Layers) THEN "loaded" ELSE phase

\* readConfig of the next layer.
ReadConfig ==
    LET t == Layers[Len(results) + 1]
    IN /\ phase = "read"
       /\ frames = <<>>
       /\ IF Real(cwd, t) \in DOMAIN disk
          THEN /\ frames' = <<Opened(cwd, t, <<>>)>>
               /\ included' = included \cup {t}
               /\ UNCHANGED <<results, phase>>
          ELSE Return(FALSE) /\ UNCHANGED <<frames, included>>
       /\ UNCHANGED <<disk, table, cwd, todo>>

\* handleAssignment, unless the right side cannot be evaluated.
Assign ==
    \E f \in AtEntry("assign") :
        /\ LET values == Eval(table, Entry(f).rhs)
               symbol == [values |-> values, content |-> Entry(f).rhs, uri |-> f.text]
           IN /\ table' = IF values = <<>> THEN table
                          ELSE Put(table, f.prefix \o Entry(f).name, symbol)
              /\ Advance(f, values # <<>>)
        /\ UNCHANGED <<disk, included, cwd, results, phase, todo>>

\* The operator `del'.
Delete ==
    \E f \in AtEntry("del") :
        /\ LET names == [i \in DOMAIN Entry(f).names |-> f.prefix \o Entry(f).names[i]]
               gone == Removable(table, names)
           IN /\ table' = Drop(table, { names[i] : i \in gone })
              /\ Advance(f, gone = DOMAIN names)
        /\ UNCHANGED <<disk, included, cwd, results, phase, todo>>

\* A namespace begins.
OpenBlock ==
    \E f \in AtEntry("open") :
        /\ Advance([f EXCEPT !.ns = Append(@, Entry(f).name),
                             !.prefix = Append(@, Entry(f).name)], TRUE)
        /\ UNCHANGED <<disk, table, included, cwd, results, phase, todo>>

\* Mutant: the prefix is rebuilt without that of the including file.
Mut_CloseBlock ==
    \E f \in AtEntry("close") :
        /\ IF f.ns = <<>> THEN Advance(f, FALSE)
           ELSE Advance([f EXCEPT !.ns = Front(@), !.prefix = Front(f.ns)], TRUE)
        /\ UNCHANGED <<disk, table, included, cwd, results, phase, todo>>

\* A namespace ends: the prefix is rebuilt from the namespaces that remain.
CloseBlock ==
    \E f \in AtEntry("close") :
        /\ IF f.ns = <<>> THEN Advance(f, FALSE)
           ELSE Advance([f EXCEPT !.ns = Front(@), !.prefix = f.default \o Front(f.ns)],
                        TRUE)
        /\ UNCHANGED <<disk, table, included, cwd, results, phase, todo>>

\* An entry handleEntry has no use for, or a quote that does not end.
Reject ==
    \E f \in AtEntry("malformed") :
        /\ Advance(f, FALSE)
        /\ UNCHANGED <<disk, table, included, cwd, results, phase, todo>>

\* parseFile drops what is left of a continued line at the end of the file, without an
\* error.
DropRest ==
    \E f \in AtEntry("unfinished") :
        /\ Advance(f, TRUE)
        /\ UNCHANGED <<disk, table, included, cwd, results, phase, todo>>

\* Mutant: relative includes are relative to the working directory.
Mut_Chdir(f, t) == FALSE

\* The directory handleInclude changes to: that of the including file, whose text
\* is relative to the working directory.  Texts without a slash need no chdir.
Chdir(f, t) == ~t.root /\ (f.text.root \/ f.text.dirs # <<>>)
IncludeDir(f, t) == IF Chdir(f, t) THEN From(cwd, f.text) ELSE cwd

\* handleInclude, up to the first entry of the included file.  A text that was
\* included before is skipped.  If the file cannot be opened, the working directory
\* is not restored.
Include ==
    \E f \in AtEntry("include") :
        /\ LET t == Entry(f).path
               d == IncludeDir(f, t)
           IN \/ /\ Chdir(f, t) /\ ~Enterable(d)
                 /\ Advance(f, FALSE)
                 /\ UNCHANGED <<included, cwd>>
              \/ /\ Chdir(f, t) => Enterable(d)
                 /\ t \in included
                 /\ Advance(f, TRUE)
                 /\ UNCHANGED <<included, cwd>>
              \/ /\ Chdir(f, t) => Enterable(d)
                 /\ t \notin included
                 /\ cwd' = d
                 /\ IF Real(d, t) \in DOMAIN disk
                    THEN /\ frames' = Append(frames, Opened(d, t, f.prefix))
                         /\ included' = included \cup {t}
                    ELSE Advance(f, FALSE) /\ UNCHANGED included
        /\ UNCHANGED <<disk, table, results, phase, todo>>

\* parseFile returns; so does handleInclude of the including file, which restores
\* the working directory unless the included file had an error.
EndOfFile ==
    \E f \in Innermost :
        LET ok == f.ok /\ f.ns = <<>>
            n == Len(frames) - 1
        IN /\ phase = "read"
           /\ f.pos > Len(disk[f.file])
           /\ IF n = 0
              THEN /\ frames' = <<>>
                   /\ Return(ok)
                   /\ UNCHANGED cwd
              ELSE /\ frames' = [SubSeq(frames, 1, n) EXCEPT ![n] = Past(@, ok)]
                   /\ cwd' = IF ok /\ ~f.text.root THEN f.back ELSE cwd
                   /\ UNCHANGED <<results, phase>>
           /\ UNCHANGED <<disk, table, included, todo>>

Reading == ReadConfig \/ Assign \/ Delete \/ OpenBlock \/ CloseBlock \/ Reject
             \/ DropRest \/ Include \/ EndOfFile

-----------------------------------------------------------------------------
(* Changing and writing *)

Target == Layers[Len(Layers)]

\* Mutant: the symbol keeps the file it was read from.
Mut_SetString(n, v) ==
    /\ phase = "loaded"
    /\ table' = IF n \in Defined(table)
                THEN [table EXCEPT !.sym[n].values = <<v>>]
                ELSE Put(table, n, [values |-> <<v>>, content |-> <<>>, uri |-> NoUri])
    /\ phase' = "edited"
    /\ UNCHANGED <<disk, included, cwd, frames, results, todo>>

\* Config::set: the symbol belongs to no file any more; its content is not updated.
SetString(n, v) ==
    /\ phase = "loaded"
    /\ table' = IF n \in Defined(table)
                THEN [table EXCEPT !.sym[n].values = <<v>>, !.sym[n].uri = NoUri]
                ELSE Put(table, n, [values |-> <<v>>, content |-> <<>>, uri |-> NoUri])
    /\ phase' = "edited"
    /\ UNCHANGED <<disk, included, cwd, frames, results, todo>>

\* Config::remove, which has nothing to do if there is no such symbol.
RemoveParameter(n) ==
    /\ phase = "loaded"
    /\ table' = Drop(table, {n})
    /\ phase' = "edited"
    /\ UNCHANGED <<disk, included, cwd, frames, results, todo>>

\* What writeConfig writes: what was read from the file, by its text, and what was
\* set.
Local(n) == table.sym[n].uri \in {NoUri, Target}
LocalOrder == Without(table.order, { n \in Defined(table) : ~Local(n) })

\* writeConfig opens and truncates the file, or creates it if its directory exists.
OpenForWriting ==
    /\ phase = "edited"
    /\ LET d == From(cwd, Target)
           p == Real(cwd, Target)
       IN IF d = <<>> \/ Enterable(d)
          THEN /\ disk' = [q \in DOMAIN disk \cup {p} |-> IF q = p THEN <<>> ELSE disk[q]]
               /\ todo' = LocalOrder
               /\ phase' = "write"
          ELSE phase' = "dead" /\ UNCHANGED <<disk, todo>>
    /\ UNCHANGED <<table, included, cwd, frames, results>>

\* One symbol, its comment and its line; std::endl flushes the line.
WriteLine ==
    /\ phase = "write"
    /\ todo # <<>>
    /\ LET n == Head(todo)
           p == Real(cwd, Target)
       IN \E l \in WrittenLines(n, table.sym[n]) :
              \E file \in WithLine(disk[p], l) : disk' = [disk EXCEPT ![p] = file]
    /\ todo' = Tail(todo)
    /\ UNCHANGED <<table, included, cwd, frames, results, phase>>

Written ==
    /\ phase = "write"
    /\ todo = <<>>
    /\ phase' = "saved"
    /\ UNCHANGED <<disk, table, included, cwd, frames, results, todo>>

Writing == OpenForWriting \/ WriteLine \/ Written

\* The program is killed while it writes.
Kill ==
    /\ phase = "write"
    /\ phase' = "dead"
    /\ todo' = <<>>
    /\ UNCHANGED <<disk, table, included, cwd, frames, results>>

\* The next program reads the files.
Restart ==
    /\ phase \in {"saved", "dead"}
    /\ table' = EmptyTable
    /\ included' = {}
    /\ cwd' = Home
    /\ results' = <<>>
    /\ phase' = "read"
    /\ UNCHANGED <<disk, frames, todo>>

Setup ==
    \E n \in Editable : RemoveParameter(n) \/ \E v \in Values : SetString(n, v)

Next == Reading \/ Setup \/ Writing \/ Kill \/ Restart

Spec == Init /\ [][Next]_vars

\* A program that reads goes on reading.
FairSpec == Spec /\ WF_vars(Reading)

-----------------------------------------------------------------------------
(* Properties *)

\* Nothing has gone wrong so far.
Clean ==
    /\ \A i \in DOMAIN results : results[i]
    /\ \A i \in DOMAIN frames : frames[i].ok

\* A relative include is looked up in the directory of the file that includes it,
\* whatever other files were read between; and when all is read, the program is in
\* its own directory again.
InPlace ==
    /\ \A i \in 2..Len(frames) :
         frames[i].file = Real(Front(frames[i - 1].file), frames[i].text)
    /\ frames = <<>> => cwd = Home

\* Namespaces can be nested and survive includes: a name gets the namespaces that
\* are open around it, in its own file and in those that include it.
InNamespace ==
    /\ \A i \in DOMAIN frames : frames[i].prefix = frames[i].default \o frames[i].ns
    /\ \A i \in 2..Len(frames) : frames[i].default = frames[i - 1].prefix

\* No file is read while it is being read, under the text it was included by: the
\* nesting of includes is bounded, also if files include each other.
NoCycle ==
    \A i, j \in DOMAIN frames : frames[i].text = frames[j].text => i = j

\* An included file is read at its place, in the namespace of its include, and not
\* within itself.  The place is lost when an include fails, the namespace never.
IncludesNest == InNamespace /\ NoCycle /\ (Clean => InPlace)

\* Reading ends, also if files include each other.
ReadEnds == phase = "read" ~> phase # "read"

\* What a program that reads the file on its own makes of an entry, and of the file.
AfterEntry(T, e) ==
    IF e.kind # "assign" \/ Eval(T, e.rhs) = <<>> THEN T
    ELSE Put(T, e.name, [values |-> Eval(T, e.rhs)])

ReadAlone(file) ==
    LET read[i \in 0..Len(file)] ==
            IF i = 0 THEN EmptyTable ELSE AfterEntry(read[i - 1], file[i])
    IN read[Len(file)]

ReadBack == ReadAlone(disk[Real(cwd, Target)])

\* The symbol is there, with the value the program left it.
Kept(n) ==
    n \in Defined(ReadBack) /\ ReadBack.sym[n].values = table.sym[n].values

\* Values the library can write, and right sides that mean the same everywhere.
Writable(n) ==
    LET s == table.sym[n]
    IN IF s.uri = NoUri THEN s.values[1] \notin WithQuote \cup WithHash
       ELSE /\ \A i \in DOMAIN s.content : "lit" \in DOMAIN s.content[i]
            /\ s.content \notin Fragile

\* The parameter written just before n may take the line of n for its own.
Swallowed(n) ==
    \E i \in 2..Len(LocalOrder) :
        LocalOrder[i] = n /\ MayContinue(table.sym[LocalOrder[i - 1]])

\* After setup the file holds its parameters and those that were set, with their
\* values, and no others.  Not kept are references, values that cannot be quoted, and,
\* if such a value makes its line go on, the one parameter that is written after it.
SavedReadsBack ==
    phase = "saved" =>
        /\ \A n \in Defined(ReadBack) : n \in Defined(table) /\ Local(n)
        /\ \A n \in Defined(table) : Local(n) /\ Writable(n) /\ ~Swallowed(n) => Kept(n)
==============================================================================
