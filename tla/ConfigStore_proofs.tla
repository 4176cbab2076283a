-------------------------- MODULE ConfigStore_proofs --------------------------
(***************************************************************************)
(* Includes nest: an included file is read in the directory and the        *)
(* namespace of its include, and never within itself, whatever the files   *)
(* hold and however they include each other.                               *)
(*                                                                         *)
(* No symbol is lost and no pointer dangles; and a file that was changed   *)
(* and saved reads back, whatever it held before.  These need what the     *)
(* recursive functions of Without, FlattenSeq and ReadAlone compute: the   *)
(* functions are shown to exist and then followed step by step, by         *)
(* induction over a set of positions.                                      *)
(*                                                                         *)
(* What was read without an error is what the files mean: each file being  *)
(* read is as far as the unfolding of its source, from where the file that *)
(* includes it waits.                                                      *)
(***************************************************************************)
EXTENDS ConfigMeaning, SequenceTheorems, FiniteSetTheorems, WellFoundedInduction, TLAPS

\* The working directory when frame i runs, now or after the files it includes.
At(i) == IF i = Len(frames) THEN cwd ELSE frames[i + 1].back

\* The files are sequences; of their entries the reading steps need those that
\* name a file or a namespace.
Shape(e) ==
    /\ e.kind = "include" => e.path \in Texts
    /\ e.kind = "open" => e.name \in Atoms

DiskShape ==
    \A p \in DOMAIN disk :
        /\ p \in Seq(Atoms) \ {<<>>}
        /\ \E S : disk[p] \in Seq(S) /\ \A e \in S : Shape(e)

Shapes ==
    /\ DiskShape
    /\ cwd \in Seq(Atoms)
    /\ frames \in Seq(Frames)
    /\ results \in Seq(BOOLEAN)
    /\ phase \in Phases
    /\ IF phase = "read" THEN Len(results) < Len(Layers) ELSE frames = <<>>
    /\ \A i \in 1..Len(frames) :
         frames[i].file \in DOMAIN disk /\ frames[i].text \in included

\* Why every file is read at its place: a relative text names, from the working
\* directory its reader runs in, the directory of its file, and a reader of an
\* absolute text leaves the working directory alone.
Places ==
    /\ \A i \in 1..Len(frames) :
         /\ Front(frames[i].file) = From(At(i), frames[i].text)
         /\ i = 1 \/ frames[i].text.root => At(i) = frames[i].back
    /\ frames # <<>> => frames[1].back = Home
    /\ InPlace

IInv == Shapes /\ InNamespace /\ NoCycle /\ (Clean => Places)

-----------------------------------------------------------------------------
(* Paths *)

LEMMA FrontOfAppend ==
    ASSUME NEW S, NEW s \in Seq(S), NEW e \in S
    PROVE  /\ Append(s, e) \in Seq(S) \ {<<>>}
           /\ Front(Append(s, e)) = s
<1>1. /\ Append(s, e) \in Seq(S)
      /\ Len(s) \in Nat
      /\ Len(Append(s, e)) = Len(s) + 1
      /\ \A i \in 1..Len(s) : Append(s, e)[i] = s[i]
  OBVIOUS
<1>2. Front(Append(s, e)) = SubSeq(Append(s, e), 1, Len(s))
  BY <1>1 DEF Front
<1>3. SubSeq(Append(s, e), 1, Len(s)) = s
  <2>1. /\ SubSeq(Append(s, e), 1, Len(s)) \in Seq(S)
        /\ Len(SubSeq(Append(s, e), 1, Len(s))) = Len(s)
        /\ \A i \in 1..Len(s) : SubSeq(Append(s, e), 1, Len(s))[i] = s[i]
    BY <1>1
  <2> QED
    BY <1>1, <2>1, SeqEqual
<1> QED
  BY <1>1, <1>2, <1>3

LEMMA AppendToConcat ==
    \A s, t \in Seq(Atoms) : \A e \in Atoms : Append(s \o t, e) = s \o Append(t, e)
<1> SUFFICES ASSUME NEW s \in Seq(Atoms), NEW t \in Seq(Atoms), NEW e \in Atoms
             PROVE  Append(s \o t, e) = s \o Append(t, e)
  OBVIOUS
<1> DEFINE u == <<e>>
<1>1. s \o t \in Seq(Atoms) /\ u \in Seq(Atoms)
  BY ConcatProperties
<1>2. Append(s \o t, e) = (s \o t) \o u
  BY <1>1, AppendIsConcat, Zenon
<1>3. Append(t, e) = t \o u
  BY AppendIsConcat, Zenon
<1> HIDE DEF u
<1>4. (s \o t) \o u = s \o (t \o u)
  BY <1>1, ConcatAssociative
<1> QED
  BY <1>2, <1>3, <1>4, Zenon

LEMMA FrontType ==
    ASSUME NEW S, NEW s \in Seq(S), s # <<>>
    PROVE  Front(s) \in Seq(S)
BY DEF Front

LEMMA FromType ==
    ASSUME NEW d \in Seq(Atoms), NEW t \in Texts
    PROVE  /\ From(d, t) \in Seq(Atoms)
           /\ Real(d, t) \in Seq(Atoms) \ {<<>>}
           /\ Front(Real(d, t)) = From(d, t)
<1>1. t.dirs \in Seq(Atoms) /\ t.base \in Atoms
  BY DEF Texts
<1>2. From(d, t) \in Seq(Atoms)
  BY <1>1 DEF From
<1> QED
  BY <1>1, <1>2, FrontOfAppend DEF Real

\* The including file's directory is where handleInclude looks.
LEMMA IncludePlace ==
    ASSUME cwd \in Seq(Atoms), NEW f \in Frames, NEW t \in Texts,
           f.file \in Seq(Atoms) \ {<<>>},
           Front(f.file) = From(cwd, f.text)
    PROVE  /\ IncludeDir(f, t) \in Seq(Atoms)
           /\ Real(IncludeDir(f, t), t) = Real(Front(f.file), t)
           /\ t.root => IncludeDir(f, t) = cwd
<1>1. f.text \in Texts
  BY DEF Frames
<1>2. From(cwd, f.text) \in Seq(Atoms)
  BY <1>1, FromType
<1>3. CASE t.root
  BY <1>3 DEF IncludeDir, Chdir, Real, From
<1>4. CASE ~t.root /\ Chdir(f, t)
  BY <1>2, <1>4 DEF IncludeDir
<1>5. CASE ~t.root /\ ~Chdir(f, t)
  <2>1. ~f.text.root /\ f.text.dirs = <<>>
    BY <1>5 DEF Chdir
  <2>2. From(cwd, f.text) = cwd
    BY <2>1 DEF From
  <2> QED
    BY <1>5, <2>2 DEF IncludeDir
<1> QED
  BY <1>3, <1>4, <1>5

-----------------------------------------------------------------------------
(* Steps that stay in the innermost file *)

LEMMA InnermostIsLast ==
    ASSUME frames \in Seq(Frames), NEW f \in Innermost
    PROVE  /\ Len(frames) \in Nat \ {0}
           /\ f = frames[Len(frames)]
           /\ f \in Frames
<1>1. PICK i \in {Len(frames)} \ {0} : f = frames[i]
  BY DEF Innermost
<1>2. Len(frames) \in Nat \ {0}
  BY <1>1
<1> QED
  BY <1>1, <1>2, ElementOfSeq

LEMMA FrameFields ==
    ASSUME NEW f \in Frames
    PROVE  /\ f.text \in Texts /\ f.file \in Seq(Atoms) /\ f.pos \in Nat \ {0}
           /\ f.default \in Seq(Atoms) /\ f.prefix \in Seq(Atoms) /\ f.ns \in Seq(Atoms)
           /\ f.ok \in BOOLEAN /\ f.back \in Seq(Atoms)
BY DEF Frames, Names

LEMMA PastEffect ==
    ASSUME NEW g \in Frames, NEW ok \in BOOLEAN
    PROVE  LET h == Past(g, ok)
           IN /\ h \in Frames
              /\ h.text = g.text /\ h.file = g.file /\ h.back = g.back
              /\ h.default = g.default /\ h.prefix = g.prefix /\ h.ns = g.ns
              /\ h.ok = (g.ok /\ ok) /\ h.pos = g.pos + 1
<1> DEFINE h == Past(g, ok)
           p == g.pos + 1
           b == g.ok /\ ok
<1>1. p \in Nat \ {0} /\ b \in BOOLEAN
  BY FrameFields
<1>2. h = [g EXCEPT !.pos = p, !.ok = b]
  BY Zenon DEF Past
<1> HIDE DEF b, h, p
<1>3. /\ h \in Frames
      /\ h.text = g.text /\ h.file = g.file /\ h.back = g.back
      /\ h.default = g.default /\ h.prefix = g.prefix /\ h.ns = g.ns
      /\ h.ok = b /\ h.pos = p
  BY <1>1, <1>2 DEF Frames
<1> QED
  BY <1>3, Zenon DEF b, h, p

LEMMA AdvanceEffect ==
    ASSUME frames \in Seq(Frames), frames # <<>>, NEW g \in Frames, NEW ok \in BOOLEAN,
           Advance(g, ok)
    PROVE  /\ frames' \in Seq(Frames)
           /\ Len(frames') = Len(frames)
           /\ Len(frames) \in Nat \ {0}
           /\ \A i \in 1..Len(frames) : i # Len(frames) => frames'[i] = frames[i]
           /\ LET h == frames'[Len(frames)]
              IN /\ h.text = g.text /\ h.file = g.file /\ h.back = g.back
                 /\ h.default = g.default /\ h.prefix = g.prefix /\ h.ns = g.ns
                 /\ h.ok = (g.ok /\ ok) /\ h.pos = g.pos + 1
<1> DEFINE h == Past(g, ok)
<1>1. /\ h \in Frames
      /\ h.text = g.text /\ h.file = g.file /\ h.back = g.back
      /\ h.default = g.default /\ h.prefix = g.prefix /\ h.ns = g.ns
      /\ h.ok = (g.ok /\ ok) /\ h.pos = g.pos + 1
  BY PastEffect
<1>2. frames' = [frames EXCEPT ![Len(frames)] = h]
  BY DEF Advance
<1>3. Len(frames) \in Nat \ {0}
  OBVIOUS
<1> HIDE DEF h
<1>5. /\ frames' \in Seq(Frames)
      /\ Len(frames') = Len(frames)
      /\ \A i \in 1..Len(frames) :
           frames'[i] = IF i = Len(frames) THEN h ELSE frames[i]
  BY <1>1, <1>2, <1>3, ExceptSeq
<1> QED
  BY <1>1, <1>3, <1>5

LEMMA AdvancePreserves ==
    ASSUME IInv, NEW f \in Innermost, NEW g \in Frames, NEW ok \in BOOLEAN,
           phase = "read", Advance(g, ok),
           g.text = f.text, g.file = f.file, g.back = f.back, g.default = f.default,
           g.ok = f.ok, g.prefix = g.default \o g.ns,
           UNCHANGED <<disk, included, cwd, results, phase>>
    PROVE  IInv'
<1> DEFINE n == Len(frames)
<1>1. /\ frames \in Seq(Frames)
      /\ n \in Nat \ {0}
      /\ f = frames[n]
  BY InnermostIsLast DEF IInv, Shapes
<1>2. /\ frames' \in Seq(Frames)
      /\ Len(frames') = n
      /\ \A i \in 1..n : i # n => frames'[i] = frames[i]
      /\ frames'[n].text = f.text /\ frames'[n].file = f.file
      /\ frames'[n].back = f.back /\ frames'[n].default = f.default
      /\ frames'[n].prefix = g.prefix /\ frames'[n].ns = g.ns
      /\ frames'[n].ok = (f.ok /\ ok)
  <2>1. frames # <<>>
    BY <1>1
  <2>2. /\ frames' \in Seq(Frames) /\ Len(frames') = n
        /\ \A i \in 1..n : i # n => frames'[i] = frames[i]
        /\ LET h == frames'[n]
           IN /\ h.text = g.text /\ h.file = g.file /\ h.back = g.back
              /\ h.default = g.default /\ h.prefix = g.prefix /\ h.ns = g.ns
              /\ h.ok = (g.ok /\ ok)
    BY <1>1, <2>1, AdvanceEffect, Zenon
  <2> QED
    BY <2>2, Zenon
<1>3. /\ DOMAIN frames = 1..n
      /\ DOMAIN frames' = 1..n
  <2>1. frames \in Seq(Frames) /\ frames' \in Seq(Frames) /\ Len(frames') = n
    BY <1>1, <1>2, Zenon
  <2> QED
    BY <2>1
<1>4. \A i \in 1..n :
        /\ frames'[i].text = frames[i].text
        /\ frames'[i].file = frames[i].file
        /\ frames'[i].back = frames[i].back
        /\ frames'[i].default = frames[i].default
        /\ frames'[i].ok => frames[i].ok
  BY <1>1, <1>2
<1> HIDE DEF n
<1>5. Shapes'
  BY <1>1, <1>2, <1>4 DEF IInv, Shapes, DiskShape, n
<1>6. InNamespace'
  <2>1. ASSUME NEW i \in 1..n
        PROVE  frames'[i].prefix = frames'[i].default \o frames'[i].ns
    <3>1. CASE i # n
      <4>1. frames'[i] = frames[i]
        BY <1>2, <3>1
      <4>2. frames[i].prefix = frames[i].default \o frames[i].ns
        BY <1>3 DEF IInv, InNamespace
      <4> QED
        BY <4>1, <4>2
    <3>2. CASE i = n
      BY <1>2, <3>2
    <3> QED
      BY <3>1, <3>2
  <2>2. \A i \in 2..n : frames'[i].default = frames'[i - 1].prefix
    <3> SUFFICES ASSUME NEW i \in 2..n
                 PROVE  frames'[i].default = frames'[i - 1].prefix
      OBVIOUS
    <3>1. i \in 1..n /\ i - 1 \in 1..n /\ i - 1 # n
      BY <1>1
    <3>2. frames[i].default = frames[i - 1].prefix
      BY DEF IInv, InNamespace, n
    <3> QED
      BY <1>2, <1>4, <3>1, <3>2
  <2> QED
    BY <1>2, <1>3, <2>1, <2>2 DEF InNamespace
<1>7. NoCycle'
  BY <1>3, <1>4 DEF IInv, NoCycle
<1>8. Clean' => Places'
  <2> SUFFICES ASSUME Clean' PROVE Places'
    OBVIOUS
  <2>1. Clean
    BY <1>3, <1>4 DEF Clean
  <2>2. Places
    BY <2>1 DEF IInv
  <2>3. \A i \in 1..n : At(i)' = At(i)
    <3> SUFFICES ASSUME NEW i \in 1..n PROVE At(i)' = At(i)
      OBVIOUS
    <3>1. CASE i = n
      BY <1>2, <3>1 DEF At, n
    <3>2. CASE i # n
      <4>1. i + 1 \in 1..n
        BY <1>1, <3>2
      <4> QED
        BY <1>2, <1>4, <3>2, <4>1 DEF At, n
    <3> QED
      BY <3>1, <3>2
  <2>4. InPlace'
    <3> SUFFICES ASSUME NEW i \in 2..n
                 PROVE  frames'[i].file = Real(Front(frames'[i - 1].file), frames'[i].text)
      BY <1>1, <1>2 DEF InPlace
    <3>1. i \in 1..n /\ i - 1 \in 1..n
      BY <1>1
    <3>2. frames[i].file = Real(Front(frames[i - 1].file), frames[i].text)
      BY <2>2 DEF Places, InPlace, n
    <3> QED
      BY <1>4, <3>1, <3>2
  <2>5. \A i \in 1..n : /\ Front(frames'[i].file) = From(At(i)', frames'[i].text)
                        /\ i = 1 \/ frames'[i].text.root => At(i)' = frames'[i].back
    BY <1>4, <2>2, <2>3 DEF Places, n
  <2>6. frames'[1].back = Home
    BY <1>1, <1>4, <2>2 DEF Places, n
  <2> QED
    BY <1>2, <2>4, <2>5, <2>6 DEF Places
<1> QED
  BY <1>5, <1>6, <1>7, <1>8 DEF IInv

-----------------------------------------------------------------------------
(* Steps of a program that reads no file *)

LEMMA TargetIsText == Target \in Texts /\ Len(Layers) \in Nat \ {0}
<1>1. Layers \in Seq(Texts) /\ Len(Layers) \in Nat \ {0}
  BY StoreAssumption
<1> QED
  BY <1>1, ElementOfSeq DEF Target

LEMMA NoFrames ==
    ASSUME DiskShape', cwd' \in Seq(Atoms), frames' = <<>>, results' \in Seq(BOOLEAN),
           phase' \in Phases, phase' = "read" => Len(results') < Len(Layers),
           Clean' => cwd' = Home
    PROVE  IInv'
<1>1. frames' \in Seq(Frames) /\ Len(frames') = 0 /\ DOMAIN frames' = {}
  OBVIOUS
<1>2. Shapes'
  BY <1>1 DEF Shapes
<1>3. InNamespace' /\ NoCycle'
  BY <1>1 DEF InNamespace, NoCycle
<1>4. Clean' => Places'
  BY <1>1 DEF Places, InPlace
<1> QED
  BY <1>2, <1>3, <1>4 DEF IInv

LEMMA WrittenShape ==
    ASSUME NEW n, NEW s
    PROVE  /\ \A l \in WrittenLines(n, s) : Shape(l)
           /\ \A e \in Garbled(n) : Shape(e)
<1>1. \A e \in Garbled(n) : e.kind \in {"malformed", "assign"}
  BY DEF Garbled, Assignment, Malformed
<1>2. \A l \in WrittenLines(n, s) : l.kind \in {"malformed", "assign", "unfinished"}
  BY <1>1 DEF WrittenLines, WrittenValue, Assignment, Malformed, Unfinished
<1> QED
  BY <1>1, <1>2 DEF Shape

\* A file with one more line has its entries, the line's, and what the line it
\* continues has become.
LEMMA WithLineType ==
    ASSUME NEW S, NEW file \in Seq(S), NEW l \in S, NEW g \in WithLine(file, l),
           file # <<>> /\ Last(file).kind = "unfinished" =>
               Garbled(Last(file).name) \subseteq S
    PROVE  g \in Seq(S)
<1>1. CASE file = <<>> \/ Last(file).kind # "unfinished"
  BY <1>1 DEF WithLine
<1>2. CASE file # <<>> /\ Last(file).kind = "unfinished"
  <2>1. Front(file) \in Seq(S)
    BY <1>2, FrontType
  <2>2. \A e \in Garbled(Last(file).name) : Append(Front(file), e) \in Seq(S)
    BY <1>2, <2>1
  <2>3. \/ \E e \in Garbled(Last(file).name) : g = Append(Append(Front(file), e), l)
        \/ g = file
        \/ \E e \in Garbled(Last(file).name) : g = Append(Front(file), e)
    BY <1>2 DEF WithLine
  <2>4. ASSUME NEW f \in Seq(S) PROVE Append(f, l) \in Seq(S)
    OBVIOUS
  <2> QED
    BY <2>2, <2>3, <2>4
<1> QED
  BY <1>1, <1>2

LEMMA WriteShape ==
    ASSUME DiskShape, WriteLine
    PROVE  DiskShape'
<1> DEFINE q == Real(cwd, Target)
<1>1. PICK l \in WrittenLines(Head(todo), table.sym[Head(todo)]) :
        \E g \in WithLine(disk[q], l) : disk' = [disk EXCEPT ![q] = g]
  BY DEF WriteLine
<1>2. PICK g \in WithLine(disk[q], l) : disk' = [disk EXCEPT ![q] = g]
  BY <1>1
<1>3. Shape(l)
  BY WrittenShape
<1> HIDE DEF q
<1>4. DOMAIN disk' = DOMAIN disk
  BY <1>2
<1> SUFFICES ASSUME NEW p \in DOMAIN disk
             PROVE  \E S : disk'[p] \in Seq(S) /\ \A e \in S : Shape(e)
  BY <1>4 DEF DiskShape
<1>5. PICK S : disk[p] \in Seq(S) /\ \A e \in S : Shape(e)
  BY DEF DiskShape
<1>6. CASE p # q
  BY <1>2, <1>5, <1>6
<1>7. CASE p = q
  <2> DEFINE R == S \cup {l} \cup Garbled(Last(disk[p]).name)
  <2>1. disk[p] \in Seq(R) /\ l \in R /\ Garbled(Last(disk[p]).name) \subseteq R
    BY <1>5, SeqMonotonic
  <2>2. \A e \in R : Shape(e)
    BY <1>3, <1>5, WrittenShape
  <2> HIDE DEF R
  <2>3. g \in Seq(R)
    BY <1>2, <1>7, <2>1, WithLineType
  <2>4. disk'[p] \in Seq(R)
    BY <1>2, <1>7, <2>3
  <2> QED
    BY <2>2, <2>4
<1> QED
  BY <1>6, <1>7

LEMMA OpenShape ==
    ASSUME DiskShape, cwd \in Seq(Atoms), OpenForWriting
    PROVE  DiskShape'
<1> DEFINE q == Real(cwd, Target)
<1>1. q \in Seq(Atoms) \ {<<>>}
  BY TargetIsText, FromType
<1>2. \/ disk' = disk
      \/ disk' = [p \in DOMAIN disk \cup {q} |-> IF p = q THEN <<>> ELSE disk[p]]
  BY DEF OpenForWriting
<1> HIDE DEF q
<1>3. CASE disk' = disk
  BY <1>3 DEF DiskShape
<1>4. CASE disk' = [p \in DOMAIN disk \cup {q} |-> IF p = q THEN <<>> ELSE disk[p]]
  <2>1. \E S : <<>> \in Seq(S) /\ \A e \in S : Shape(e)
    <3> DEFINE S == {}
    <3>1. <<>> \in Seq(S) /\ \A e \in S : Shape(e)
      OBVIOUS
    <3> HIDE DEF S
    <3> QED
      BY <3>1, Zenon
  <2>2. DOMAIN disk' = DOMAIN disk \cup {q}
    BY <1>4
  <2>3. ASSUME NEW p \in DOMAIN disk'
        PROVE  p \in Seq(Atoms) \ {<<>>}
               /\ \E S : disk'[p] \in Seq(S) /\ \A e \in S : Shape(e)
    <3>1. CASE p = q
      <4>1. disk'[p] = <<>>
        BY <1>4, <2>2, <3>1
      <4> QED
        BY <1>1, <2>1, <3>1, <4>1, Zenon
    <3>2. CASE p # q
      <4>1. p \in DOMAIN disk /\ disk'[p] = disk[p]
        BY <1>4, <2>2, <3>2
      <4> QED
        BY <4>1 DEF DiskShape
    <3> QED
      BY <3>1, <3>2
  <2> QED
    BY <2>3 DEF DiskShape
<1> QED
  BY <1>2, <1>3, <1>4

LEMMA IdleStep ==
    ASSUME IInv, Setup \/ Writing \/ Kill \/ Restart
    PROVE  IInv'
<1>1. /\ DiskShape /\ cwd \in Seq(Atoms) /\ results \in Seq(BOOLEAN)
      /\ phase \in Phases /\ (phase # "read" => frames = <<>>)
      /\ (Clean /\ frames = <<>> => cwd = Home)
  BY DEF IInv, Shapes, Places, InPlace
<1>2. CASE Restart
  <2>1. /\ frames' = <<>> /\ results' = <<>> /\ cwd' = Home /\ phase' \in Phases
        /\ DiskShape'
    BY <1>1, <1>2 DEF Restart, DiskShape, Phases
  <2>2. Home \in Seq(Atoms) /\ results' \in Seq(BOOLEAN) /\ Len(results') < Len(Layers)
    BY <2>1, TargetIsText, StoreAssumption
  <2> QED
    BY <2>1, <2>2, NoFrames
<1>3. CASE Setup \/ Writing \/ Kill
  <2>1. /\ phase # "read" /\ phase' \in Phases /\ phase' # "read"
        /\ UNCHANGED <<cwd, frames, results>>
    BY <1>3 DEF Setup, SetString, RemoveParameter, Writing, OpenForWriting, WriteLine,
                Written, Kill, Phases
  <2>2. Clean' => Clean
    BY <2>1 DEF Clean
  <2>3. DiskShape'
    <3>1. CASE Setup \/ Written \/ Kill
      BY <1>1, <3>1 DEF Setup, SetString, RemoveParameter, Written, Kill, DiskShape
    <3>2. CASE OpenForWriting
      BY <1>1, <3>2, OpenShape
    <3>3. CASE WriteLine
      BY <1>1, <3>3, WriteShape
    <3> QED
      BY <1>3, <3>1, <3>2, <3>3 DEF Writing
  <2> QED
    BY <1>1, <2>1, <2>2, <2>3, NoFrames
<1> QED
  BY <1>2, <1>3

-----------------------------------------------------------------------------
(* A file is opened *)

LEMMA PushPreserves ==
    ASSUME IInv, phase = "read",
           NEW d \in Seq(Atoms), NEW t \in Texts, NEW prefix \in Names,
           \A i \in 1..Len(frames) : frames[i].text # t,
           Real(d, t) \in DOMAIN disk,
           frames' = Append(frames, Opened(d, t, prefix)),
           cwd' = d, included' = included \cup {t},
           UNCHANGED <<disk, results, phase>>,
           frames # <<>> => prefix = frames[Len(frames)].prefix,
           Clean => /\ frames # <<>> =>
                         Real(d, t) = Real(Front(frames[Len(frames)].file), t)
                    /\ frames = <<>> \/ t.root => d = cwd
    PROVE  IInv'
<1> DEFINE h == Opened(d, t, prefix)
<1>0. PICK n \in Nat : n = Len(frames)
  BY DEF IInv, Shapes
<1>1. frames \in Seq(Frames) /\ n = Len(frames) /\ n \in Nat
  BY <1>0 DEF IInv, Shapes
<1>2. /\ h \in Frames
      /\ h.text = t /\ h.file = Real(d, t) /\ h.back = cwd /\ h.ok = TRUE
      /\ h.default = prefix /\ h.prefix = prefix /\ h.ns = <<>>
  BY FromType DEF Opened, Frames, Names, IInv, Shapes
<1> HIDE DEF h
<1>3. /\ frames' \in Seq(Frames)
      /\ Len(frames') = n + 1
      /\ \A i \in 1..n : frames'[i] = frames[i]
      /\ frames'[n + 1] = h
  <2>1. frames' = Append(frames, h)
    BY DEF h
  <2> QED
    BY <1>1, <1>2, <2>1, AppendProperties
<1>4. /\ DOMAIN frames = 1..n
      /\ DOMAIN frames' = 1..(n + 1)
  BY <1>1, <1>3
<1>5. frames = <<>> <=> n = 0
  BY <1>1
<1>6. Shapes'
  <2>1. /\ DiskShape' /\ cwd' \in Seq(Atoms) /\ results' \in Seq(BOOLEAN)
        /\ phase' \in Phases /\ phase' = "read" /\ Len(results') < Len(Layers)
    BY DEF IInv, Shapes, DiskShape
  <2>2. \A i \in 1..(n + 1) : frames'[i].file \in DOMAIN disk' /\ frames'[i].text \in included'
    <3>1. \A i \in 1..n : frames[i].file \in DOMAIN disk /\ frames[i].text \in included
      BY <1>1 DEF IInv, Shapes
    <3> QED
      BY <1>1, <1>2, <1>3, <3>1
  <2> QED
    BY <1>3, <2>1, <2>2 DEF Shapes
<1>7. InNamespace'
  <2>1. \A i \in 1..(n + 1) : frames'[i].prefix = frames'[i].default \o frames'[i].ns
    <3>1. prefix = prefix \o <<>>
      BY ConcatEmptySeq DEF Names
    <3>2. \A i \in 1..n : frames[i].prefix = frames[i].default \o frames[i].ns
      BY <1>4 DEF IInv, InNamespace
    <3>3. h.prefix = h.default \o h.ns
      BY <1>2, <3>1, Zenon
    <3>4. \A i \in 1..n : frames'[i].prefix = frames'[i].default \o frames'[i].ns
      BY <1>3, <3>2, Zenon
    <3>5. frames'[n + 1].prefix = frames'[n + 1].default \o frames'[n + 1].ns
      BY <1>3, <3>3, Zenon
    <3>6. \A i \in 1..(n + 1) : i \in 1..n \/ i = n + 1
      OBVIOUS
    <3> QED
      BY <3>4, <3>5, <3>6, Zenon
  <2>2. ASSUME NEW i \in 2..(n + 1)
        PROVE  frames'[i].default = frames'[i - 1].prefix
    <3>1. CASE i = n + 1
      BY <1>1, <1>2, <1>3, <1>5, <3>1
    <3>2. CASE i # n + 1
      <4>1. i \in 2..n /\ i \in 1..n /\ i - 1 \in 1..n
        BY <1>1, <3>2
      <4>2. frames[i].default = frames[i - 1].prefix
        BY <1>1, <4>1 DEF IInv, InNamespace
      <4> QED
        BY <1>3, <4>1, <4>2
    <3> QED
      BY <3>1, <3>2
  <2> QED
    BY <1>3, <1>4, <2>1, <2>2 DEF InNamespace
<1>8. NoCycle'
  <2>1. \A i, j \in 1..n : frames[i].text = frames[j].text => i = j
    BY <1>4 DEF IInv, NoCycle
  <2>2. \A i \in 1..n : frames'[i].text # t /\ frames'[n + 1].text = t
    BY <1>1, <1>2, <1>3
  <2>3. \A i \in 1..(n + 1) : i \in 1..n \/ i = n + 1
    BY <1>1
  <2> QED
    BY <1>3, <1>4, <2>1, <2>2, <2>3 DEF NoCycle
<1>9. Clean' => Places'
  <2> SUFFICES ASSUME Clean' PROVE Places'
    OBVIOUS
  <2>1. Clean
    BY <1>1, <1>3, <1>4 DEF Clean
  <2>2. Places
    BY <2>1 DEF IInv
  <2>3. /\ \A i \in 1..n : At(i)' = At(i)
        /\ At(n + 1)' = d
    <3>1. ASSUME NEW i \in 1..n PROVE At(i)' = At(i)
      <4>1. CASE i = n
        BY <1>1, <1>2, <1>3, <4>1 DEF At
      <4>2. CASE i # n
        <5>1. i + 1 \in 1..n /\ i # n + 1
          BY <1>1, <4>2
        <5> QED
          BY <1>1, <1>3, <4>2, <5>1 DEF At
      <4> QED
        BY <4>1, <4>2
    <3>2. At(n + 1)' = d
      BY <1>3 DEF At
    <3> QED
      BY <3>1, <3>2
  <2>4. InPlace'
    <3>1. ASSUME NEW i \in 2..(n + 1)
          PROVE  frames'[i].file = Real(Front(frames'[i - 1].file), frames'[i].text)
      <4>1. CASE i = n + 1
        <5>1. i - 1 = n /\ n \in 1..n
          BY <1>1, <4>1
        <5>2. Real(d, t) = Real(Front(frames[n].file), t)
          BY <1>1, <1>5, <2>1, <5>1
        <5> QED
          BY <1>2, <1>3, <4>1, <5>1, <5>2
      <4>2. CASE i # n + 1
        <5>1. i \in 2..n /\ i \in 1..n /\ i - 1 \in 1..n
          BY <1>1, <4>2
        <5>2. frames[i].file = Real(Front(frames[i - 1].file), frames[i].text)
          BY <1>1, <2>2, <5>1 DEF Places, InPlace
        <5> QED
          BY <1>3, <5>1, <5>2
      <4> QED
        BY <4>1, <4>2
    <3>2. frames' # <<>>
      BY <1>1, <1>3
    <3> QED
      BY <1>3, <3>1, <3>2 DEF InPlace
  <2>5. ASSUME NEW i \in 1..(n + 1)
        PROVE  /\ Front(frames'[i].file) = From(At(i)', frames'[i].text)
               /\ i = 1 \/ frames'[i].text.root => At(i)' = frames'[i].back
    <3>1. CASE i = n + 1
      <4>1. Front(Real(d, t)) = From(d, t)
        BY FromType
      <4>2. i = 1 \/ t.root => d = cwd
        BY <1>1, <1>5, <2>1, <3>1
      <4> QED
        BY <1>2, <1>3, <2>3, <3>1, <4>1, <4>2
    <3>2. CASE i # n + 1
      <4>1. i \in 1..n
        BY <1>1, <3>2
      <4>2. /\ Front(frames[i].file) = From(At(i), frames[i].text)
            /\ i = 1 \/ frames[i].text.root => At(i) = frames[i].back
        BY <1>1, <2>2, <4>1 DEF Places
      <4> QED
        BY <1>3, <2>3, <4>1, <4>2
    <3> QED
      BY <3>1, <3>2
  <2>6. frames'[1].back = Home
    <3>1. CASE n = 0
      <4>1. cwd = Home
        BY <1>5, <2>2, <3>1 DEF Places, InPlace
      <4> QED
        BY <1>2, <1>3, <3>1, <4>1
    <3>2. CASE n # 0
      <4>1. 1 \in 1..n
        BY <1>1, <3>2
      <4>2. frames[1].back = Home
        BY <1>5, <2>2, <3>2 DEF Places
      <4> QED
        BY <1>3, <4>1, <4>2
    <3> QED
      BY <3>1, <3>2
  <2> QED
    BY <1>3, <2>4, <2>5, <2>6 DEF Places
<1> QED
  BY <1>6, <1>7, <1>8, <1>9 DEF IInv

-----------------------------------------------------------------------------
(* An included file ends *)

LEMMA PopEffect ==
    ASSUME frames \in Seq(Frames), NEW n \in Nat \ {0}, Len(frames) = n + 1,
           NEW ok \in BOOLEAN,
           frames' = [SubSeq(frames, 1, n) EXCEPT ![n] = Past(@, ok)]
    PROVE  /\ frames' \in Seq(Frames)
           /\ Len(frames') = n
           /\ \A i \in 1..n : i # n => frames'[i] = frames[i]
           /\ LET g == frames[n]
                  h == frames'[n]
              IN /\ h.text = g.text /\ h.file = g.file /\ h.back = g.back
                 /\ h.default = g.default /\ h.prefix = g.prefix /\ h.ns = g.ns
                 /\ h.ok = (g.ok /\ ok) /\ h.pos = g.pos + 1
<1> DEFINE s == SubSeq(frames, 1, n)
           h == Past(frames[n], ok)
<1>1. /\ s \in Seq(Frames)
      /\ Len(s) = n
      /\ \A i \in 1..n : s[i] = frames[i]
  OBVIOUS
<1>2. frames[n] \in Frames
  OBVIOUS
<1>3. /\ h \in Frames
      /\ h.text = frames[n].text /\ h.file = frames[n].file /\ h.back = frames[n].back
      /\ h.default = frames[n].default /\ h.prefix = frames[n].prefix
      /\ h.ns = frames[n].ns /\ h.ok = (frames[n].ok /\ ok)
      /\ h.pos = frames[n].pos + 1
  BY <1>2, PastEffect
<1>4. s[n] = frames[n]
  BY <1>1
<1>5. frames' = [s EXCEPT ![n] = h]
  BY <1>4
<1> HIDE DEF s, h
<1>6. /\ frames' \in Seq(Frames)
      /\ Len(frames') = n
      /\ \A i \in 1..n : frames'[i] = IF i = n THEN h ELSE s[i]
  BY <1>1, <1>3, <1>5, ExceptSeq
<1> QED
  BY <1>1, <1>3, <1>6

LEMMA PopPreserves ==
    ASSUME IInv, phase = "read", NEW n \in Nat \ {0}, Len(frames) = n + 1,
           NEW ok \in BOOLEAN, ok => frames[n + 1].ok,
           frames' = [SubSeq(frames, 1, n) EXCEPT ![n] = Past(@, ok)],
           cwd' = IF ok /\ ~frames[n + 1].text.root THEN frames[n + 1].back ELSE cwd,
           UNCHANGED <<disk, included, results, phase>>
    PROVE  IInv'
<1>1. frames \in Seq(Frames) /\ frames[n + 1] \in Frames
  BY DEF IInv, Shapes
<1>2. /\ frames' \in Seq(Frames)
      /\ Len(frames') = n
      /\ \A i \in 1..n : i # n => frames'[i] = frames[i]
      /\ frames'[n].text = frames[n].text /\ frames'[n].file = frames[n].file
      /\ frames'[n].back = frames[n].back /\ frames'[n].default = frames[n].default
      /\ frames'[n].prefix = frames[n].prefix /\ frames'[n].ns = frames[n].ns
      /\ frames'[n].ok = (frames[n].ok /\ ok)
  BY <1>1, PopEffect, Zenon
<1>3. /\ DOMAIN frames = 1..(n + 1)
      /\ DOMAIN frames' = 1..n
      /\ \A i \in 1..n : i \in 1..(n + 1)
  BY <1>1, <1>2
<1>4. \A i \in 1..n :
        /\ frames'[i].text = frames[i].text
        /\ frames'[i].file = frames[i].file
        /\ frames'[i].back = frames[i].back
        /\ frames'[i].default = frames[i].default
        /\ frames'[i].prefix = frames[i].prefix
        /\ frames'[i].ns = frames[i].ns
        /\ frames'[i].ok => frames[i].ok
  BY <1>1, <1>2
<1>5. Shapes'
  <2>1. frames[n + 1].back \in Seq(Atoms)
    BY <1>1, FrameFields
  <2> QED
    BY <1>2, <1>3, <1>4, <2>1 DEF IInv, Shapes, DiskShape
<1>6. InNamespace'
  <2>1. ASSUME NEW i \in 1..n
        PROVE  frames'[i].prefix = frames'[i].default \o frames'[i].ns
    <3>1. frames[i].prefix = frames[i].default \o frames[i].ns
      BY <1>3 DEF IInv, InNamespace
    <3> QED
      BY <1>4, <3>1
  <2>2. ASSUME NEW i \in 2..n
        PROVE  frames'[i].default = frames'[i - 1].prefix
    <3>1. i \in 2..(n + 1) /\ i \in 1..n /\ i - 1 \in 1..n
      OBVIOUS
    <3>2. frames[i].default = frames[i - 1].prefix
      BY <3>1 DEF IInv, InNamespace
    <3> QED
      BY <1>4, <3>1, <3>2
  <2> QED
    BY <1>2, <1>3, <2>1, <2>2 DEF InNamespace
<1>7. NoCycle'
  BY <1>3, <1>4 DEF IInv, NoCycle
<1>8. Clean' => Places'
  <2> SUFFICES ASSUME Clean' PROVE Places'
    OBVIOUS
  <2>1. ok
    <3>1. n \in 1..n
      OBVIOUS
    <3> QED
      BY <1>2, <1>3, <3>1 DEF Clean
  <2>2. Clean
    <3>1. \A i \in 1..(n + 1) : i \in 1..n \/ i = n + 1
      OBVIOUS
    <3> QED
      BY <1>3, <1>4, <2>1, <3>1 DEF Clean
  <2>3. Places
    BY <2>2 DEF IInv
  <2>4. cwd' = frames[n + 1].back
    <3>1. n + 1 \in 1..(n + 1) /\ n + 1 # 1
      OBVIOUS
    <3>2. frames[n + 1].text.root => At(n + 1) = frames[n + 1].back
      BY <2>3, <3>1 DEF Places
    <3>3. At(n + 1) = cwd
      BY DEF At
    <3> QED
      BY <2>1, <3>2, <3>3
  <2>5. \A i \in 1..n : At(i)' = At(i)
    <3> SUFFICES ASSUME NEW i \in 1..n PROVE At(i)' = At(i)
      OBVIOUS
    <3>1. CASE i = n
      BY <1>2, <2>4, <3>1 DEF At
    <3>2. CASE i # n
      <4>1. i + 1 \in 1..n /\ i # n + 1
        BY <3>2
      <4> QED
        BY <1>2, <1>4, <3>2, <4>1 DEF At
    <3> QED
      BY <3>1, <3>2
  <2>6. InPlace'
    <3>1. ASSUME NEW i \in 2..n
          PROVE  frames'[i].file = Real(Front(frames'[i - 1].file), frames'[i].text)
      <4>1. i \in 2..(n + 1) /\ i \in 1..n /\ i - 1 \in 1..n
        OBVIOUS
      <4>2. frames[i].file = Real(Front(frames[i - 1].file), frames[i].text)
        BY <2>3, <4>1 DEF Places, InPlace
      <4> QED
        BY <1>4, <4>1, <4>2
    <3>2. frames' # <<>>
      BY <1>2
    <3> QED
      BY <1>2, <3>1, <3>2 DEF InPlace
  <2>7. ASSUME NEW i \in 1..n
        PROVE  /\ Front(frames'[i].file) = From(At(i)', frames'[i].text)
               /\ i = 1 \/ frames'[i].text.root => At(i)' = frames'[i].back
    <3>1. i \in 1..(n + 1)
      OBVIOUS
    <3> QED
      BY <1>4, <2>3, <2>5, <3>1 DEF Places
  <2>8. frames'[1].back = Home
    <3>1. 1 \in 1..n /\ frames # <<>>
      BY <1>3
    <3> QED
      BY <1>4, <2>3, <3>1 DEF Places
  <2> QED
    BY <1>2, <2>6, <2>7, <2>8 DEF Places
<1> QED
  BY <1>5, <1>6, <1>7, <1>8 DEF IInv

-----------------------------------------------------------------------------
(* The steps of the reader *)

LEMMA EntryShape ==
    ASSUME IInv, NEW kind, NEW f \in AtEntry(kind)
    PROVE  /\ f \in Innermost /\ phase = "read"
           /\ Entry(f).kind = kind
           /\ Shape(Entry(f))
           /\ f \in Frames /\ f = frames[Len(frames)] /\ Len(frames) \in Nat \ {0}
           /\ f.prefix = f.default \o f.ns
           /\ f.file \in Seq(Atoms) \ {<<>>}
<1>1. /\ f \in Innermost /\ phase = "read"
      /\ f.pos <= Len(disk[f.file]) /\ Entry(f).kind = kind
  BY DEF AtEntry
<1>2. frames \in Seq(Frames)
  BY DEF IInv, Shapes
<1>3. f \in Frames /\ f = frames[Len(frames)] /\ Len(frames) \in Nat \ {0}
  BY <1>1, <1>2, InnermostIsLast
<1>4. Len(frames) \in 1..Len(frames) /\ DOMAIN frames = 1..Len(frames)
  BY <1>2, <1>3
<1>5. f.prefix = f.default \o f.ns
  BY <1>3, <1>4 DEF IInv, InNamespace
<1>6. f.file \in DOMAIN disk
  BY <1>3, <1>4 DEF IInv, Shapes
<1>7. f.pos \in Nat \ {0}
  BY <1>3, FrameFields
<1>8. PICK S : disk[f.file] \in Seq(S) /\ \A e \in S : Shape(e)
  BY <1>6 DEF IInv, Shapes, DiskShape
<1>9. f.pos \in 1..Len(disk[f.file])
  BY <1>1, <1>7, <1>8
<1>10. Entry(f) \in S
  BY <1>8, <1>9, ElementOfSeq DEF Entry
<1>11. f.file \in Seq(Atoms) \ {<<>>}
  BY <1>6 DEF IInv, Shapes, DiskShape
<1> QED
  BY <1>1, <1>3, <1>5, <1>8, <1>10, <1>11

LEMMA SameNamespace ==
    ASSUME IInv, NEW kind, NEW f \in AtEntry(kind), NEW ok \in BOOLEAN, Advance(f, ok),
           UNCHANGED <<disk, included, cwd, results, phase>>
    PROVE  IInv'
<1>1. /\ f \in Innermost /\ f \in Frames /\ phase = "read"
      /\ f.prefix = f.default \o f.ns
  BY EntryShape, Zenon
<1> QED
  BY <1>1, AdvancePreserves, Zenon

LEMMA OpenStep == ASSUME IInv, OpenBlock PROVE IInv'
<1>1. PICK f \in AtEntry("open") :
        /\ Advance([f EXCEPT !.ns = Append(@, Entry(f).name),
                             !.prefix = Append(@, Entry(f).name)], TRUE)
        /\ UNCHANGED <<disk, included, cwd, results, phase>>
  BY Zenon DEF OpenBlock
<1> DEFINE c == Entry(f).name
           g == [f EXCEPT !.ns = Append(@, c), !.prefix = Append(@, c)]
<1>2. c \in Atoms
  BY EntryShape DEF Shape
<1>3. f \in Frames /\ f.prefix = f.default \o f.ns
  BY EntryShape
<1>4. Advance(g, TRUE)
  BY <1>1
<1> HIDE DEF c
<1>5. /\ f.default \in Seq(Atoms) /\ f.ns \in Seq(Atoms) /\ f.prefix \in Seq(Atoms)
      /\ Append(f.ns, c) \in Seq(Atoms)
      /\ Append(f.prefix, c) \in Seq(Atoms)
  BY <1>2, <1>3, FrameFields
<1>6. Append(f.default \o f.ns, c) = f.default \o Append(f.ns, c)
  BY <1>2, <1>5, AppendToConcat, Zenon
<1>7. /\ g \in Frames
      /\ g.text = f.text /\ g.file = f.file /\ g.back = f.back /\ g.default = f.default
      /\ g.ok = f.ok /\ g.prefix = Append(f.prefix, c) /\ g.ns = Append(f.ns, c)
  BY <1>3, <1>5 DEF Frames, Names
<1> HIDE DEF g
<1>8. g.prefix = g.default \o g.ns
  BY <1>3, <1>6, <1>7, Zenon
<1> QED
  BY <1>1, <1>4, <1>7, <1>8, EntryShape, AdvancePreserves, Zenon

LEMMA CloseStep == ASSUME IInv, CloseBlock PROVE IInv'
<1>1. PICK f \in AtEntry("close") :
        /\ IF f.ns = <<>> THEN Advance(f, FALSE)
           ELSE Advance([f EXCEPT !.ns = Front(@), !.prefix = f.default \o Front(f.ns)],
                        TRUE)
        /\ UNCHANGED <<disk, included, cwd, results, phase>>
  BY Zenon DEF CloseBlock
<1>2. CASE f.ns = <<>>
  <2>1. Advance(f, FALSE)
    BY <1>1, <1>2
  <2> QED
    BY <1>1, <2>1, SameNamespace, Zenon
<1>3. CASE f.ns # <<>>
  <2> DEFINE m == Front(f.ns)
             p == f.default \o m
             g == [f EXCEPT !.ns = m, !.prefix = p]
  <2>1. f \in Frames
    BY EntryShape
  <2>2. f.default \in Seq(Atoms) /\ f.ns \in Seq(Atoms) /\ m \in Seq(Atoms)
    <3>1. f.default \in Seq(Atoms) /\ f.ns \in Seq(Atoms)
      BY <2>1, FrameFields
    <3> QED
      BY <1>3, <3>1, FrontType
  <2>3. Advance(g, TRUE)
    BY <1>1, <1>3
  <2> HIDE DEF m
  <2>4. p \in Seq(Atoms)
    BY <2>2, ConcatProperties
  <2> HIDE DEF p
  <2>5. /\ g \in Frames
        /\ g.text = f.text /\ g.file = f.file /\ g.back = f.back /\ g.default = f.default
        /\ g.ok = f.ok /\ g.prefix = p /\ g.ns = m
    BY <2>1, <2>2, <2>4 DEF Frames, Names
  <2> HIDE DEF g
  <2>6. g.prefix = g.default \o g.ns
    BY <2>5, Zenon DEF p
  <2> QED
    BY <1>1, <2>3, <2>5, <2>6, EntryShape, AdvancePreserves, Zenon
<1> QED
  BY <1>2, <1>3

LEMMA SymbolStep == ASSUME IInv, Assign \/ Delete \/ Reject \/ DropRest PROVE IInv'
<1>1. CASE Assign
  <2>1. PICK f \in AtEntry("assign") :
          /\ Advance(f, Eval(table, Entry(f).rhs) # <<>>)
          /\ UNCHANGED <<disk, included, cwd, results, phase>>
    BY <1>1, Zenon DEF Assign
  <2>2. (Eval(table, Entry(f).rhs) # <<>>) \in BOOLEAN
    OBVIOUS
  <2> QED
    BY <2>1, <2>2, SameNamespace, Zenon
<1>2. CASE Delete
  <2>1. PICK f \in AtEntry("del") :
          /\ \E names, gone : Advance(f, gone = names)
          /\ UNCHANGED <<disk, included, cwd, results, phase>>
    BY <1>2, Zenon DEF Delete
  <2>2. PICK names, gone : Advance(f, gone = names)
    BY <2>1, Zenon
  <2>3. (gone = names) \in BOOLEAN
    OBVIOUS
  <2> QED
    BY <2>1, <2>2, <2>3, SameNamespace, Zenon
<1>3. CASE Reject
  <2>1. PICK f \in AtEntry("malformed") :
          Advance(f, FALSE) /\ UNCHANGED <<disk, included, cwd, results, phase>>
    BY <1>3, Zenon DEF Reject
  <2> QED
    BY <2>1, SameNamespace, Zenon
<1>4. CASE DropRest
  <2>1. PICK f \in AtEntry("unfinished") :
          Advance(f, TRUE) /\ UNCHANGED <<disk, included, cwd, results, phase>>
    BY <1>4, Zenon DEF DropRest
  <2> QED
    BY <2>1, SameNamespace, Zenon
<1> QED
  BY <1>1, <1>2, <1>3, <1>4

\* An error is noted, and the place may be lost.
LEMMA FailPreserves ==
    ASSUME IInv, NEW kind, NEW f \in AtEntry(kind), Advance(f, FALSE),
           cwd' \in Seq(Atoms), UNCHANGED <<disk, included, results, phase>>
    PROVE  IInv'
<1> DEFINE n == Len(frames)
<1>1. /\ f \in Frames /\ f = frames[n] /\ n \in Nat \ {0}
      /\ f.prefix = f.default \o f.ns
      /\ frames \in Seq(Frames) /\ phase = "read"
  <2>1. frames \in Seq(Frames)
    BY DEF IInv, Shapes
  <2> QED
    BY <2>1, EntryShape, Zenon
<1>2. /\ frames' \in Seq(Frames)
      /\ Len(frames') = n
      /\ \A i \in 1..n : i # n => frames'[i] = frames[i]
      /\ frames'[n].text = f.text /\ frames'[n].file = f.file
      /\ frames'[n].default = f.default /\ frames'[n].prefix = f.prefix
      /\ frames'[n].ns = f.ns
      /\ ~frames'[n].ok
  <2>1. frames # <<>> /\ FALSE \in BOOLEAN
    BY <1>1
  <2> QED
    BY <1>1, <2>1, AdvanceEffect, Zenon
<1>3. DOMAIN frames = 1..n /\ DOMAIN frames' = 1..n
  <2>1. frames \in Seq(Frames) /\ frames' \in Seq(Frames) /\ Len(frames') = n
    BY <1>1, <1>2, Zenon
  <2> QED
    BY <2>1
<1>4. \A i \in 1..n :
        /\ frames'[i].text = frames[i].text
        /\ frames'[i].file = frames[i].file
        /\ frames'[i].default = frames[i].default
        /\ frames'[i].prefix = frames[i].prefix
        /\ frames'[i].ns = frames[i].ns
  BY <1>1, <1>2
<1> HIDE DEF n
<1>5. Shapes'
  BY <1>1, <1>2, <1>4 DEF IInv, Shapes, DiskShape, n
<1>6. InNamespace'
  <2>1. \A i \in 1..n : frames'[i].prefix = frames'[i].default \o frames'[i].ns
    BY <1>3, <1>4 DEF IInv, InNamespace
  <2>2. ASSUME NEW i \in 2..n
        PROVE  frames'[i].default = frames'[i - 1].prefix
    <3>1. i \in 1..n /\ i - 1 \in 1..n
      BY <1>1
    <3>2. frames[i].default = frames[i - 1].prefix
      BY DEF IInv, InNamespace, n
    <3> QED
      BY <1>4, <3>1, <3>2
  <2> QED
    BY <1>2, <1>3, <2>1, <2>2 DEF InNamespace
<1>7. NoCycle'
  BY <1>3, <1>4 DEF IInv, NoCycle
<1>8. ~Clean'
  <2>1. n \in DOMAIN frames'
    BY <1>1, <1>3
  <2> QED
    BY <1>2, <2>1, Zenon DEF Clean
<1> QED
  BY <1>5, <1>6, <1>7, <1>8 DEF IInv

LEMMA IncludeStep == ASSUME IInv, Include PROVE IInv'
<1> DEFINE n == Len(frames)
<1>1. PICK f \in AtEntry("include") :
        /\ LET t == Entry(f).path
               d == IncludeDir(f, t)
           IN \/ Advance(f, FALSE) /\ UNCHANGED <<included, cwd>>
              \/ Advance(f, TRUE) /\ UNCHANGED <<included, cwd>>
              \/ /\ t \notin included
                 /\ cwd' = d
                 /\ IF Real(d, t) \in DOMAIN disk
                    THEN /\ frames' = Append(frames, Opened(d, t, f.prefix))
                         /\ included' = included \cup {t}
                    ELSE Advance(f, FALSE) /\ UNCHANGED included
        /\ UNCHANGED <<disk, results, phase>>
  BY Zenon DEF Include
<1>2. /\ f \in Frames /\ f = frames[n] /\ n \in Nat \ {0} /\ phase = "read"
      /\ Entry(f).path \in Texts
      /\ f.file \in Seq(Atoms) \ {<<>>}
      /\ f.prefix \in Names
  <2>1. Shape(Entry(f)) /\ Entry(f).kind = "include"
    BY EntryShape
  <2>2. Entry(f).path \in Texts
    BY <2>1 DEF Shape
  <2> QED
    BY <2>2, EntryShape, FrameFields DEF Names
<1>3. cwd \in Seq(Atoms)
  BY DEF IInv, Shapes
<1>4. CASE Advance(f, FALSE) /\ UNCHANGED <<included, cwd>>
  BY <1>1, <1>3, <1>4, SameNamespace
<1>5. CASE Advance(f, TRUE) /\ UNCHANGED <<included, cwd>>
  BY <1>1, <1>3, <1>5, SameNamespace
<1> DEFINE t == Entry(f).path
           d == IncludeDir(f, t)
<1>6. CASE /\ t \notin included
           /\ cwd' = d
           /\ IF Real(d, t) \in DOMAIN disk
              THEN /\ frames' = Append(frames, Opened(d, t, f.prefix))
                   /\ included' = included \cup {t}
              ELSE Advance(f, FALSE) /\ UNCHANGED included
  <2>1. t \in Texts
    BY <1>2
  <2>2. d \in Seq(Atoms)
    <3>1. f.text \in Texts
      BY <1>2, FrameFields
    <3> QED
      BY <1>3, <3>1, FromType DEF IncludeDir
  <2>3. Clean => /\ Real(d, t) = Real(Front(f.file), t)
                 /\ t.root => d = cwd
    <3> SUFFICES ASSUME Clean
                 PROVE  /\ Real(d, t) = Real(Front(f.file), t)
                        /\ t.root => d = cwd
      OBVIOUS
    <3>1. Front(f.file) = From(cwd, f.text)
      <4>1. n \in 1..n
        BY <1>2
      <4>2. Front(frames[n].file) = From(At(n), frames[n].text)
        BY <4>1 DEF IInv, Places
      <4>3. At(n) = cwd
        BY DEF At
      <4> QED
        BY <1>2, <4>2, <4>3
    <3> QED
      BY <1>2, <1>3, <2>1, <3>1, IncludePlace
  <2>4. \A i \in 1..n : frames[i].text # t
    BY <1>6 DEF IInv, Shapes
  <2>5. frames # <<>>
    BY <1>2
  <2> HIDE DEF t, d
  <2>6. CASE Real(d, t) \in DOMAIN disk
    <3>1. /\ frames' = Append(frames, Opened(d, t, f.prefix))
          /\ cwd' = d /\ included' = included \cup {t}
          /\ UNCHANGED <<disk, results, phase>>
      BY <1>1, <1>6, <2>6
    <3> QED
      BY <1>2, <2>1, <2>2, <2>3, <2>4, <2>5, <2>6, <3>1, PushPreserves, Zenon
  <2>7. CASE Real(d, t) \notin DOMAIN disk
    <3>1. /\ Advance(f, FALSE) /\ cwd' \in Seq(Atoms)
          /\ UNCHANGED <<disk, included, results, phase>>
      BY <1>1, <1>6, <2>2, <2>7
    <3> QED
      BY <3>1, FailPreserves, Zenon
  <2> QED
    BY <2>6, <2>7
<1> QED
  BY <1>1, <1>4, <1>5, <1>6, Zenon

LEMMA ReturnType ==
    ASSUME IInv, phase = "read", NEW ok \in BOOLEAN, Return(ok)
    PROVE  /\ results' \in Seq(BOOLEAN) /\ phase' \in Phases
           /\ phase' = "read" => Len(results') < Len(Layers)
           /\ Clean' => ok /\ \A i \in DOMAIN results : results[i]
<1>1. results \in Seq(BOOLEAN)
  BY DEF IInv, Shapes
<1> DEFINE m == Len(results)
<1>2. /\ results' \in Seq(BOOLEAN)
      /\ m \in Nat
      /\ DOMAIN results = 1..m /\ DOMAIN results' = 1..(m + 1)
      /\ \A i \in 1..m : results'[i] = results[i]
      /\ results'[m + 1] = ok
  <2>1. results' = Append(results, ok)
    BY DEF Return
  <2> QED
    BY <1>1, <2>1, AppendProperties
<1>3. /\ phase' \in Phases
      /\ phase' = "read" => Len(results') < Len(Layers)
  <2>1. Len(results) < Len(Layers) /\ Len(results') = Len(results) + 1
    BY <1>2 DEF IInv, Shapes
  <2>2. Len(Layers) \in Nat
    BY TargetIsText
  <2> QED
    BY <1>2, <2>1, <2>2 DEF Return, Phases
<1> HIDE DEF m
<1>4. ASSUME Clean' PROVE ok /\ \A i \in DOMAIN results : results[i]
  <2>1. \A i \in 1..(m + 1) : results'[i]
    BY <1>2, <1>4 DEF Clean
  <2>2. m + 1 \in 1..(m + 1) /\ \A i \in 1..m : i \in 1..(m + 1)
    BY <1>2
  <2> QED
    BY <1>2, <2>1, <2>2, Zenon
<1> QED
  BY <1>2, <1>3, <1>4

LEMMA ReadStep == ASSUME IInv, ReadConfig PROVE IInv'
<1> DEFINE t == Layers[Len(results) + 1]
           p == <<>>
<1>1. /\ phase = "read" /\ frames = <<>>
      /\ UNCHANGED <<disk, cwd>>
      /\ \/ /\ Real(cwd, t) \in DOMAIN disk
            /\ frames' = <<Opened(cwd, t, p)>>
            /\ included' = included \cup {t}
            /\ UNCHANGED <<results, phase>>
         \/ Return(FALSE) /\ frames' = <<>>
  BY DEF ReadConfig
<1>2. t \in Texts
  <2>1. Len(results) \in Nat /\ Len(results) < Len(Layers)
    BY <1>1 DEF IInv, Shapes
  <2>2. Layers \in Seq(Texts) /\ Len(results) + 1 \in 1..Len(Layers)
    BY <2>1, TargetIsText, StoreAssumption
  <2> QED
    BY <2>2, ElementOfSeq
<1>3. cwd \in Seq(Atoms) /\ DiskShape
  BY DEF IInv, Shapes
<1>4. p \in Names
  BY DEF Names
<1> HIDE DEF t, p
<1>5. CASE /\ Real(cwd, t) \in DOMAIN disk
           /\ frames' = <<Opened(cwd, t, p)>>
           /\ included' = included \cup {t}
           /\ UNCHANGED <<results, phase>>
  <2>1. frames' = Append(frames, Opened(cwd, t, p))
    BY <1>1, <1>5
  <2>2. /\ cwd' = cwd
        /\ \A i \in 1..Len(frames) : frames[i].text # t
        /\ frames = <<>>
    BY <1>1
  <2> QED
    BY <1>1, <1>2, <1>3, <1>4, <1>5, <2>1, <2>2, PushPreserves, Zenon
<1>6. CASE Return(FALSE) /\ frames' = <<>>
  <2>1. /\ results' \in Seq(BOOLEAN) /\ phase' \in Phases
        /\ phase' = "read" => Len(results') < Len(Layers)
        /\ ~Clean'
    BY <1>1, <1>6, ReturnType
  <2>2. DiskShape' /\ cwd' \in Seq(Atoms)
    BY <1>1, <1>3 DEF DiskShape
  <2> QED
    BY <1>6, <2>1, <2>2, NoFrames
<1> QED
  BY <1>1, <1>5, <1>6

LEMMA EndStep == ASSUME IInv, EndOfFile PROVE IInv'
<1>1. PICK f \in Innermost :
        LET ok == f.ok /\ f.ns = <<>>
            n == Len(frames) - 1
        IN /\ phase = "read"
           /\ IF n = 0
              THEN /\ frames' = <<>>
                   /\ Return(ok)
                   /\ UNCHANGED cwd
              ELSE /\ frames' = [SubSeq(frames, 1, n) EXCEPT ![n] = Past(@, ok)]
                   /\ cwd' = IF ok /\ ~f.text.root THEN f.back ELSE cwd
                   /\ UNCHANGED <<results, phase>>
           /\ UNCHANGED <<disk, included>>
  BY Zenon DEF EndOfFile
<1> DEFINE ok == f.ok /\ f.ns = <<>>
<1>2. frames \in Seq(Frames) /\ DiskShape /\ cwd \in Seq(Atoms)
  BY DEF IInv, Shapes
<1>3. f \in Frames /\ f = frames[Len(frames)] /\ Len(frames) \in Nat \ {0}
  BY <1>2, InnermostIsLast
<1>4. ok \in BOOLEAN /\ (ok => f.ok)
  OBVIOUS
<1>5. PICK n \in Nat : Len(frames) = n + 1 /\ n = Len(frames) - 1
  BY <1>3
<1> HIDE DEF ok
<1>6. CASE n = 0
  <2>1. frames' = <<>> /\ Return(ok) /\ cwd' = cwd /\ phase = "read" /\ disk' = disk
    BY <1>1, <1>5, <1>6 DEF ok
  <2>2. /\ results' \in Seq(BOOLEAN) /\ phase' \in Phases
        /\ phase' = "read" => Len(results') < Len(Layers)
        /\ Clean' => ok /\ \A i \in DOMAIN results : results[i]
    BY <1>4, <2>1, ReturnType, Zenon
  <2>3. Clean' => cwd' = Home
    <3> SUFFICES ASSUME Clean' PROVE cwd = Home
      BY <2>1
    <3>1. DOMAIN frames = {1} /\ frames # <<>> /\ frames[1] = f /\ 1 \in 1..Len(frames)
      <4>1. Len(frames) = 1
        BY <1>5, <1>6
      <4>2. DOMAIN frames = 1..1 /\ 1..1 = {1}
        BY <1>2, <4>1
      <4>3. frames # <<>> /\ frames[1] = f
        BY <1>3, <4>1
      <4> QED
        BY <4>1, <4>2, <4>3
    <3>2. Clean
      BY <1>4, <2>2, <3>1 DEF Clean
    <3>3. At(1) = frames[1].back /\ frames[1].back = Home
      BY <3>1, <3>2 DEF IInv, Places
    <3>4. At(1) = cwd
      BY <1>5, <1>6 DEF At
    <3> QED
      BY <3>3, <3>4
  <2> QED
    BY <1>2, <2>1, <2>2, <2>3, NoFrames DEF DiskShape
<1>7. CASE n # 0
  <2>1. /\ phase = "read"
        /\ frames' = [SubSeq(frames, 1, n) EXCEPT ![n] = Past(@, ok)]
        /\ cwd' = IF ok /\ ~frames[n + 1].text.root THEN frames[n + 1].back ELSE cwd
        /\ UNCHANGED <<disk, included, results, phase>>
    BY <1>1, <1>3, <1>5, <1>7 DEF ok
  <2>2. n \in Nat \ {0} /\ (ok => frames[n + 1].ok)
    BY <1>3, <1>4, <1>5, <1>7
  <2> QED
    BY <1>4, <1>5, <2>1, <2>2, PopPreserves, Zenon
<1> QED
  BY <1>6, <1>7

-----------------------------------------------------------------------------
(* The theorem *)

LEMMA InitHolds == Init => IInv
<1> SUFFICES ASSUME Init PROVE IInv
  OBVIOUS
<1>1. /\ frames = <<>> /\ results = <<>> /\ phase = "read" /\ cwd = Home /\ disk \in Disks
  BY DEF Init
<1>2. frames \in Seq(Frames) /\ Len(frames) = 0 /\ DOMAIN frames = {}
  BY <1>1
<1>3. DiskShape
  <2> SUFFICES ASSUME NEW p \in DOMAIN disk
               PROVE  /\ p \in Seq(Atoms) \ {<<>>}
                      /\ \E S : disk[p] \in Seq(S) /\ \A e \in S : Shape(e)
    BY DEF DiskShape
  <2>1. p \in Seq(Atoms) \ {<<>>} /\ disk[p] \in Seq(Entries)
    BY <1>1, StoreAssumption
  <2>2. \A e \in Entries : Shape(e)
    BY DEF Entries, Shape
  <2> QED
    BY <2>1, <2>2, Zenon
<1>4. Shapes
  BY <1>1, <1>2, <1>3, TargetIsText, StoreAssumption DEF Shapes, Phases
<1>5. InNamespace /\ NoCycle /\ Places
  BY <1>1, <1>2 DEF InNamespace, NoCycle, Places, InPlace
<1> QED
  BY <1>4, <1>5 DEF IInv

LEMMA StepHolds == IInv /\ [Next]_vars => IInv'
<1> SUFFICES ASSUME IInv, [Next]_vars PROVE IInv'
  OBVIOUS
<1>1. CASE ReadConfig
  BY <1>1, ReadStep
<1>2. CASE Assign \/ Delete \/ Reject \/ DropRest
  BY <1>2, SymbolStep
<1>3. CASE OpenBlock
  BY <1>3, OpenStep
<1>4. CASE CloseBlock
  BY <1>4, CloseStep
<1>5. CASE Include
  BY <1>5, IncludeStep
<1>6. CASE EndOfFile
  BY <1>6, EndStep
<1>7. CASE Setup \/ Writing \/ Kill \/ Restart
  BY <1>7, IdleStep
<1>8. CASE UNCHANGED vars
  <2>1. \A i : At(i)' = At(i)
    BY <1>8 DEF vars, At
  <2> QED
    BY <1>8, <2>1 DEF vars, IInv, Shapes, DiskShape, InNamespace, NoCycle, Clean, Places,
                      InPlace
<1> QED
  BY <1>1, <1>2, <1>3, <1>4, <1>5, <1>6, <1>7, <1>8 DEF Next, Reading

\* Every included file is read at its place, in the namespace of its include, and not
\* within itself: handleInclude, handleEntry and parseFile of config.cpp.
THEOREM IncludesNestAlways == Spec => []IncludesNest
<1>1. IInv => IncludesNest
  BY DEF IInv, Places, IncludesNest
<1> QED
  BY <1>1, InitHolds, StepHolds, PTL DEF Spec

-----------------------------------------------------------------------------
(* Recursion and sequences *)

\* No element of s is in s twice.
Distinct(s) == \A i, j \in 1..Len(s) : s[i] = s[j] => i = j

\* A set of numbers has a least one.
LEMMA LeastNat ==
    ASSUME NEW T, T \subseteq Nat, T # {}
    PROVE  \E n \in T : \A m \in T : n <= m
<1> DEFINE R == OpToRel(<, Nat)
<1>1. IsWellFoundedOn(R, Nat)
  BY NatLessThanWellFounded, Zenon
<1> HIDE DEF R
<1>2. PICK n \in T : \A m \in T : <<m, n>> \notin R
  BY <1>1, WFMin, Zenon
<1>3. \A m \in T : ~(m < n)
  BY <1>2 DEF R, OpToRel
<1> QED
  BY <1>3

\* Induction over the positions of a sequence, for a set of positions.
LEMMA PositionInduction ==
    ASSUME NEW N \in Nat, NEW P, 0 \in P, \A i \in 1..N : i - 1 \in P => i \in P
    PROVE  \A i \in 0..N : i \in P
<1> DEFINE Bad == (0..N) \ P
<1> SUFFICES ASSUME Bad # {} PROVE FALSE
  OBVIOUS
<1>1. PICK n \in Bad : \A m \in Bad : n <= m
  <2>1. Bad \subseteq Nat
    OBVIOUS
  <2> HIDE DEF Bad
  <2> QED
    BY <2>1, LeastNat, Zenon
<1>2. n \in 1..N /\ n - 1 \in 0..N /\ n - 1 < n
  OBVIOUS
<1>3. n - 1 \in P
  BY <1>1, <1>2
<1> QED
  BY <1>2, <1>3

\* What a recursive function on the positions of a sequence computes, step by step.
IsIterate(f, n, base, step) ==
    /\ f[0] = base
    /\ \A i \in 1..n : f[i] = step[i][f[i - 1]]

LEMMA IterateExists ==
    ASSUME NEW N \in Nat, NEW D, NEW base \in D, NEW step \in [1..N -> [D -> D]]
    PROVE  \E f \in [0..N -> D] : IsIterate(f, N, base, step)
<1> DEFINE P == { n \in 0..N : \E f \in [0..n -> D] : IsIterate(f, n, base, step) }
<1>1. 0 \in P
  <2> DEFINE f == [i \in 0..0 |-> base]
  <2>1. f \in [0..0 -> D] /\ IsIterate(f, 0, base, step)
    BY DEF IsIterate
  <2> HIDE DEF f
  <2> QED
    BY <2>1
<1>2. ASSUME NEW n \in 1..N, n - 1 \in P
      PROVE  n \in P
  <2>1. PICK f \in [0..(n - 1) -> D] : IsIterate(f, n - 1, base, step)
    BY <1>2, Zenon
  <2> DEFINE g == [i \in 0..n |-> IF i = n THEN step[n][f[n - 1]] ELSE f[i]]
  <2>2. g \in [0..n -> D]
    OBVIOUS
  <2>3. IsIterate(g, n, base, step)
    BY <2>1 DEF IsIterate
  <2> HIDE DEF g
  <2> QED
    BY <2>2, <2>3
<1>3. N \in P
  <2> HIDE DEF P
  <2>1. \A i \in 0..N : i \in P
    BY <1>1, <1>2, PositionInduction
  <2> QED
    BY <2>1
<1> QED
  BY <1>3

\* The recursive function of Without.
IsLeft(left, s, X) ==
    /\ left[0] = <<>>
    /\ \A i \in 1..Len(s) : left[i] = IF s[i] \in X THEN left[i - 1]
                                      ELSE Append(left[i - 1], s[i])

LEMMA WithoutSteps ==
    ASSUME NEW S, NEW s \in Seq(S), NEW X
    PROVE  \E left : Without(s, X) = left[Len(s)] /\ IsLeft(left, s, X)
<1> DEFINE n == Len(s)
           D == Seq(S)
           base == <<>>
           step == [i \in 1..n |-> [t \in D |-> IF s[i] \in X THEN t ELSE Append(t, s[i])]]
           Steps(f) == f = [i \in 0..n |-> IF i = 0 THEN <<>>
                                           ELSE IF s[i] \in X THEN f[i - 1]
                                           ELSE Append(f[i - 1], s[i])]
           left == CHOOSE f : Steps(f)
<1>1. n \in Nat /\ base \in D /\ step \in [1..n -> [D -> D]]
  OBVIOUS
<1>2. PICK f \in [0..n -> D] : IsIterate(f, n, base, step)
  <2> HIDE DEF step, n, D, base
  <2> QED
    BY <1>1, IterateExists
<1>3. Steps(f)
  <2> DEFINE g == [i \in 0..n |-> IF i = 0 THEN <<>>
                                  ELSE IF s[i] \in X THEN f[i - 1]
                                  ELSE Append(f[i - 1], s[i])]
  <2>1. \A i \in 0..n : f[i] = g[i]
    <3> SUFFICES ASSUME NEW i \in 0..n PROVE f[i] = g[i]
      OBVIOUS
    <3>1. CASE i = 0
      BY <1>2, <3>1 DEF IsIterate
    <3>2. CASE i # 0
      <4>1. i \in 1..n /\ i - 1 \in 0..n
        BY <1>1, <3>2
      <4>2. f[i] = step[i][f[i - 1]] /\ f[i - 1] \in D
        BY <1>2, <4>1 DEF IsIterate
      <4> QED
        BY <3>2, <4>1, <4>2
    <3> QED
      BY <3>1, <3>2
  <2> QED
    BY <2>1
<1>4. Steps(left)
  <2> HIDE DEF Steps
  <2> QED
    BY <1>3, Zenon
<1>5. Without(s, X) = left[n]
  BY DEF Without
<1> HIDE DEF left
<1>6. left[0] = <<>>
  BY <1>1, <1>4
<1>7. ASSUME NEW i \in 1..n
      PROVE  left[i] = IF s[i] \in X THEN left[i - 1] ELSE Append(left[i - 1], s[i])
  <2>1. i \in 0..n /\ i # 0
    BY <1>1
  <2> HIDE DEF n
  <2> QED
    BY <1>4, <2>1, Zenon
<1>8. \A i \in 1..Len(s) : left[i] = IF s[i] \in X THEN left[i - 1]
                                      ELSE Append(left[i - 1], s[i])
  BY <1>7, Zenon
<1> QED
  BY <1>5, <1>6, <1>8, Zenon DEF IsLeft

LEMMA AppendDistinct ==
    ASSUME NEW S, NEW s \in Seq(S), Distinct(s), NEW e \in S, e \notin ToSet(s)
    PROVE  /\ Append(s, e) \in Seq(S)
           /\ Distinct(Append(s, e))
           /\ ToSet(Append(s, e)) = ToSet(s) \cup {e}
<1> DEFINE t == Append(s, e)
<1>1. /\ t \in Seq(S) /\ Len(t) = Len(s) + 1 /\ Len(s) \in Nat
      /\ \A i \in 1..Len(s) : t[i] = s[i]
      /\ t[Len(s) + 1] = e
      /\ DOMAIN s = 1..Len(s) /\ DOMAIN t = 1..(Len(s) + 1)
  OBVIOUS
<1> HIDE DEF t
<1>2. ToSet(t) = ToSet(s) \cup {e}
  BY <1>1 DEF ToSet
<1>3. \A i \in 1..Len(s) : t[i] # e
  BY <1>1 DEF ToSet
<1>4. Distinct(t)
  <2> SUFFICES ASSUME NEW i \in 1..(Len(s) + 1), NEW j \in 1..(Len(s) + 1), t[i] = t[j]
               PROVE  i = j
    BY <1>1 DEF Distinct
  <2>1. CASE i \in 1..Len(s) /\ j \in 1..Len(s)
    BY <1>1, <2>1 DEF Distinct
  <2>2. CASE i = Len(s) + 1 \/ j = Len(s) + 1
    BY <1>1, <1>3, <2>2
  <2> QED
    BY <1>1, <2>1, <2>2
<1> QED
  BY <1>1, <1>2, <1>4 DEF t

\* Without removes what it should and nothing else.
LEMMA WithoutKeeps ==
    ASSUME NEW S, NEW s \in Seq(S), Distinct(s), NEW X
    PROVE  /\ Without(s, X) \in Seq(S)
           /\ Distinct(Without(s, X))
           /\ ToSet(Without(s, X)) = ToSet(s) \ X
<1>1. PICK left : Without(s, X) = left[Len(s)] /\ IsLeft(left, s, X)
  BY WithoutSteps, Zenon
<1> DEFINE Upto(i) == { s[j] : j \in 1..i }
           Good(i) == /\ left[i] \in Seq(S)
                      /\ Distinct(left[i])
                      /\ ToSet(left[i]) = Upto(i) \ X
           P == { i \in 0..Len(s) : Good(i) }
<1>2. Len(s) \in Nat
  OBVIOUS
<1>3. Good(0)
  <2>1. left[0] = <<>> /\ <<>> \in Seq(S) /\ Distinct(<<>>) /\ ToSet(<<>>) = {}
    BY <1>1 DEF IsLeft, Distinct, ToSet
  <2>2. Upto(0) \ X = {}
    OBVIOUS
  <2> QED
    BY <2>1, <2>2
<1>4. ASSUME NEW i \in 1..Len(s), Good(i - 1) PROVE Good(i)
  <2>1. Upto(i) = Upto(i - 1) \cup {s[i]}
    OBVIOUS
  <2>2. s[i] \notin Upto(i - 1) /\ s[i] \in S
    BY DEF Distinct
  <2> HIDE DEF Upto
  <2>3. CASE s[i] \in X
    <3>1. left[i] = left[i - 1]
      BY <1>1, <2>3, Zenon DEF IsLeft
    <3> QED
      BY <1>4, <2>1, <2>3, <3>1
  <2>4. CASE s[i] \notin X
    <3>1. left[i] = Append(left[i - 1], s[i])
      BY <1>1, <2>4, Zenon DEF IsLeft
    <3>2. s[i] \notin ToSet(left[i - 1])
      BY <1>4, <2>2
    <3> QED
      BY <1>4, <2>1, <2>2, <2>4, <3>1, <3>2, AppendDistinct
  <2> QED
    BY <2>3, <2>4
<1>5. Good(Len(s))
  <2> HIDE DEF Good
  <2>1. 0 \in P /\ \A i \in 1..Len(s) : i - 1 \in P => i \in P
    BY <1>2, <1>3, <1>4
  <2> HIDE DEF P
  <2>2. \A i \in 0..Len(s) : i \in P
    BY <1>2, <2>1, PositionInduction
  <2> QED
    BY <1>2, <2>2 DEF P
<1>6. Upto(Len(s)) = ToSet(s)
  BY DEF ToSet
<1> HIDE DEF Upto
<1> QED
  BY <1>1, <1>5, <1>6

\* The recursive function of FlattenSeq.
IsFlatten(f, ss) ==
    /\ f[1] = ss[1]
    /\ \A i \in 2..Len(ss) : f[i] = f[i - 1] \o ss[i]

LEMMA FlattenSteps ==
    ASSUME NEW S, NEW ss \in Seq(Seq(S)), Len(ss) # 0
    PROVE  \E f : FlattenSeq(ss) = f[Len(ss)] /\ IsFlatten(f, ss)
<1> DEFINE n == Len(ss)
           D == Seq(S)
           base == <<>>
           step == [i \in 1..n |-> [t \in D |-> t \o ss[i]]]
           Steps(f) == f = [i \in 1..n |-> IF i = 1 THEN ss[i] ELSE f[i - 1] \o ss[i]]
           flatten == CHOOSE f : Steps(f)
<1>1. /\ n \in Nat \ {0} /\ \A i \in 1..n : ss[i] \in D
      /\ base \in D /\ step \in [1..n -> [D -> D]]
  OBVIOUS
<1>2. PICK f \in [0..n -> D] : IsIterate(f, n, base, step)
  <2> HIDE DEF step, n, D, base
  <2> QED
    BY <1>1, IterateExists
<1> DEFINE g == [i \in 1..n |-> f[i]]
<1>3. Steps(g)
  <2> DEFINE h == [i \in 1..n |-> IF i = 1 THEN ss[i] ELSE g[i - 1] \o ss[i]]
  <2>1. \A i \in 1..n : g[i] = h[i]
    <3> SUFFICES ASSUME NEW i \in 1..n PROVE g[i] = h[i]
      OBVIOUS
    <3>1. i - 1 \in 0..n /\ ss[i] \in D
      BY <1>1
    <3>2. f[i] = f[i - 1] \o ss[i]
      BY <1>2, <3>1 DEF IsIterate
    <3>3. CASE i = 1
      <4>1. f[i - 1] = <<>>
        BY <1>2, <3>3 DEF IsIterate
      <4> HIDE DEF step, n
      <4>2. <<>> \o ss[i] = ss[i]
        BY <3>1, ConcatEmptySeq
      <4> QED
        BY <3>2, <3>3, <4>1, <4>2
    <3>4. CASE i # 1
      <4>1. i - 1 \in 1..n
        BY <1>1, <3>4
      <4> QED
        BY <3>2, <3>4, <4>1
    <3> QED
      BY <3>3, <3>4
  <2> HIDE DEF n
  <2>2. g = h
    BY <2>1
  <2> QED
    BY <2>2
<1>4. Steps(flatten)
  <2> HIDE DEF Steps
  <2> QED
    BY <1>3, Zenon
<1>5. FlattenSeq(ss) = flatten[n]
  BY DEF FlattenSeq
<1> HIDE DEF flatten
<1>6. flatten[1] = ss[1]
  BY <1>1, <1>4
<1>7. ASSUME NEW i \in 2..n PROVE flatten[i] = flatten[i - 1] \o ss[i]
  <2>1. i \in 1..n /\ i # 1
    BY <1>1
  <2> HIDE DEF n
  <2> QED
    BY <1>4, <2>1, Zenon
<1>8. \A i \in 2..Len(ss) : flatten[i] = flatten[i - 1] \o ss[i]
  BY <1>7, Zenon
<1> QED
  BY <1>5, <1>6, <1>8, Zenon DEF IsFlatten

LEMMA FlattenType ==
    ASSUME NEW S, NEW ss \in Seq(Seq(S))
    PROVE  FlattenSeq(ss) \in Seq(S)
<1>1. CASE Len(ss) = 0
  BY <1>1 DEF FlattenSeq
<1>2. CASE Len(ss) # 0
  <2>1. PICK f : FlattenSeq(ss) = f[Len(ss)] /\ IsFlatten(f, ss)
    BY <1>2, FlattenSteps
  <2> DEFINE P == { i \in 0..Len(ss) : i = 0 \/ f[i] \in Seq(S) }
  <2>2. Len(ss) \in Nat \ {0} /\ \A i \in 1..Len(ss) : ss[i] \in Seq(S)
    BY <1>2
  <2>3. 0 \in P
    BY <2>2
  <2>4. ASSUME NEW i \in 1..Len(ss), i - 1 \in P PROVE i \in P
    <3>1. CASE i = 1
      <4>1. f[1] \in Seq(S)
        BY <2>1, <2>2, <3>1 DEF IsFlatten
      <4> QED
        BY <3>1, <4>1
    <3>2. CASE i # 1
      <4>1. i \in 2..Len(ss) /\ f[i - 1] \in Seq(S)
        BY <2>2, <2>4, <3>2
      <4>2. f[i] = f[i - 1] \o ss[i] /\ ss[i] \in Seq(S)
        BY <2>1, <2>2, <4>1, Zenon DEF IsFlatten
      <4>3. f[i] \in Seq(S)
        BY <4>1, <4>2, ConcatProperties
      <4> QED
        BY <4>3
    <3> QED
      BY <3>1, <3>2
  <2>5. \A i \in 0..Len(ss) : i \in P
    <3> HIDE DEF P
    <3> QED
      BY <2>2, <2>3, <2>4, PositionInduction
  <2> QED
    BY <2>1, <2>2, <2>5
<1> QED
  BY <1>1, <1>2

LEMMA FlattenSingles ==
    ASSUME NEW S, NEW ss \in Seq(Seq(S)), NEW e \in Seq(S), Len(e) = Len(ss),
           \A i \in 1..Len(ss) : ss[i] = <<e[i]>>
    PROVE  FlattenSeq(ss) = e
<1>1. CASE Len(ss) = 0
  BY <1>1 DEF FlattenSeq
<1>2. CASE Len(ss) # 0
  <2>1. PICK f : FlattenSeq(ss) = f[Len(ss)] /\ IsFlatten(f, ss)
    BY <1>2, FlattenSteps
  <2> DEFINE Good(i) == /\ f[i] \in Seq(S) /\ Len(f[i]) = i
                        /\ \A j \in 1..i : f[i][j] = e[j]
             P == { i \in 0..Len(ss) : i = 0 \/ Good(i) }
  <2>2. Len(ss) \in Nat \ {0} /\ \A i \in 1..Len(ss) : e[i] \in S
    BY <1>2
  <2>3. ASSUME NEW i \in 1..Len(ss), i = 1 \/ Good(i - 1) PROVE Good(i)
    <3>1. CASE i = 1
      <4>1. f[1] = <<e[1]>> /\ e[1] \in S
        BY <2>1, <2>2, <3>1 DEF IsFlatten
      <4> QED
        BY <3>1, <4>1
    <3>2. CASE i # 1
      <4>1. i \in 2..Len(ss) /\ Good(i - 1)
        BY <2>2, <2>3, <3>2
      <4>2. f[i] = f[i - 1] \o <<e[i]>> /\ e[i] \in S
        BY <2>1, <2>2, <4>1 DEF IsFlatten
      <4>3. f[i] = Append(f[i - 1], e[i])
        BY <4>1, <4>2, AppendIsConcat
      <4> QED
        BY <4>1, <4>2, <4>3
    <3> QED
      BY <3>1, <3>2
  <2>4. Good(Len(ss))
    <3> HIDE DEF Good
    <3>1. 0 \in P /\ \A i \in 1..Len(ss) : i - 1 \in P => i \in P
      BY <2>2, <2>3
    <3> HIDE DEF P
    <3>2. \A i \in 0..Len(ss) : i \in P
      BY <2>2, <3>1, PositionInduction
    <3> QED
      BY <2>2, <3>2 DEF P
  <2> QED
    BY <2>1, <2>4, SeqEqual
<1> QED
  BY <1>1, <1>2

-----------------------------------------------------------------------------
(* Right sides *)

\* The values of a right side that has no references.
HasNoReferences(rhs) == \A i \in DOMAIN rhs : "lit" \in DOMAIN rhs[i]
Literals(rhs) == [i \in DOMAIN rhs |-> rhs[i].lit]

Symbols == [values : Seq(Values) \ {<<>>}, content : Seq(Items), uri : Texts \cup {NoUri}]

HasValues(T) == \A n \in Defined(T) : T.sym[n].values \in Seq(Values)

LEMMA EvalType ==
    ASSUME NEW T, HasValues(T), NEW rhs \in Seq(Items)
    PROVE  Eval(T, rhs) \in Seq(Values)
<1> DEFINE parts == [i \in DOMAIN rhs |->
              IF "lit" \in DOMAIN rhs[i] THEN <<rhs[i].lit>> ELSE Lookup(T, rhs[i].ref)]
<1>1. \A i \in 1..Len(rhs) : parts[i] \in Seq(Values)
  <2> SUFFICES ASSUME NEW i \in 1..Len(rhs) PROVE parts[i] \in Seq(Values)
    OBVIOUS
  <2>1. rhs[i] \in Items
    OBVIOUS
  <2>2. CASE rhs[i] \in [lit : Values]
    <3>1. "lit" \in DOMAIN rhs[i] /\ rhs[i].lit \in Values
      BY <2>2
    <3> QED
      BY <3>1
  <2>3. CASE rhs[i] \in [ref : Names]
    <3>1. "lit" \notin DOMAIN rhs[i] /\ rhs[i].ref \in Names
      BY <2>3
    <3>2. Lookup(T, rhs[i].ref) \in Seq(Values)
      BY ValuesAssumption DEF Lookup, HasValues
    <3> QED
      BY <3>1, <3>2
  <2> QED
    BY <2>1, <2>2, <2>3 DEF Items
<1>2. parts \in Seq(Seq(Values))
  <2>1. DOMAIN rhs = 1..Len(rhs) /\ Len(rhs) \in Nat
    OBVIOUS
  <2> QED
    BY <1>1, <2>1
<1> HIDE DEF parts
<1>3. FlattenSeq(parts) \in Seq(Values)
  BY <1>2, FlattenType
<1> QED
  BY <1>3 DEF Eval, parts

LEMMA EvalLiterals ==
    ASSUME NEW T, NEW rhs \in Seq(Items), HasNoReferences(rhs)
    PROVE  /\ Eval(T, rhs) = Literals(rhs)
           /\ Literals(rhs) \in Seq(Values)
<1> DEFINE parts == [i \in DOMAIN rhs |->
              IF "lit" \in DOMAIN rhs[i] THEN <<rhs[i].lit>> ELSE Lookup(T, rhs[i].ref)]
<1>0. DOMAIN rhs = 1..Len(rhs) /\ Len(rhs) \in Nat
  OBVIOUS
<1>1. \A i \in 1..Len(rhs) : parts[i] = <<rhs[i].lit>> /\ rhs[i].lit \in Values
  <2> SUFFICES ASSUME NEW i \in 1..Len(rhs)
               PROVE  parts[i] = <<rhs[i].lit>> /\ rhs[i].lit \in Values
    OBVIOUS
  <2>1. rhs[i] \in Items /\ "lit" \in DOMAIN rhs[i]
    BY <1>0 DEF HasNoReferences
  <2>2. rhs[i].lit \in Values
    BY <2>1 DEF Items
  <2> QED
    BY <2>1, <2>2
<1>2. parts \in Seq(Seq(Values)) /\ Len(parts) = Len(rhs)
  <2>1. ASSUME NEW i \in 1..Len(rhs) PROVE parts[i] \in Seq(Values)
    <3>1. parts[i] = <<rhs[i].lit>> /\ rhs[i].lit \in Values
      BY <1>1
    <3> HIDE DEF parts
    <3> QED
      BY <3>1
  <2>2. DOMAIN parts = 1..Len(rhs)
    BY <1>0
  <2> QED
    BY <1>0, <2>1, <2>2
<1>3. /\ Literals(rhs) \in Seq(Values) /\ Len(Literals(rhs)) = Len(rhs)
      /\ \A i \in 1..Len(rhs) : Literals(rhs)[i] = rhs[i].lit
  <2> DEFINE literals == [i \in 1..Len(rhs) |-> rhs[i].lit]
  <2>1. literals \in [1..Len(rhs) -> Values]
    BY <1>1
  <2>2. literals \in Seq(Values) /\ Len(literals) = Len(rhs)
    BY <1>0, <2>1
  <2> QED
    BY <1>0, <2>2 DEF Literals
<1>4. \A i \in 1..Len(parts) : parts[i] = <<Literals(rhs)[i]>>
  BY <1>1, <1>2, <1>3
<1>5. Eval(T, rhs) = FlattenSeq(parts)
  BY DEF Eval
<1> HIDE DEF parts
<1>6. FlattenSeq(parts) = Literals(rhs)
  BY <1>2, <1>3, <1>4, FlattenSingles
<1> QED
  BY <1>3, <1>5, <1>6

-----------------------------------------------------------------------------
(* The symbol table *)

\* A symbol that was read from literals has their values, one that was set has one.
IsFaithful(s) ==
    IF s.uri = NoUri THEN Len(s.values) = 1
    ELSE HasNoReferences(s.content) => s.values = Literals(s.content)

TableOK(T) ==
    /\ T = [order |-> T.order, sym |-> T.sym]
    /\ T.order \in Seq(Names)
    /\ Distinct(T.order)
    /\ T.sym \in [ToSet(T.order) -> Symbols]
    /\ \A n \in ToSet(T.order) : IsFaithful(T.sym[n])

LEMMA EmptyTableOK == TableOK(EmptyTable)
BY DEF TableOK, EmptyTable, Distinct, ToSet

LEMMA PutOK ==
    ASSUME NEW T, TableOK(T), NEW n \in Names, NEW s \in Symbols, IsFaithful(s)
    PROVE  TableOK(Put(T, n, s))
<1> DEFINE o == IF n \in Defined(T) THEN T.order ELSE Append(T.order, n)
           y == [m \in Defined(T) \cup {n} |-> IF m = n THEN s ELSE T.sym[m]]
<1>1. /\ T.order \in Seq(Names) /\ Distinct(T.order)
      /\ T.sym \in [ToSet(T.order) -> Symbols]
      /\ \A m \in ToSet(T.order) : IsFaithful(T.sym[m])
      /\ Defined(T) = ToSet(T.order)
  BY DEF TableOK, Defined
<1>2. o \in Seq(Names) /\ Distinct(o) /\ ToSet(o) = ToSet(T.order) \cup {n}
  <2>1. CASE n \in Defined(T)
    BY <1>1, <2>1
  <2>2. CASE n \notin Defined(T)
    <3>1. /\ Append(T.order, n) \in Seq(Names) /\ Distinct(Append(T.order, n))
          /\ ToSet(Append(T.order, n)) = ToSet(T.order) \cup {n}
      BY <1>1, <2>2, AppendDistinct
    <3> QED
      BY <2>2, <3>1
  <2> QED
    BY <2>1, <2>2
<1>3. y \in [ToSet(T.order) \cup {n} -> Symbols]
  BY <1>1
<1>4. \A m \in ToSet(T.order) \cup {n} : IsFaithful(y[m])
  <2> SUFFICES ASSUME NEW m \in ToSet(T.order) \cup {n} PROVE IsFaithful(y[m])
    OBVIOUS
  <2>1. y[m] = IF m = n THEN s ELSE T.sym[m]
    BY <1>1
  <2> HIDE DEF y
  <2>2. CASE m = n
    BY <2>1, <2>2
  <2>3. CASE m # n
    BY <1>1, <2>1, <2>3
  <2> QED
    BY <2>2, <2>3
<1>5. Put(T, n, s) = [order |-> o, sym |-> y]
  BY DEF Put
<1> HIDE DEF o, y
<1>6. Put(T, n, s).order = o /\ Put(T, n, s).sym = y
  BY <1>5
<1> QED
  BY <1>2, <1>3, <1>4, <1>5, <1>6 DEF TableOK

LEMMA DropOK ==
    ASSUME NEW T, TableOK(T), NEW X
    PROVE  TableOK(Drop(T, X))
<1> DEFINE o == Without(T.order, X)
           y == [m \in ToSet(T.order) \ X |-> T.sym[m]]
<1>1. /\ T.order \in Seq(Names) /\ Distinct(T.order)
      /\ T.sym \in [ToSet(T.order) -> Symbols]
      /\ \A m \in ToSet(T.order) : IsFaithful(T.sym[m])
      /\ Defined(T) = ToSet(T.order)
  BY DEF TableOK, Defined
<1>2. o \in Seq(Names) /\ Distinct(o) /\ ToSet(o) = ToSet(T.order) \ X
  BY <1>1, WithoutKeeps
<1>3. y \in [ToSet(T.order) \ X -> Symbols]
  BY <1>1
<1>4. \A m \in ToSet(T.order) \ X : y[m] = T.sym[m]
  OBVIOUS
<1>5. Drop(T, X) = [order |-> o, sym |-> y]
  BY <1>1 DEF Drop, Restrict
<1> HIDE DEF o, y
<1>6. Drop(T, X).order = o /\ Drop(T, X).sym = y
  BY <1>5
<1> QED
  BY <1>1, <1>2, <1>3, <1>4, <1>5, <1>6 DEF TableOK

LEMMA SetOK ==
    ASSUME NEW T, TableOK(T), NEW n \in Defined(T), NEW v \in Values
    PROVE  TableOK([T EXCEPT !.sym[n].values = <<v>>, !.sym[n].uri = NoUri])
<1> DEFINE s == [values |-> <<v>>, content |-> T.sym[n].content, uri |-> NoUri]
           y == [T.sym EXCEPT ![n] = s]
           U == [T EXCEPT !.sym[n].values = <<v>>, !.sym[n].uri = NoUri]
<1>1. /\ T = [order |-> T.order, sym |-> T.sym]
      /\ T.order \in Seq(Names) /\ Distinct(T.order)
      /\ T.sym \in [ToSet(T.order) -> Symbols]
      /\ \A m \in ToSet(T.order) : IsFaithful(T.sym[m])
      /\ Defined(T) = ToSet(T.order)
  BY DEF TableOK, Defined
<1>2. T.sym[n] \in Symbols
  BY <1>1
<1>3. s \in Symbols /\ IsFaithful(s)
  BY <1>2 DEF Symbols, IsFaithful
<1>4. [T.sym[n] EXCEPT !.values = <<v>>, !.uri = NoUri] = s
  <2> DEFINE r == T.sym[n]
             w == <<v>>
             q == [r EXCEPT !.values = w, !.uri = NoUri]
  <2>1. r \in Symbols /\ w \in Seq(Values) \ {<<>>}
    BY <1>2
  <2> HIDE DEF r, w
  <2>2. q \in Symbols /\ q.values = w /\ q.content = r.content /\ q.uri = NoUri
    BY <2>1 DEF Symbols
  <2> HIDE DEF q
  <2>3. q = [values |-> q.values, content |-> q.content, uri |-> q.uri]
    BY <2>2 DEF Symbols
  <2>4. q = [values |-> w, content |-> r.content, uri |-> NoUri]
    BY <2>2, <2>3
  <2> QED
    BY <2>4 DEF q, r, w
<1>5. U = [order |-> T.order, sym |-> y]
  <2>1. U = [T EXCEPT !.sym = [T.sym EXCEPT ![n] =
                                 [T.sym[n] EXCEPT !.values = <<v>>, !.uri = NoUri]]]
    BY <1>1
  <2> QED
    BY <1>1, <1>4, <2>1
<1>6. y \in [ToSet(T.order) -> Symbols] /\ \A m \in ToSet(T.order) : IsFaithful(y[m])
  <2> HIDE DEF s
  <2> QED
    BY <1>1, <1>3
<1> HIDE DEF U, y
<1>7. U.order = T.order /\ U.sym = y
  BY <1>5
<1> QED
  BY <1>1, <1>5, <1>6, <1>7 DEF TableOK, U

LEMMA DistinctCount ==
    ASSUME NEW S, NEW s \in Seq(S), Distinct(s)
    PROVE  Len(s) = Cardinality(ToSet(s))
<1>1. Len(s) \in Nat /\ DOMAIN s = 1..Len(s)
  OBVIOUS
<1>2. s \in Bijection(1..Len(s), ToSet(s))
  BY <1>1 DEF Bijection, Injection, Surjection, IsInjective, Distinct, ToSet
<1>3. ExistsBijection(1..Len(s), ToSet(s))
  BY <1>2 DEF ExistsBijection
<1> QED
  BY <1>1, <1>3, FS_CountingElements

\* The names of the lines that writeConfig writes.
LEMMA LocalOrderOK ==
    ASSUME TableOK(table)
    PROVE  /\ LocalOrder \in Seq(Names) /\ Distinct(LocalOrder)
           /\ ToSet(LocalOrder) = { n \in Defined(table) : Local(n) }
<1>1. /\ table.order \in Seq(Names) /\ Distinct(table.order)
      /\ Defined(table) = ToSet(table.order)
  BY DEF TableOK, Defined
<1> DEFINE X == { n \in Defined(table) : ~Local(n) }
<1>2. LocalOrder = Without(table.order, X)
  BY DEF LocalOrder
<1> HIDE DEF X
<1>3. /\ LocalOrder \in Seq(Names) /\ Distinct(LocalOrder)
      /\ ToSet(LocalOrder) = ToSet(table.order) \ X
  BY <1>1, <1>2, WithoutKeeps
<1> QED
  BY <1>1, <1>3 DEF X

LEMMA SymbolType ==
    ASSUME TableOK(table), NEW n \in Defined(table)
    PROVE  /\ n \in Names /\ table.sym[n] \in Symbols /\ IsFaithful(table.sym[n])
           /\ table.sym[n].values \in Seq(Values) \ {<<>>}
           /\ table.sym[n].content \in Seq(Items)
           /\ table.sym[n].uri \in Texts \cup {NoUri}
<1>1. n \in ToSet(table.order) /\ table.order \in Seq(Names)
  BY DEF TableOK, Defined
<1>2. table.sym[n] \in Symbols /\ IsFaithful(table.sym[n])
  BY <1>1 DEF TableOK
<1>3. n \in Names
  BY <1>1 DEF ToSet
<1> QED
  BY <1>2, <1>3 DEF Symbols

LEMMA AssignmentType ==
    ASSUME NEW n \in Names, NEW rhs \in Seq(Items)
    PROVE  /\ Assignment(n, rhs) \in Entries
           /\ Assignment(n, rhs).kind = "assign"
           /\ Assignment(n, rhs).name = n /\ Assignment(n, rhs).rhs = rhs
BY DEF Assignment, Entries

LEMMA LiteralType ==
    ASSUME NEW v \in Values
    PROVE  /\ <<Literal(v)>> \in Seq(Items)
           /\ HasNoReferences(<<Literal(v)>>)
           /\ Literals(<<Literal(v)>>) = <<v>>
<1>1. Literal(v) \in Items /\ "lit" \in DOMAIN Literal(v) /\ Literal(v).lit = v
  BY DEF Literal, Items
<1> DEFINE l == Literal(v)
<1> HIDE DEF l
<1>2. <<l>> \in Seq(Items) /\ HasNoReferences(<<l>>)
  BY <1>1 DEF l, HasNoReferences
<1>3. Literals(<<l>>) = <<v>>
  BY <1>1 DEF l, Literals
<1> QED
  BY <1>2, <1>3 DEF l

LEMMA EntryFields ==
    ASSUME NEW e \in Entries
    PROVE  /\ e.kind = "assign" => e.name \in Names /\ e.rhs \in Seq(Items)
           /\ e.kind = "include" => e.path \in Texts
           /\ e.kind = "unfinished" => e.name \in Names
BY DEF Entries

LEMMA UnfinishedType ==
    ASSUME NEW n \in Names
    PROVE  /\ Unfinished(n) \in Entries
           /\ Unfinished(n).kind = "unfinished" /\ Unfinished(n).name = n
BY DEF Unfinished, Entries

LEMMA MalformedType == Malformed \in Entries /\ Malformed.kind = "malformed"
BY DEF Malformed, Entries

LEMMA GarbledType ==
    ASSUME NEW n \in Names, NEW e \in Garbled(n)
    PROVE  /\ e \in Entries /\ e.kind # "unfinished"
           /\ e.kind = "assign" => e.name = n
<1>1. CASE e = Malformed
  BY <1>1, MalformedType
<1>2. CASE e # Malformed
  <2>1. PICK rhs \in Misread : e = Assignment(n, rhs)
    BY <1>2 DEF Garbled
  <2>2. rhs \in Seq(Items)
    BY MisreadAssumption
  <2> QED
    BY <2>1, <2>2, AssignmentType
<1> QED
  BY <1>1, <1>2

\* What the line of a symbol can be: it is about that symbol, and continued only if
\* MayContinue says so.
LEMMA WrittenType ==
    ASSUME TableOK(table), NEW n \in Defined(table),
           NEW l \in WrittenLines(n, table.sym[n])
    PROVE  /\ l \in Entries
           /\ l.kind \in {"assign", "unfinished"} => l.name = n
           /\ l.kind = "unfinished" => MayContinue(table.sym[n])
<1> DEFINE s == table.sym[n]
<1>1. /\ n \in Names /\ s.values \in Seq(Values) \ {<<>>} /\ s.content \in Seq(Items)
  BY SymbolType
<1> HIDE DEF s
<1>2. s.values[1] \in Values
  BY <1>1
<1>3. CASE l = Unfinished(n) /\ MayContinue(s)
  BY <1>1, <1>3, UnfinishedType DEF s
<1>4. CASE l \in Garbled(n)
  BY <1>1, <1>4, GarbledType
<1>5. ASSUME NEW rhs \in Seq(Items), l = Assignment(n, rhs)
      PROVE  l \in Entries /\ l.kind = "assign" /\ l.name = n
  BY <1>1, <1>5, AssignmentType
<1>6. CASE s.uri = NoUri
  <2> DEFINE v == s.values[1]
             w == IF v \in WithHash THEN Cut[v] ELSE v
  <2>1. l \in WrittenValue(n, v)
    BY <1>6 DEF WrittenLines, s
  <2>2. CASE v \in Joining
    <3>1. l = Unfinished(n) /\ MayContinue(s)
      BY <1>6, <2>1, <2>2, ValuesAssumption DEF WrittenValue, MayContinue
    <3> QED
      BY <1>3, <3>1
  <2>3. CASE v \in WithQuote \ Joining
    <3>1. l \in Garbled(n)
      BY <2>1, <2>3, ValuesAssumption DEF WrittenValue
    <3> QED
      BY <1>4, <3>1
  <2>4. CASE v \in WithHash /\ Cut[v] = Nothing
    <3>1. l \in Garbled(n)
      BY <2>1, <2>4, ValuesAssumption DEF WrittenValue, Garbled
    <3> QED
      BY <1>4, <3>1
  <2>5. CASE v \notin WithQuote /\ ~(v \in WithHash /\ Cut[v] = Nothing)
    <3>1. l = Assignment(n, <<Literal(w)>>)
      BY <2>1, <2>5, ValuesAssumption DEF WrittenValue
    <3>2. w \in Values
      BY <1>2, <2>5, ValuesAssumption
    <3> HIDE DEF w
    <3>3. <<Literal(w)>> \in Seq(Items)
      BY <3>2, LiteralType
    <3>4. l \in Entries /\ l.kind = "assign" /\ l.name = n
      BY <1>5, <3>1, <3>3
    <3> QED
      BY <3>4
  <2> QED
    BY <2>2, <2>3, <2>4, <2>5, ValuesAssumption
<1>7. CASE s.uri # NoUri
  <2>1. \/ l = Assignment(n, s.content)
        \/ l \in Garbled(n)
        \/ l = Unfinished(n) /\ MayContinue(s)
    BY <1>7 DEF WrittenLines, MayContinue, s
  <2>2. CASE l = Assignment(n, s.content)
    <3>1. l \in Entries /\ l.kind = "assign" /\ l.name = n
      BY <1>1, <1>5, <2>2
    <3> QED
      BY <3>1
  <2> QED
    BY <1>3, <1>4, <2>1, <2>2
<1> QED
  BY <1>6, <1>7

\* The line of a value that can be written is not continued and gives the symbol its
\* value again, whatever was read before.
LEMMA WrittenReads ==
    ASSUME TableOK(table), NEW n \in Defined(table), Writable(n), NEW T
    PROVE  /\ ~MayContinue(table.sym[n])
           /\ table.sym[n].values # <<>>
           /\ \A l \in WrittenLines(n, table.sym[n]) :
                 /\ l.kind = "assign" /\ l.name = n
                 /\ Eval(T, l.rhs) = table.sym[n].values
<1> DEFINE s == table.sym[n]
           v == s.values[1]
<1>1. /\ n \in Names /\ s.values \in Seq(Values) \ {<<>>} /\ s.content \in Seq(Items)
      /\ IsFaithful(s)
  BY SymbolType
<1>2. IF s.uri = NoUri THEN v \notin WithQuote \cup WithHash
      ELSE HasNoReferences(s.content) /\ s.content \notin Fragile
  BY DEF Writable, HasNoReferences
<1> HIDE DEF s
<1>3. CASE s.uri = NoUri
  <2>1. WrittenLines(n, s) = {Assignment(n, <<Literal(v)>>)} /\ ~MayContinue(s)
    BY <1>2, <1>3, ValuesAssumption DEF WrittenLines, WrittenValue, MayContinue
  <2>2. v \in Values /\ s.values = <<v>>
    BY <1>1, <1>3 DEF IsFaithful
  <2> HIDE DEF v
  <2>3. /\ <<Literal(v)>> \in Seq(Items) /\ HasNoReferences(<<Literal(v)>>)
        /\ Literals(<<Literal(v)>>) = <<v>>
    BY <2>2, LiteralType
  <2>4. Eval(T, <<Literal(v)>>) = <<v>>
    BY <2>3, EvalLiterals
  <2> DEFINE rhs == <<Literal(v)>>
  <2> HIDE DEF rhs
  <2>5. LET e == Assignment(n, rhs) IN e.kind = "assign" /\ e.name = n /\ e.rhs = rhs
    BY <1>1, <2>3, AssignmentType DEF rhs
  <2>6. /\ WrittenLines(n, s) = {Assignment(n, rhs)} /\ ~MayContinue(s)
        /\ Eval(T, rhs) = s.values /\ s.values # <<>>
    BY <1>1, <2>1, <2>2, <2>4 DEF rhs
  <2> QED
    BY <2>5, <2>6 DEF s
<1>4. CASE s.uri # NoUri
  <2>1. WrittenLines(n, s) = {Assignment(n, s.content)} /\ ~MayContinue(s)
    BY <1>2, <1>4 DEF WrittenLines, MayContinue
  <2>2. HasNoReferences(s.content) /\ s.values = Literals(s.content)
    BY <1>1, <1>2, <1>4 DEF IsFaithful
  <2>3. Eval(T, s.content) = s.values
    BY <1>1, <2>2, EvalLiterals
  <2> QED
    BY <1>1, <2>1, <2>3, AssignmentType DEF s
<1> QED
  BY <1>3, <1>4, Zenon

-----------------------------------------------------------------------------
(* Reading back *)

\* The recursive function of ReadAlone.
IsReading(read, file) ==
    /\ read[0] = EmptyTable
    /\ \A i \in 1..Len(file) : read[i] = AfterEntry(read[i - 1], file[i])

\* The tables it goes through.
ReadTables == [order : Seq(Names),
               sym : UNION { [X -> [values : Seq(Values)]] : X \in SUBSET Names }]

LEMMA ReadTableFields ==
    ASSUME NEW T \in ReadTables
    PROVE  /\ T.order \in Seq(Names) /\ Defined(T) \subseteq Names
           /\ T.sym \in [Defined(T) -> [values : Seq(Values)]]
           /\ HasValues(T)
<1>1. /\ T.order \in Seq(Names)
      /\ T.sym \in UNION { [X -> [values : Seq(Values)]] : X \in SUBSET Names }
  BY DEF ReadTables
<1>2. PICK X \in SUBSET Names : T.sym \in [X -> [values : Seq(Values)]]
  BY <1>1
<1>3. Defined(T) = X
  BY <1>2 DEF Defined
<1> QED
  BY <1>1, <1>2, <1>3 DEF HasValues

LEMMA AfterEntryType ==
    ASSUME NEW T \in ReadTables, NEW e \in Entries
    PROVE  AfterEntry(T, e) \in ReadTables
<1>1. CASE e.kind # "assign" \/ Eval(T, e.rhs) = <<>>
  BY <1>1 DEF AfterEntry
<1>2. CASE ~(e.kind # "assign" \/ Eval(T, e.rhs) = <<>>)
  <2> DEFINE s == [values |-> Eval(T, e.rhs)]
             n == e.name
             o == IF n \in Defined(T) THEN T.order ELSE Append(T.order, n)
             y == [m \in Defined(T) \cup {n} |-> IF m = n THEN s ELSE T.sym[m]]
  <2>1. n \in Names /\ e.rhs \in Seq(Items)
    BY <1>2, EntryFields
  <2>2. s \in [values : Seq(Values)]
    BY <2>1, EvalType, ReadTableFields
  <2>3. /\ T.order \in Seq(Names) /\ Defined(T) \subseteq Names
        /\ T.sym \in [Defined(T) -> [values : Seq(Values)]]
    BY ReadTableFields
  <2>4. AfterEntry(T, e) = [order |-> o, sym |-> y]
    BY <1>2 DEF AfterEntry, Put
  <2> HIDE DEF s, n
  <2>5. o \in Seq(Names)
    BY <2>1, <2>3
  <2>6. y \in [Defined(T) \cup {n} -> [values : Seq(Values)]]
    BY <2>2, <2>3
  <2>7. Defined(T) \cup {n} \in SUBSET Names
    BY <2>1, <2>3
  <2> DEFINE X == Defined(T) \cup {n}
  <2> HIDE DEF o, y, X
  <2>8. y \in UNION { [Z -> [values : Seq(Values)]] : Z \in SUBSET Names }
    <3>1. y \in [X -> [values : Seq(Values)]] /\ X \in SUBSET Names
      BY <2>6, <2>7 DEF X
    <3> QED
      BY <3>1
  <2> QED
    BY <2>4, <2>5, <2>8 DEF ReadTables
<1> QED
  BY <1>1, <1>2

LEMMA ReadAloneSteps ==
    ASSUME NEW file \in Seq(Entries)
    PROVE  \E read : ReadAlone(file) = read[Len(file)] /\ IsReading(read, file)
<1> DEFINE n == Len(file)
           base == EmptyTable
           step == [i \in 1..n |-> [T \in ReadTables |-> AfterEntry(T, file[i])]]
           Steps(f) == f = [i \in 0..n |-> IF i = 0 THEN EmptyTable
                                           ELSE AfterEntry(f[i - 1], file[i])]
           read == CHOOSE f : Steps(f)
<1>1. ReadAlone(file) = read[n]
  BY DEF ReadAlone
<1>2. n \in Nat /\ \A i \in 1..n : file[i] \in Entries
  OBVIOUS
<1>3. base \in ReadTables
  <2>1. <<>> \in [{} -> [values : Seq(Values)]] /\ {} \in SUBSET Names
    OBVIOUS
  <2>2. <<>> \in UNION { [Z -> [values : Seq(Values)]] : Z \in SUBSET Names }
    BY <2>1
  <2> DEFINE U == UNION { [Z -> [values : Seq(Values)]] : Z \in SUBSET Names }
  <2>3. ReadTables = [order : Seq(Names), sym : U]
    BY Zenon DEF ReadTables
  <2>4. <<>> \in U
    BY <2>2, Zenon
  <2>5. <<>> \in Seq(Names)
    OBVIOUS
  <2> HIDE DEF U
  <2> QED
    BY <2>3, <2>4, <2>5 DEF EmptyTable
<1>4. step \in [1..n -> [ReadTables -> ReadTables]]
  BY <1>2, AfterEntryType
<1>5. PICK f \in [0..n -> ReadTables] : IsIterate(f, n, base, step)
  <2> HIDE DEF n, base, step
  <2> QED
    BY <1>2, <1>3, <1>4, IterateExists
<1>6. Steps(f)
  <2> DEFINE g == [i \in 0..n |-> IF i = 0 THEN EmptyTable ELSE AfterEntry(f[i - 1], file[i])]
  <2>1. \A i \in 0..n : f[i] = g[i]
    <3> SUFFICES ASSUME NEW i \in 0..n PROVE f[i] = g[i]
      OBVIOUS
    <3>1. CASE i = 0
      BY <1>5, <3>1 DEF IsIterate
    <3>2. CASE i # 0
      <4>1. i \in 1..n /\ i - 1 \in 0..n
        BY <1>2, <3>2
      <4>2. f[i] = step[i][f[i - 1]] /\ f[i - 1] \in ReadTables
        BY <1>5, <4>1 DEF IsIterate
      <4>3. step[i][f[i - 1]] = AfterEntry(f[i - 1], file[i])
        BY <4>1, <4>2
      <4> QED
        BY <3>2, <4>1, <4>2, <4>3
    <3> QED
      BY <3>1, <3>2
  <2> HIDE DEF n
  <2> QED
    BY <2>1
<1>7. Steps(read)
  <2> HIDE DEF Steps
  <2> QED
    BY <1>6, Zenon
<1> HIDE DEF read
<1>8. read[0] = EmptyTable
  BY <1>2, <1>7
<1>9. ASSUME NEW i \in 1..n
      PROVE  read[i] = AfterEntry(read[i - 1], file[i])
  <2>1. i \in 0..n /\ i # 0
    BY <1>2
  <2> HIDE DEF n
  <2> QED
    BY <1>7, <2>1, Zenon
<1>10. IsReading(read, file)
  BY <1>8, <1>9, Zenon DEF IsReading
<1> QED
  BY <1>1, <1>10, Zenon

LEMMA ReadNothing == ReadAlone(<<>>) = EmptyTable
<1> DEFINE s == <<>>
<1>1. s \in Seq(Entries) /\ Len(s) = 0
  OBVIOUS
<1> HIDE DEF s
<1>2. ReadAlone(s) = EmptyTable
  BY <1>1, ReadAloneSteps DEF IsReading
<1> QED
  BY <1>2 DEF s

\* One more entry is one more step.
LEMMA ReadAppend ==
    ASSUME NEW file \in Seq(Entries), NEW e \in Entries
    PROVE  ReadAlone(Append(file, e)) = AfterEntry(ReadAlone(file), e)
<1> DEFINE n == Len(file)
           longer == Append(file, e)
<1>1. /\ n \in Nat /\ longer \in Seq(Entries) /\ Len(longer) = n + 1
      /\ longer[n + 1] = e /\ \A i \in 1..n : longer[i] = file[i]
  OBVIOUS
<1>2. PICK f : ReadAlone(file) = f[n] /\ IsReading(f, file)
  BY ReadAloneSteps, Zenon
<1> HIDE DEF longer
<1>3. PICK g : ReadAlone(longer) = g[Len(longer)] /\ IsReading(g, longer)
  BY <1>1, ReadAloneSteps, Zenon
<1> DEFINE P == { i \in 0..n : g[i] = f[i] }
<1> HIDE DEF n
<1>4. 0 \in P
  BY <1>1, <1>2, <1>3 DEF IsReading
<1>5. ASSUME NEW i \in 1..n, i - 1 \in P PROVE i \in P
  <2>1. i \in 0..n /\ i \in 1..(n + 1) /\ g[i - 1] = f[i - 1] /\ longer[i] = file[i]
    BY <1>1, <1>5
  <2>2. f[i] = AfterEntry(f[i - 1], file[i])
    BY <1>2 DEF IsReading, n
  <2>3. g[i] = AfterEntry(g[i - 1], longer[i])
    BY <1>1, <1>3, <2>1 DEF IsReading
  <2> QED
    BY <2>1, <2>2, <2>3
<1>6. n \in P
  <2> HIDE DEF P
  <2>1. \A i \in 0..n : i \in P
    BY <1>1, <1>4, <1>5, PositionInduction
  <2> QED
    BY <1>1, <2>1
<1>7. g[n + 1] = AfterEntry(g[n], e)
  <2>1. n + 1 \in 1..Len(longer) /\ (n + 1) - 1 = n
    BY <1>1
  <2> QED
    BY <1>1, <1>3, <2>1 DEF IsReading
<1> QED
  BY <1>1, <1>2, <1>3, <1>6, <1>7 DEF longer, n

\* A line that is continued by nothing is read as if it were not there.
LEMMA ReadUnfinished ==
    ASSUME NEW file \in Seq(Entries), file # <<>>, Last(file).kind = "unfinished"
    PROVE  /\ Front(file) \in Seq(Entries)
           /\ ReadAlone(file) = ReadAlone(Front(file))
<1> DEFINE front == Front(file)
           e == Last(file)
<1>1. front \in Seq(Entries) /\ e \in Entries
  BY FrontType DEF Last
<1>2. file = Append(front, e)
  <2>1. /\ Len(file) \in Nat \ {0} /\ front = SubSeq(file, 1, Len(file) - 1)
        /\ e = file[Len(file)]
    BY DEF Front, Last
  <2> HIDE DEF front, e
  <2>2. /\ Len(front) = Len(file) - 1 /\ \A i \in 1..Len(front) : front[i] = file[i]
    <3> DEFINE n == Len(file) - 1
    <3>1. n \in Int /\ 1 \in Int /\ \A i \in 1..n : file[i] \in Entries
      BY <2>1
    <3>2. front = SubSeq(file, 1, n)
      BY <2>1
    <3> HIDE DEF n
    <3>3. /\ Len(front) = IF 1 <= n THEN n - 1 + 1 ELSE 0
          /\ \A i \in 1..n - 1 + 1 : front[i] = file[1 + i - 1]
      BY <3>1, <3>2, SubSeqProperties
    <3>4. n \in Nat
      BY <2>1 DEF n
    <3>5. Len(front) = n /\ \A i \in 1..n : front[i] = file[i]
      BY <3>3, <3>4
    <3> QED
      BY <3>5 DEF n
  <2>3. /\ Append(front, e) \in Seq(Entries) /\ Len(Append(front, e)) = Len(file)
        /\ \A i \in 1..Len(file) : Append(front, e)[i] = file[i]
    BY <1>1, <2>1, <2>2
  <2> QED
    BY <2>3, SeqEqual
<1> HIDE DEF front
<1>3. ReadAlone(file) = AfterEntry(ReadAlone(front), e)
  BY <1>1, <1>2, ReadAppend
<1>4. AfterEntry(ReadAlone(front), e) = ReadAlone(front)
  BY DEF AfterEntry
<1> QED
  BY <1>1, <1>3, <1>4 DEF front

\* R differs from T at n, if at all.
SameBut(R, T, n) ==
    /\ Defined(R) \subseteq Defined(T) \cup {n}
    /\ \A m \in Defined(T) \ {n} : m \in Defined(R) /\ R.sym[m] = T.sym[m]

LEMMA PutOne ==
    ASSUME NEW T, NEW n, NEW s
    PROVE  /\ SameBut(Put(T, n, s), T, n)
           /\ n \in Defined(Put(T, n, s)) /\ Put(T, n, s).sym[n] = s
BY DEF SameBut, Put, Defined

\* What one entry changes.
LEMMA AfterOne ==
    ASSUME NEW T, NEW e, NEW n, e.kind = "assign" => e.name = n
    PROVE  SameBut(AfterEntry(T, e), T, n)
<1>1. CASE e.kind # "assign" \/ Eval(T, e.rhs) = <<>>
  <2>1. AfterEntry(T, e) = T
    BY <1>1, Zenon DEF AfterEntry
  <2> QED
    BY <2>1, Zenon DEF SameBut
<1>2. CASE e.kind = "assign" /\ Eval(T, e.rhs) # <<>>
  <2>1. AfterEntry(T, e) = Put(T, n, [values |-> Eval(T, e.rhs)])
    BY <1>2, Zenon DEF AfterEntry
  <2>2. SameBut(Put(T, n, [values |-> Eval(T, e.rhs)]), T, n)
    BY PutOne, Zenon
  <2> QED
    BY <2>1, <2>2, Zenon
<1> QED
  BY <1>1, <1>2, Zenon

LEMMA AfterAssign ==
    ASSUME NEW T, NEW e, e.kind = "assign", Eval(T, e.rhs) # <<>>
    PROVE  /\ e.name \in Defined(AfterEntry(T, e))
           /\ AfterEntry(T, e).sym[e.name].values = Eval(T, e.rhs)
<1> DEFINE v == Eval(T, e.rhs)
<1>1. AfterEntry(T, e) = Put(T, e.name, [values |-> v])
  BY Zenon DEF AfterEntry
<1>2. /\ e.name \in Defined(AfterEntry(T, e))
      /\ AfterEntry(T, e).sym[e.name] = [values |-> v]
  <2> DEFINE s == [values |-> v]
  <2>1. AfterEntry(T, e) = Put(T, e.name, s)
    BY <1>1
  <2> HIDE DEF s
  <2> DEFINE n == e.name
  <2> HIDE DEF n
  <2>2. n \in Defined(Put(T, n, s)) /\ Put(T, n, s).sym[n] = s
    BY PutOne
  <2>3. e.name \in Defined(AfterEntry(T, e)) /\ AfterEntry(T, e).sym[e.name] = s
    BY <2>1, <2>2 DEF n
  <2> QED
    BY <2>3 DEF s
<1> HIDE DEF v
<1>3. AfterEntry(T, e).sym[e.name].values = v
  BY <1>2
<1> QED
  BY <1>2, <1>3 DEF v

-----------------------------------------------------------------------------
(* The data invariant *)

\* The first k names that are written.
FirstNames(k) == { LocalOrder[i] : i \in 1..k }

\* What is read when k names are written: no other names, and the values of those that
\* can be written, unless another line has swallowed theirs.
ReadsSoFar(T, k) ==
    /\ Defined(T) \subseteq FirstNames(k)
    /\ \A n \in FirstNames(k) : Writable(n) /\ ~Swallowed(n) =>
         n \in Defined(T) /\ T.sym[n].values = table.sym[n].values

\* If the file ends in a line that is continued, that line is of a name whose line may
\* be, and so is the last name that was written: it swallows the next one.
EndsSoFar(file, k) ==
    file # <<>> /\ Last(file).kind = "unfinished" =>
        /\ k > 0 /\ MayContinue(table.sym[LocalOrder[k]])
        /\ Last(file).name \in FirstNames(k) /\ MayContinue(table.sym[Last(file).name])

\* While the file is written, k of the names have been, and it reads back as far.
WrittenSoFar ==
    phase \in {"write", "saved"} =>
        LET file == disk[Real(cwd, Target)]
            k == Len(LocalOrder) - Len(todo)
        IN /\ Real(cwd, Target) \in DOMAIN disk
           /\ Len(todo) <= Len(LocalOrder)
           /\ \A i \in 1..Len(todo) : todo[i] = LocalOrder[k + i]
           /\ ReadsSoFar(ReadAlone(file), k)
           /\ EndsSoFar(file, k)
           /\ phase = "saved" => todo = <<>>

Data ==
    /\ \A p \in DOMAIN disk : disk[p] \in Seq(Entries)
    /\ TableOK(table)
    /\ included \subseteq Texts
    /\ todo \in Seq(Names)
    /\ WrittenSoFar

LEMMA EntryType ==
    ASSUME IInv, Data, NEW kind, NEW f \in AtEntry(kind)
    PROVE  Entry(f) \in Entries /\ Entry(f).kind = kind
<1>1. /\ f = frames[Len(frames)] /\ Len(frames) \in Nat \ {0} /\ f \in Frames
      /\ Entry(f).kind = kind
  BY EntryShape
<1>2. f.file \in DOMAIN disk
  BY <1>1 DEF IInv, Shapes
<1>3. disk[f.file] \in Seq(Entries) /\ f.pos \in Nat \ {0} /\ f.pos <= Len(disk[f.file])
  BY <1>1, <1>2, FrameFields DEF Data, AtEntry
<1> QED
  BY <1>1, <1>3 DEF Entry

LEMMA TableValues == ASSUME NEW T, TableOK(T) PROVE HasValues(T)
BY DEF TableOK, HasValues, Defined, Symbols

\* A step of a program that does not write.
LEMMA DataOfReaders ==
    ASSUME Data, disk' = disk, TableOK(table'), included' \subseteq Texts, todo' = todo,
           phase' \notin {"write", "saved"}
    PROVE  Data'
BY DEF Data, WrittenSoFar

LEMMA DataAssign == ASSUME IInv, Data, Assign PROVE Data'
<1>1. PICK f \in AtEntry("assign") :
        /\ LET values == Eval(table, Entry(f).rhs)
               symbol == [values |-> values, content |-> Entry(f).rhs, uri |-> f.text]
           IN table' = IF values = <<>> THEN table
                       ELSE Put(table, f.prefix \o Entry(f).name, symbol)
        /\ UNCHANGED <<disk, included, phase, todo>>
  BY Zenon DEF Assign
<1> DEFINE rhs == Entry(f).rhs
           values == Eval(table, rhs)
           symbol == [values |-> values, content |-> rhs, uri |-> f.text]
           name == f.prefix \o Entry(f).name
<1>2. Entry(f).name \in Names /\ rhs \in Seq(Items)
  BY EntryType, EntryFields
<1>3. f.prefix \in Seq(Atoms) /\ f.text \in Texts /\ phase = "read"
  BY EntryShape, FrameFields
<1>4. name \in Names
  BY <1>2, <1>3, ConcatProperties DEF Names
<1>5. values \in Seq(Values)
  BY <1>2, TableValues, EvalType DEF Data
<1>6. IsFaithful([values |-> values, content |-> rhs, uri |-> f.text])
  <2>1. f.text # NoUri
    BY <1>3, UriAssumption
  <2>2. HasNoReferences(rhs) => values = Literals(rhs)
    BY <1>2, EvalLiterals
  <2> HIDE DEF values, rhs
  <2> QED
    BY <2>1, <2>2 DEF IsFaithful
<1>7. table' = IF values = <<>> THEN table ELSE Put(table, name, symbol)
  BY <1>1
<1> HIDE DEF values, rhs, name
<1>8. TableOK(table')
  <2>1. CASE values = <<>>
    BY <1>7, <2>1 DEF Data
  <2>2. CASE values # <<>>
    <3>1. symbol \in Symbols
      BY <1>2, <1>3, <1>5, <2>2 DEF Symbols
    <3> QED
      BY <1>4, <1>6, <1>7, <2>2, <3>1, PutOK DEF Data
  <2> QED
    BY <2>1, <2>2
<1> QED
  BY <1>1, <1>3, <1>8, DataOfReaders DEF Data

LEMMA DataDelete == ASSUME IInv, Data, Delete PROVE Data'
<1>1. PICK f \in AtEntry("del") :
        /\ \E X : table' = Drop(table, X)
        /\ UNCHANGED <<disk, included, phase, todo>>
  BY Zenon DEF Delete
<1>2. phase = "read"
  BY EntryShape
<1>3. TableOK(table')
  BY <1>1, DropOK DEF Data
<1> QED
  BY <1>1, <1>2, <1>3, DataOfReaders DEF Data

LEMMA DataSame ==
    ASSUME IInv, Data, OpenBlock \/ CloseBlock \/ Reject \/ DropRest \/ EndOfFile
    PROVE  Data'
<1>1. UNCHANGED <<disk, table, included, todo>> /\ phase' \notin {"write", "saved"}
  <2>1. CASE OpenBlock
    BY <2>1 DEF OpenBlock, AtEntry
  <2>2. CASE CloseBlock
    BY <2>2 DEF CloseBlock, AtEntry
  <2>3. CASE Reject
    BY <2>3 DEF Reject, AtEntry
  <2>4. CASE EndOfFile
    BY <2>4 DEF EndOfFile, Return
  <2>5. CASE DropRest
    BY <2>5 DEF DropRest, AtEntry
  <2> QED
    BY <2>1, <2>2, <2>3, <2>4, <2>5
<1> QED
  BY <1>1, DataOfReaders DEF Data

LEMMA DataInclude == ASSUME IInv, Data, ReadConfig \/ Include PROVE Data'
<1>1. CASE ReadConfig
  <2>1. /\ UNCHANGED <<disk, table, todo>> /\ phase' \notin {"write", "saved"}
        /\ included' = included \/ included' = included \cup {Layers[Len(results) + 1]}
    BY <1>1 DEF ReadConfig, Return
  <2>2. Layers[Len(results) + 1] \in Texts
    <3>1. phase = "read" /\ results \in Seq(BOOLEAN) /\ Len(results) < Len(Layers)
      BY <1>1 DEF ReadConfig, IInv, Shapes
    <3>2. Len(results) + 1 \in 1..Len(Layers)
      BY <3>1, TargetIsText
    <3> QED
      BY <3>2, StoreAssumption, ElementOfSeq
  <2> QED
    BY <2>1, <2>2, DataOfReaders DEF Data
<1>2. CASE Include
  <2>1. PICK f \in AtEntry("include") :
          /\ included' = included \/ included' = included \cup {Entry(f).path}
          /\ UNCHANGED <<disk, table, phase, todo>>
    BY <1>2 DEF Include
  <2>2. Entry(f).path \in Texts /\ phase = "read"
    BY EntryType, EntryFields, EntryShape
  <2> QED
    BY <2>1, <2>2, DataOfReaders DEF Data
<1> QED
  BY <1>1, <1>2

LEMMA DataSetup == ASSUME Data, Setup PROVE Data'
<1>1. PICK n \in Editable : RemoveParameter(n) \/ \E v \in Values : SetString(n, v)
  BY DEF Setup
<1>2. /\ UNCHANGED <<disk, included, todo>> /\ phase' = "edited"
  BY <1>1 DEF RemoveParameter, SetString
<1>3. TableOK(table')
  <2>1. CASE RemoveParameter(n)
    BY <2>1, DropOK DEF Data, RemoveParameter
  <2>2. ASSUME NEW v \in Values, SetString(n, v)
        PROVE  TableOK(table')
    <3>1. CASE n \in Defined(table)
      BY <2>2, <3>1, SetOK DEF Data, SetString
    <3>2. CASE n \notin Defined(table)
      <4> DEFINE s == [values |-> <<v>>, content |-> <<>>, uri |-> NoUri]
      <4>1. table' = Put(table, n, s)
        BY <2>2, <3>2 DEF SetString
      <4>2. s \in Symbols /\ IsFaithful(s)
        BY DEF Symbols, IsFaithful
      <4>3. n \in Names
        BY StoreAssumption
      <4> HIDE DEF s
      <4> QED
        BY <4>1, <4>2, <4>3, PutOK DEF Data
    <3> QED
      BY <3>1, <3>2
  <2> QED
    BY <1>1, <2>1, <2>2
<1> QED
  BY <1>2, <1>3, DataOfReaders DEF Data

LEMMA DataRestart == ASSUME IInv, Data, Kill \/ Restart PROVE Data'
<1>1. CASE Kill
  <2>1. UNCHANGED <<disk, table, included>> /\ todo' = <<>> /\ phase' = "dead"
    BY <1>1 DEF Kill
  <2> QED
    BY <2>1 DEF Data, WrittenSoFar
<1>2. CASE Restart
  BY <1>2, EmptyTableOK, DataOfReaders DEF Restart, Data
<1> QED
  BY <1>1, <1>2

LEMMA DataOpen == ASSUME IInv, Data, OpenForWriting PROVE Data'
<1> DEFINE p == Real(cwd, Target)
<1>1. UNCHANGED <<table, included, cwd>> /\ LocalOrder' = LocalOrder
  BY DEF OpenForWriting, LocalOrder, Local
<1>2. CASE phase' = "dead"
  <2>1. UNCHANGED <<disk, todo>>
    BY <1>2 DEF OpenForWriting
  <2> QED
    BY <1>1, <1>2, <2>1, DataOfReaders DEF Data
<1>3. CASE phase' # "dead"
  <2>1. /\ disk' = [q \in DOMAIN disk \cup {p} |-> IF q = p THEN <<>> ELSE disk[q]]
        /\ todo' = LocalOrder /\ phase' = "write"
    BY <1>3 DEF OpenForWriting
  <2>2. p' = p
    BY <1>1 DEF Real, From, Target
  <2> HIDE DEF p
  <2>3. DOMAIN disk' = DOMAIN disk \cup {p} /\ disk'[p] = <<>>
    BY <2>1
  <2>4. \A q \in DOMAIN disk' : disk'[q] \in Seq(Entries)
    BY <2>1, <2>3 DEF Data
  <2>5. TableOK(table') /\ included' \subseteq Texts
    BY <1>1 DEF Data
  <2>6. LocalOrder \in Seq(Names)
    BY LocalOrderOK DEF Data
  <2>7. WrittenSoFar'
    <3>1. /\ Len(LocalOrder') - Len(todo') = 0 /\ Len(todo') <= Len(LocalOrder')
          /\ \A i \in 1..Len(todo') : todo'[i] = LocalOrder'[0 + i]
      BY <1>1, <2>1, <2>6
    <3>2. ReadsSoFar(ReadAlone(<<>>), 0)' /\ EndsSoFar(<<>>, 0)'
      BY ReadNothing DEF ReadsSoFar, EndsSoFar, FirstNames, EmptyTable, Defined
    <3>3. Real(cwd, Target)' = p /\ p \in DOMAIN disk' /\ disk'[p] = <<>>
      BY <2>2, <2>3 DEF p
    <3>4. phase' # "saved"
      BY <2>1
    <3> QED
      BY <3>1, <3>2, <3>3, <3>4 DEF WrittenSoFar
  <2> QED
    BY <2>1, <2>4, <2>5, <2>6, <2>7 DEF Data
<1> QED
  BY <1>2, <1>3

\* What is read of a continued line changes no name but its own, which cannot be written.
LEMMA GarbledReads ==
    ASSUME TableOK(table), NEW T, NEW k, ReadsSoFar(T, k),
           NEW m \in FirstNames(k), m \in Defined(table), MayContinue(table.sym[m]),
           NEW e \in Garbled(m)
    PROVE  ReadsSoFar(AfterEntry(T, e), k)
<1> DEFINE R == AfterEntry(T, e)
<1>1. e.kind = "assign" => e.name = m
  BY SymbolType, GarbledType
<1>2. SameBut(R, T, m)
  BY <1>1, AfterOne, Zenon
<1>3. ~Writable(m)
  BY WrittenReads
<1> HIDE DEF R
<1>4. ReadsSoFar(R, k)
  BY <1>2, <1>3 DEF ReadsSoFar, SameBut
<1> QED
  BY <1>4 DEF R

\* The names that are written, one after the other.
LEMMA NextName ==
    ASSUME TableOK(table), NEW k \in Nat, k < Len(LocalOrder)
    PROVE  /\ LocalOrder[k + 1] \in Defined(table)
           /\ FirstNames(k + 1) = FirstNames(k) \cup {LocalOrder[k + 1]}
           /\ LocalOrder[k + 1] \notin FirstNames(k)
           /\ FirstNames(k) \subseteq Defined(table)
<1> DEFINE L == LocalOrder
<1>1. /\ L \in Seq(Names) /\ Distinct(L)
      /\ ToSet(L) = { m \in Defined(table) : Local(m) }
  BY LocalOrderOK
<1> HIDE DEF L
<1>2. \A i \in 1..Len(L) : L[i] \in Defined(table)
  BY <1>1 DEF ToSet
<1>3. k + 1 \in 1..Len(L) /\ 1..(k + 1) = (1..k) \cup {k + 1} /\ 1..k \subseteq 1..Len(L)
  BY <1>1 DEF L
<1>4. L[k + 1] \notin { L[i] : i \in 1..k }
  BY <1>1, <1>3 DEF Distinct
<1> QED
  BY <1>2, <1>3, <1>4 DEF FirstNames, L

\* A line of its own adds its name to what is read.
LEMMA LineReads ==
    ASSUME TableOK(table), NEW T, NEW k \in Nat, k < Len(LocalOrder), ReadsSoFar(T, k),
           NEW l \in WrittenLines(LocalOrder[k + 1], table.sym[LocalOrder[k + 1]])
    PROVE  ReadsSoFar(AfterEntry(T, l), k + 1)
<1> DEFINE n == LocalOrder[k + 1]
           R == AfterEntry(T, l)
<1>1. /\ n \in Defined(table) /\ n \notin FirstNames(k)
      /\ FirstNames(k + 1) = FirstNames(k) \cup {n}
  BY NextName
<1> HIDE DEF n
<1>2. l \in WrittenLines(n, table.sym[n])
  BY DEF n
<1>3. l.kind = "assign" => l.name = n
  BY <1>1, <1>2, WrittenType, Zenon
<1>4. SameBut(R, T, n)
  BY <1>3, AfterOne, Zenon
<1>5. ASSUME Writable(n)
      PROVE  n \in Defined(R) /\ R.sym[n].values = table.sym[n].values
  <2>1. /\ l.kind = "assign" /\ Eval(T, l.rhs) = table.sym[n].values
        /\ table.sym[n].values # <<>>
    <3>1. /\ table.sym[n].values # <<>>
          /\ \A e \in WrittenLines(n, table.sym[n]) :
                /\ e.kind = "assign" /\ e.name = n
                /\ Eval(T, e.rhs) = table.sym[n].values
      BY <1>1, <1>5, WrittenReads, Zenon
    <3> QED
      BY <1>2, <3>1, Zenon
  <2>2. l.name = n /\ l.kind = "assign" /\ Eval(T, l.rhs) # <<>>
    BY <1>3, <2>1, Zenon
  <2>3. /\ l.name \in Defined(AfterEntry(T, l))
        /\ AfterEntry(T, l).sym[l.name].values = Eval(T, l.rhs)
    BY <2>2, AfterAssign, Zenon
  <2> QED
    BY <2>1, <2>2, <2>3, Zenon
<1> HIDE DEF R
<1>6. ReadsSoFar(R, k + 1)
  BY <1>1, <1>4, <1>5 DEF ReadsSoFar, SameBut
<1> QED
  BY <1>6 DEF R

\* A line that was swallowed adds nothing.
LEMMA SwallowedReads ==
    ASSUME TableOK(table), NEW T, NEW k \in Nat, k < Len(LocalOrder), ReadsSoFar(T, k),
           Swallowed(LocalOrder[k + 1])
    PROVE  ReadsSoFar(T, k + 1)
<1>1. FirstNames(k + 1) = FirstNames(k) \cup {LocalOrder[k + 1]}
  BY NextName
<1> QED
  BY <1>1 DEF ReadsSoFar

\* One more name is written.
LEMMA LineSoFar ==
    ASSUME TableOK(table), NEW file \in Seq(Entries), NEW k \in Nat, k < Len(LocalOrder),
           ReadsSoFar(ReadAlone(file), k), EndsSoFar(file, k),
           NEW l \in WrittenLines(LocalOrder[k + 1], table.sym[LocalOrder[k + 1]]),
           NEW g \in WithLine(file, l)
    PROVE  /\ g \in Seq(Entries)
           /\ ReadsSoFar(ReadAlone(g), k + 1) /\ EndsSoFar(g, k + 1)
<1> DEFINE n == LocalOrder[k + 1]
           T == ReadAlone(file)
           m == Last(file).name
           open == file # <<>> /\ Last(file).kind = "unfinished"
<1>1. /\ n \in Defined(table) /\ n \in FirstNames(k + 1)
      /\ FirstNames(k) \subseteq FirstNames(k + 1) /\ FirstNames(k) \subseteq Defined(table)
  BY NextName
<1>2. /\ l \in Entries
      /\ l.kind \in {"assign", "unfinished"} => l.name = n
      /\ l.kind = "unfinished" => MayContinue(table.sym[n])
  BY <1>1, WrittenType
<1>3. open => /\ k > 0 /\ MayContinue(table.sym[LocalOrder[k]])
              /\ m \in FirstNames(k) /\ m \in Defined(table) /\ MayContinue(table.sym[m])
              /\ m \in Names
  BY <1>1, SymbolType DEF EndsSoFar
<1> HIDE DEF n, m
<1>4. g \in Seq(Entries)
  <2>1. open => Garbled(m) \subseteq Entries
    BY <1>3, GarbledType
  <2>2. open => Garbled(Last(file).name) \subseteq Entries
    BY <2>1 DEF m
  <2> QED
    BY <1>2, <2>2, WithLineType
<1>5. ASSUME NEW f \in Seq(Entries), g = Append(f, l), ReadsSoFar(ReadAlone(f), k)
      PROVE  ReadsSoFar(ReadAlone(g), k + 1) /\ EndsSoFar(g, k + 1)
  <2>1. ReadAlone(g) = AfterEntry(ReadAlone(f), l)
    BY <1>2, <1>5, ReadAppend
  <2>2. ReadsSoFar(ReadAlone(g), k + 1)
    BY <1>5, <2>1, LineReads
  <2>3. Last(g) = l /\ k + 1 > 0
    BY <1>2, <1>5 DEF Last
  <2> QED
    BY <1>1, <1>2, <2>2, <2>3 DEF EndsSoFar, n
<1>6. CASE ~open
  <2>1. g = Append(file, l)
    BY <1>6 DEF WithLine
  <2> QED
    BY <1>4, <1>5, <2>1
<1>7. CASE open
  <2>1. Swallowed(LocalOrder[k + 1])
    <3>1. k + 1 \in 2..Len(LocalOrder) /\ (k + 1) - 1 = k
      <4>1. LocalOrder \in Seq(Names)
        BY LocalOrderOK
      <4> QED
        BY <1>3, <1>7, <4>1
    <3> QED
      BY <1>3, <1>7, <3>1 DEF Swallowed
  <2>2. Front(file) \in Seq(Entries) /\ T = ReadAlone(Front(file))
    BY <1>7, ReadUnfinished
  <2> HIDE DEF T
  <2>3. ASSUME NEW e \in Garbled(m)
        PROVE  LET f == Append(Front(file), e)
               IN /\ f \in Seq(Entries) /\ ReadsSoFar(ReadAlone(f), k)
                  /\ Last(f).kind # "unfinished"
    <3> DEFINE f == Append(Front(file), e)
    <3>1. e \in Entries /\ e.kind # "unfinished"
      BY <1>3, <1>7, GarbledType
    <3>2. f \in Seq(Entries) /\ Last(f) = e
      BY <2>2, <3>1 DEF Last
    <3>3. ReadAlone(f) = AfterEntry(T, e)
      BY <2>2, <3>1, ReadAppend
    <3>4. ReadsSoFar(T, k)
      BY DEF T
    <3>5. ReadsSoFar(AfterEntry(T, e), k)
      BY <1>3, <1>7, <3>4, GarbledReads
    <3> QED
      BY <3>1, <3>2, <3>3, <3>5
  <2>4. \/ \E e \in Garbled(m) : g = Append(Append(Front(file), e), l)
        \/ g = file /\ l.kind = "unfinished"
        \/ \E e \in Garbled(m) : g = Append(Front(file), e)
    BY <1>7 DEF WithLine, m
  <2>5. CASE \E e \in Garbled(m) : g = Append(Append(Front(file), e), l)
    <3>1. PICK e \in Garbled(m) : g = Append(Append(Front(file), e), l)
      BY <2>5
    <3> QED
      BY <1>4, <1>5, <2>3, <3>1
  <2>6. CASE g = file /\ l.kind = "unfinished"
    <3>1. ReadsSoFar(ReadAlone(g), k + 1)
      BY <2>1, <2>6, SwallowedReads
    <3>2. EndsSoFar(g, k + 1)
      BY <1>1, <1>2, <1>3, <1>7, <2>6 DEF EndsSoFar, m, n
    <3> QED
      BY <1>4, <3>1, <3>2
  <2>7. CASE \E e \in Garbled(m) : g = Append(Front(file), e)
    <3>1. PICK e \in Garbled(m) : g = Append(Front(file), e)
      BY <2>7
    <3>2. ReadsSoFar(ReadAlone(g), k) /\ Last(g).kind # "unfinished"
      BY <2>3, <3>1
    <3>3. ReadsSoFar(ReadAlone(g), k + 1)
      BY <2>1, <3>2, SwallowedReads
    <3> QED
      BY <1>4, <3>2, <3>3 DEF EndsSoFar
  <2> QED
    BY <2>4, <2>5, <2>6, <2>7
<1> QED
  BY <1>4, <1>6, <1>7

\* The invariant's parts depend on the table alone.
LEMMA SameSoFar ==
    ASSUME table' = table
    PROVE  /\ LocalOrder' = LocalOrder
           /\ \A T, k : ReadsSoFar(T, k)' <=> ReadsSoFar(T, k)
           /\ \A file, k : EndsSoFar(file, k)' <=> EndsSoFar(file, k)
<1>1. LocalOrder' = LocalOrder
  BY DEF LocalOrder, Local
<1>2. \A n : (Writable(n)' <=> Writable(n)) /\ (Swallowed(n)' <=> Swallowed(n))
  BY <1>1 DEF Writable, Swallowed
<1>3. \A k : FirstNames(k)' = FirstNames(k)
  BY <1>1 DEF FirstNames
<1>4. ASSUME NEW T, NEW k PROVE ReadsSoFar(T, k)' <=> ReadsSoFar(T, k)
  BY <1>2, <1>3 DEF ReadsSoFar
<1>5. ASSUME NEW file, NEW k PROVE EndsSoFar(file, k)' <=> EndsSoFar(file, k)
  BY <1>1, <1>3 DEF EndsSoFar
<1> QED
  BY <1>1, <1>4, <1>5

\* A step that writes nothing.
LEMMA SoFarStays ==
    ASSUME WrittenSoFar, UNCHANGED <<disk, table, cwd, todo>>,
           phase' \in {"write", "saved"} => phase \in {"write", "saved"},
           phase' = "saved" => todo = <<>>
    PROVE  WrittenSoFar'
<1> SUFFICES ASSUME phase' \in {"write", "saved"} PROVE WrittenSoFar'
  BY DEF WrittenSoFar
<1>1. PICK p, file, k : /\ p = Real(cwd, Target) /\ file = disk[p]
                        /\ k = Len(LocalOrder) - Len(todo)
  OBVIOUS
<1>2. /\ p \in DOMAIN disk /\ Len(todo) <= Len(LocalOrder)
      /\ \A i \in 1..Len(todo) : todo[i] = LocalOrder[k + i]
      /\ ReadsSoFar(ReadAlone(file), k) /\ EndsSoFar(file, k)
  BY <1>1 DEF WrittenSoFar
<1>3. ReadsSoFar(ReadAlone(file), k)' /\ EndsSoFar(file, k)'
  BY <1>2, SameSoFar
<1>4. LocalOrder' = LocalOrder /\ Real(cwd, Target)' = p
  BY <1>1, SameSoFar DEF Real, From, Target
<1> QED
  BY <1>1, <1>2, <1>3, <1>4 DEF WrittenSoFar

LEMMA DataLine == ASSUME IInv, Data, WriteLine PROVE Data'
<1> DEFINE p == Real(cwd, Target)
           n == Head(todo)
           file == disk[p]
           L == LocalOrder
<1>1. /\ UNCHANGED <<table, included, cwd, phase>> /\ phase = "write" /\ todo # <<>>
      /\ todo' = Tail(todo)
  BY DEF WriteLine
<1>2. PICK l \in WrittenLines(n, table.sym[n]) :
        \E g \in WithLine(file, l) : disk' = [disk EXCEPT ![p] = g]
  BY DEF WriteLine
<1>3. PICK g \in WithLine(file, l) : disk' = [disk EXCEPT ![p] = g]
  BY <1>2
<1>4. PICK k : k = Len(L) - Len(todo)
  OBVIOUS
<1>5. LocalOrder' = L /\ p' = p
  BY <1>1, SameSoFar DEF Real, From, Target
<1>6. /\ p \in DOMAIN disk /\ file \in Seq(Entries) /\ todo \in Seq(Names)
      /\ Len(todo) <= Len(L)
      /\ \A i \in 1..Len(todo) : todo[i] = L[k + i]
      /\ ReadsSoFar(ReadAlone(file), k) /\ EndsSoFar(file, k)
  BY <1>1, <1>4 DEF Data, WrittenSoFar
<1>7. L \in Seq(Names)
  BY LocalOrderOK DEF Data
<1>8. Len(todo) \in Nat \ {0} /\ k \in Nat /\ k < Len(L)
  BY <1>1, <1>4, <1>6, <1>7
<1>9. n = L[k + 1]
  <2>1. n = todo[1] /\ 1 \in 1..Len(todo)
    BY <1>1, <1>6, <1>8
  <2> QED
    BY <1>6, <2>1
<1>10. /\ g \in Seq(Entries)
       /\ ReadsSoFar(ReadAlone(g), k + 1) /\ EndsSoFar(g, k + 1)
  <2>1. TableOK(table)
    BY DEF Data
  <2> HIDE DEF file
  <2> QED
    BY <1>2, <1>3, <1>6, <1>8, <1>9, <2>1, LineSoFar DEF L
<1>11. /\ todo' \in Seq(Names) /\ Len(todo') = Len(todo) - 1
       /\ \A i \in 1..Len(todo') : todo'[i] = todo[i + 1]
  BY <1>1, <1>6, HeadTailProperties
<1> HIDE DEF p, n, file, L
<1>12. DOMAIN disk' = DOMAIN disk /\ disk'[p] = g
  BY <1>3, <1>6
<1>13. \A q \in DOMAIN disk' : disk'[q] \in Seq(Entries)
  BY <1>3, <1>10, <1>12 DEF Data
<1>14. WrittenSoFar'
  <2>1. Len(L) - Len(todo') = k + 1 /\ Len(todo') <= Len(L)
    BY <1>4, <1>7, <1>8, <1>11
  <2>2. ASSUME NEW i \in 1..Len(todo')
        PROVE  todo'[i] = L[(k + 1) + i]
    <3>1. i + 1 \in 1..Len(todo) /\ (k + 1) + i = k + (i + 1)
      BY <1>8, <1>11
    <3> QED
      BY <1>6, <1>11, <3>1
  <2>3. ReadsSoFar(ReadAlone(g), k + 1)' /\ EndsSoFar(g, k + 1)'
    BY <1>1, <1>10, SameSoFar
  <2>4. phase' # "saved"
    BY <1>1
  <2>5. p' \in DOMAIN disk' /\ disk'[p'] = g
    BY <1>5, <1>6, <1>12
  <2> QED
    BY <1>5, <2>1, <2>2, <2>3, <2>4, <2>5 DEF WrittenSoFar, p, L
<1>15. TableOK(table') /\ included' \subseteq Texts
  BY <1>1 DEF Data
<1> QED
  BY <1>11, <1>13, <1>14, <1>15 DEF Data

LEMMA DataWritten == ASSUME IInv, Data, Written PROVE Data'
<1>1. /\ UNCHANGED <<disk, table, included, cwd, todo>> /\ phase = "write" /\ todo = <<>>
  BY DEF Written
<1>3. WrittenSoFar'
  BY <1>1, SoFarStays DEF Data
<1> QED
  BY <1>1, <1>3 DEF Data

LEMMA DataInit == Init => Data
<1> SUFFICES ASSUME Init PROVE Data
  OBVIOUS
<1>1. /\ disk \in Disks /\ table = EmptyTable /\ included = {} /\ todo = <<>> /\ phase = "read"
  BY DEF Init
<1>2. \A p \in DOMAIN disk : disk[p] \in Seq(Entries)
  BY <1>1, StoreAssumption
<1> QED
  BY <1>1, <1>2, EmptyTableOK DEF Data, WrittenSoFar

LEMMA DataStep == IInv /\ Data /\ [Next]_vars => Data'
<1> SUFFICES ASSUME IInv, Data, [Next]_vars PROVE Data'
  OBVIOUS
<1>1. CASE ReadConfig \/ Include
  BY <1>1, DataInclude
<1>2. CASE Assign
  BY <1>2, DataAssign
<1>3. CASE Delete
  BY <1>3, DataDelete
<1>4. CASE OpenBlock \/ CloseBlock \/ Reject \/ DropRest \/ EndOfFile
  BY <1>4, DataSame
<1>5. CASE Setup
  BY <1>5, DataSetup
<1>6. CASE OpenForWriting
  BY <1>6, DataOpen
<1>7. CASE WriteLine
  BY <1>7, DataLine
<1>8. CASE Written
  BY <1>8, DataWritten
<1>9. CASE Kill \/ Restart
  BY <1>9, DataRestart
<1>10. CASE UNCHANGED vars
  <2>1. UNCHANGED <<disk, table, included, cwd, todo, phase>>
    BY <1>10 DEF vars
  <2>2. WrittenSoFar /\ (phase = "saved" => todo = <<>>)
    BY DEF Data, WrittenSoFar
  <2>3. WrittenSoFar'
    BY <2>1, <2>2, SoFarStays
  <2> QED
    BY <2>1, <2>3 DEF Data
<1> QED
  BY <1>1, <1>2, <1>3, <1>4, <1>5, <1>6, <1>7, <1>8, <1>9, <1>10
     DEF Next, Reading, Writing

\* The state has its type.  In particular the symbols of the table are those of its
\* order, each once, and each has a value, whatever was read, removed and set:
\* SymbolTable::add and remove, Config::handleAssignment, set and remove.
THEOREM StoreTypeOK == Spec => []TypeOK
<1>1. IInv /\ Data => TypeOK
  <2> SUFFICES ASSUME IInv, Data PROVE TypeOK
    OBVIOUS
  <2>1. \A p \in DOMAIN disk : p \in Seq(Atoms) \ {<<>>} /\ disk[p] \in Seq(Entries)
    BY DEF IInv, Shapes, DiskShape, Data
  <2>2. TableOK(table) /\ Defined(table) = ToSet(table.order)
    BY DEF Data, TableOK, Defined
  <2>3. Len(table.order) = Cardinality(Defined(table))
    BY <2>2, DistinctCount DEF TableOK
  <2>4. \A n \in Defined(table) : n \in Names /\ table.sym[n].values \in Seq(Values) \ {<<>>}
    BY <2>2, SymbolType
  <2> QED
    BY <2>1, <2>2, <2>3, <2>4 DEF TypeOK, IInv, Shapes, Data
<1> QED
  BY <1>1, InitHolds, StepHolds, DataInit, DataStep, PTL DEF Spec

-----------------------------------------------------------------------------
(* What was saved *)

LEMMA SavedRead ==
    ASSUME IInv, Data, phase = "saved"
    PROVE  /\ \A n \in Defined(ReadBack) : n \in Defined(table) /\ Local(n)
           /\ \A n \in Defined(table) :
                Local(n) /\ Writable(n) /\ ~Swallowed(n) => Kept(n)
<1> DEFINE L == LocalOrder
<1>1. /\ L \in Seq(Names) /\ ToSet(L) = { n \in Defined(table) : Local(n) }
  BY LocalOrderOK DEF Data
<1>2. ReadsSoFar(ReadBack, Len(L))
  <2>1. ReadsSoFar(ReadBack, Len(L) - Len(todo)) /\ todo = <<>>
    BY DEF Data, WrittenSoFar, ReadBack
  <2>2. Len(L) - Len(todo) = Len(L)
    BY <1>1, <2>1
  <2> QED
    BY <2>1, <2>2
<1>3. FirstNames(Len(L)) = { n \in Defined(table) : Local(n) }
  <2>1. FirstNames(Len(L)) = ToSet(L)
    BY <1>1 DEF FirstNames, ToSet
  <2> QED
    BY <1>1, <2>1
<1> QED
  BY <1>2, <1>3 DEF ReadsSoFar, Kept

\* What writeConfig has written, a program that starts with the file reads: no other
\* names than those that were read from the file or set, and of these each value that
\* the library can write, except the value written after one whose line may continue:
\* Config::writeSymbol and Config::parseFile.
THEOREM SavedReadsBackAlways == Spec => []SavedReadsBack
<1>1. IInv /\ Data => SavedReadsBack
  BY SavedRead DEF SavedReadsBack
<1> QED
  BY <1>1, InitHolds, StepHolds, DataInit, DataStep, PTL DEF Spec

-----------------------------------------------------------------------------
(* The unfolding of files *)

LEMMA AnyFront == ASSUME NEW S, NEW s \in Seq(S) PROVE Front(s) \in Seq(S)
<1>1. CASE s = <<>>
  <2>1. Front(s) = SubSeq(s, 1, Len(s) - 1) /\ Len(s) = 0
    BY <1>1 DEF Front
  <2>2. SubSeq(s, 1, Len(s) - 1) = <<>>
    BY <1>1, <2>1
  <2> QED
    BY <2>1, <2>2
<1>2. CASE s # <<>>
  BY <1>2, FrontType
<1> QED
  BY <1>1, <1>2

LEMMA ProgressFields ==
    ASSUME NEW u \in Progress
    PROVE  u.effects \in Seq(Effects) /\ u.included \subseteq Texts /\ u.ns \in Seq(Atoms)
BY DEF Progress, Names

LEMMA SourceFields ==
    ASSUME NEW a \in Sources
    PROVE  a.file \in Seq(Atoms) /\ a.text \in Texts /\ a.outer \in Seq(Atoms)
BY DEF Sources, Names

LEMMA EntryKinds ==
    ASSUME NEW e \in Entries
    PROVE  /\ e.kind = "assign" => e.name \in Names /\ e.rhs \in Seq(Items)
           /\ e.kind = "del" => e.names \in Seq(Names)
           /\ e.kind = "include" => e.path \in Texts
           /\ e.kind = "open" => e.name \in Atoms
           /\ e.kind \in {"assign", "del", "include", "open", "close", "malformed",
                          "unfinished"}
BY DEF Entries

LEMMA BegunEffect ==
    ASSUME NEW u \in Progress, NEW t \in Texts
    PROVE  /\ Begun(u, t) \in Progress
           /\ Begun(u, t).effects = u.effects
           /\ Begun(u, t).included = u.included \cup {t}
           /\ Begun(u, t).ns = <<>>
<1> DEFINE x == u.included \cup {t}
           v == [u EXCEPT !.included = x, !.ns = <<>>]
<1>1. x \in SUBSET Texts /\ <<>> \in Names
  BY ProgressFields DEF Names
<1>2. Begun(u, t) = v
  BY DEF Begun
<1> HIDE DEF x
<1>3. v \in Progress /\ v.effects = u.effects /\ v.included = x /\ v.ns = <<>>
  BY <1>1 DEF Progress
<1> HIDE DEF v
<1> QED
  BY <1>2, <1>3 DEF x

\* An entry of a file includes a source.
LEMMA IncludedType ==
    ASSUME NEW a \in Sources, NEW u \in Progress, NEW e \in Entries, e.kind = "include"
    PROVE  Included(a, u, e) \in Sources
<1>1. /\ Front(a.file) \in Seq(Atoms) /\ e.path \in Texts
      /\ a.outer \o u.ns \in Seq(Atoms)
  BY AnyFront, SourceFields, ProgressFields, EntryKinds, ConcatProperties
<1>2. Real(Front(a.file), e.path) \in Seq(Atoms)
  BY <1>1, FromType
<1> QED
  BY <1>1, <1>2 DEF Included, Sources, Names

\* An entry takes progress to progress.
LEMMA OnwardType ==
    ASSUME NEW whole \in [Sources \X Progress -> Progress],
           NEW a \in Sources, NEW u \in Progress, NEW e \in Entries
    PROVE  Onward(whole, a, u, e) \in Progress
<1> DEFINE Full(n) == a.outer \o u.ns \o n
<1>1. /\ u.effects \in Seq(Effects) /\ u.ns \in Seq(Atoms)
      /\ a.text \in Texts /\ a.outer \in Seq(Atoms)
  BY SourceFields, ProgressFields
<1>2. \A n \in Names : Full(n) \in Names
  <2> SUFFICES ASSUME NEW n \in Seq(Atoms) PROVE Full(n) \in Seq(Atoms)
    BY DEF Names
  <2>1. a.outer \o u.ns \in Seq(Atoms)
    BY <1>1, ConcatProperties
  <2> QED
    BY <2>1, ConcatProperties
<1> HIDE DEF Full
<1>3. CASE e.kind = "assign"
  <2> DEFINE o == [name |-> Full(e.name), rhs |-> e.rhs, uri |-> a.text]
  <2>1. o \in Effects
    BY <1>1, <1>2, <1>3, EntryKinds DEF Effects
  <2> HIDE DEF o
  <2>2. Append(u.effects, o) \in Seq(Effects)
    BY <1>1, <2>1
  <2>3. [u EXCEPT !.effects = Append(@, o)] \in Progress
    BY <2>2 DEF Progress
  <2> QED
    BY <1>3, <2>3 DEF Onward, o, Full
<1>4. CASE e.kind = "del"
  <2> DEFINE X == { Full(n) : n \in ToSet(e.names) }
             o == [gone |-> X]
  <2>1. X \subseteq Names
    <3>1. \A n \in ToSet(e.names) : n \in Names
      BY <1>4, EntryKinds DEF ToSet
    <3> QED
      BY <1>2, <3>1
  <2> HIDE DEF X
  <2>2. o \in Effects
    BY <2>1 DEF Effects
  <2> HIDE DEF o
  <2>3. Append(u.effects, o) \in Seq(Effects)
    BY <1>1, <2>2
  <2>4. [u EXCEPT !.effects = Append(@, o)] \in Progress
    BY <2>3 DEF Progress
  <2> QED
    BY <1>4, <2>4 DEF Onward, o, X, Full
<1>5. CASE e.kind = "open"
  <2>1. Append(u.ns, e.name) \in Names
    BY <1>1, <1>5, EntryKinds DEF Names
  <2>2. [u EXCEPT !.ns = Append(@, e.name)] \in Progress
    BY <2>1 DEF Progress
  <2> QED
    BY <1>5, <2>2 DEF Onward
<1>6. CASE e.kind = "close"
  <2>1. Front(u.ns) \in Names
    BY <1>1, AnyFront DEF Names
  <2>2. [u EXCEPT !.ns = Front(@)] \in Progress
    BY <2>1 DEF Progress
  <2> QED
    BY <1>6, <2>2 DEF Onward
<1>7. CASE e.kind = "include" /\ e.path \notin u.included
  <2> DEFINE v == whole[<<Included(a, u, e), u>>]
  <2>1. v \in Progress
    BY <1>7, IncludedType
  <2> HIDE DEF v
  <2>2. [v EXCEPT !.ns = u.ns] \in Progress
    BY <2>1, <1>1 DEF Progress, Names
  <2> QED
    BY <1>7, <2>2 DEF Onward, v
<1>8. CASE e.kind \notin {"assign", "del", "open", "close"}
           /\ ~(e.kind = "include" /\ e.path \notin u.included)
  BY <1>8 DEF Onward
<1> QED
  BY <1>3, <1>4, <1>5, <1>6, <1>7, <1>8

IsUnfolding(upto, d, whole, a, u) ==
    /\ \A i \in 0..Len(Lines(d, a.file)) : upto[i] \in Progress
    /\ upto[0] = Begun(u, a.text)
    /\ \A i \in 1..Len(Lines(d, a.file)) :
         upto[i] = Onward(whole, a, upto[i - 1], Lines(d, a.file)[i])

HasEntries(d) == \A p \in DOMAIN d : d[p] \in Seq(Entries)

LEMMA LinesType ==
    ASSUME NEW d, HasEntries(d), NEW p
    PROVE  /\ Lines(d, p) \in Seq(Entries)
           /\ Len(Lines(d, p)) \in Nat
           /\ \A i \in 1..Len(Lines(d, p)) : Lines(d, p)[i] \in Entries
<1>1. Lines(d, p) \in Seq(Entries)
  BY DEF Lines, HasEntries
<1> QED
  BY <1>1, ElementOfSeq, LenProperties

\* The recursive functions of ConfigMeaning exist: Unfolding, ...
LEMMA UnfoldingSteps ==
    ASSUME NEW d, HasEntries(d), NEW whole \in [Sources \X Progress -> Progress],
           NEW a \in Sources, NEW u \in Progress
    PROVE  IsUnfolding(Unfolding(d, whole, a, u), d, whole, a, u)
<1> DEFINE lines == Lines(d, a.file)
           n == Len(lines)
           base == Begun(u, a.text)
           step == [i \in 1..n |-> [x \in Progress |-> Onward(whole, a, x, lines[i])]]
           Steps(f) == f = [i \in 0..n |-> IF i = 0 THEN Begun(u, a.text)
                                           ELSE Onward(whole, a, f[i - 1], lines[i])]
           upto == CHOOSE f : Steps(f)
<1>1. Unfolding(d, whole, a, u) = upto
  BY DEF Unfolding
<1>2. n \in Nat /\ \A i \in 1..n : lines[i] \in Entries
  BY LinesType
<1> HIDE DEF lines
<1>3. base \in Progress
  BY BegunEffect, SourceFields
<1>4. step \in [1..n -> [Progress -> Progress]]
  BY <1>2, OnwardType
<1>5. PICK f \in [0..n -> Progress] : IsIterate(f, n, base, step)
  <2> HIDE DEF n, base, step
  <2> QED
    BY <1>2, <1>3, <1>4, IterateExists
<1>6. Steps(f)
  <2> DEFINE g == [i \in 0..n |-> IF i = 0 THEN Begun(u, a.text)
                                  ELSE Onward(whole, a, f[i - 1], lines[i])]
  <2>1. \A i \in 0..n : f[i] = g[i]
    <3> SUFFICES ASSUME NEW i \in 0..n PROVE f[i] = g[i]
      OBVIOUS
    <3>1. CASE i = 0
      BY <1>5, <3>1 DEF IsIterate
    <3>2. CASE i # 0
      <4>1. i \in 1..n /\ i - 1 \in 0..n
        BY <1>2, <3>2
      <4>2. f[i] = step[i][f[i - 1]] /\ f[i - 1] \in Progress
        BY <1>5, <4>1 DEF IsIterate
      <4>3. step[i][f[i - 1]] = Onward(whole, a, f[i - 1], lines[i])
        BY <4>1, <4>2
      <4> QED
        BY <3>2, <4>1, <4>2, <4>3
    <3> QED
      BY <3>1, <3>2
  <2> HIDE DEF n
  <2> QED
    BY <2>1
<1>7. Steps(upto)
  <2> HIDE DEF Steps
  <2> QED
    BY <1>6, Zenon
<1> HIDE DEF upto
<1>8. upto[0] = base
  BY <1>2, <1>7
<1>9. ASSUME NEW i \in 1..n
      PROVE  upto[i] = Onward(whole, a, upto[i - 1], lines[i])
  <2>1. i \in 0..n /\ i # 0
    BY <1>2
  <2> HIDE DEF n
  <2> QED
    BY <1>7, <2>1, Zenon
<1>10. \A i \in 0..n : upto[i] \in Progress
  <2> DEFINE P == { i \in 0..n : upto[i] \in Progress }
  <2>1. 0 \in P
    BY <1>2, <1>3, <1>8
  <2>2. ASSUME NEW i \in 1..n, i - 1 \in P PROVE i \in P
    <3>1. i \in 0..n /\ lines[i] \in Entries /\ upto[i - 1] \in Progress
      BY <1>2, <2>2
    <3>2. Onward(whole, a, upto[i - 1], lines[i]) \in Progress
      BY <3>1, OnwardType
    <3>3. upto[i] = Onward(whole, a, upto[i - 1], lines[i])
      BY <1>9
    <3> QED
      BY <3>1, <3>2, <3>3
  <2>3. \A i \in 0..n : i \in P
    <3> HIDE DEF P, n
    <3> QED
      BY <1>2, <2>1, <2>2, PositionInduction
  <2> QED
    BY <2>3
<1> HIDE DEF n, base
<1> QED
  BY <1>1, <1>8, <1>9, <1>10, Zenon DEF IsUnfolding, n, base, lines

\* What Whole computes for source a from u, from what it computes for one file less.
Through(d, whole, a, u) == Unfolding(d, whole, a, u)[Len(Lines(d, a.file))]

IsWhole(whole, d, k) ==
    /\ \A n \in 0..k : whole[n] \in [Sources \X Progress -> Progress]
    /\ \A n \in 1..k : \A a \in Sources, u \in Progress :
         whole[n][<<a, u>>] = Through(d, whole[n - 1], a, u)

LEMMA ThroughType ==
    ASSUME NEW d, HasEntries(d), NEW whole \in [Sources \X Progress -> Progress],
           NEW a \in Sources, NEW u \in Progress
    PROVE  Through(d, whole, a, u) \in Progress
<1>1. Len(Lines(d, a.file)) \in 0..Len(Lines(d, a.file))
  BY LinesType
<1> QED
  BY <1>1, UnfoldingSteps DEF IsUnfolding, Through

\* ... Whole, ...
LEMMA WholeSteps ==
    ASSUME NEW d, HasEntries(d), NEW k \in Nat
    PROVE  IsWhole(Whole(d, k), d, k)
<1> DEFINE D == [Sources \X Progress -> Progress]
           base == [x \in Sources \X Progress |-> x[2]]
           Next1(w) == [x \in Sources \X Progress |-> Through(d, w, x[1], x[2])]
           step == [n \in 1..k |-> [w \in D |-> Next1(w)]]
           Body(f, n) == [x \in Sources \X Progress |->
                            IF n = 0 THEN x[2]
                            ELSE Unfolding(d, f[n - 1], x[1], x[2])[Len(Lines(d, x[1].file))]]
           Steps(f) == f = [n \in 0..k |-> Body(f, n)]
           whole == CHOOSE f : Steps(f)
<1>1. Whole(d, k) = whole
  BY DEF Whole
<1>2. base \in D
  OBVIOUS
<1>3. \A w \in D : Next1(w) \in D
  BY ThroughType
<1>4. step \in [1..k -> [D -> D]]
  <2> HIDE DEF Next1, D
  <2> QED
    BY <1>3
<1>5. PICK f \in [0..k -> D] : IsIterate(f, k, base, step)
  <2> HIDE DEF D, base, step
  <2> QED
    BY <1>2, <1>4, IterateExists
<1>6. \A g : Body(g, 0) = base
  OBVIOUS
<1>7. \A g : \A n \in 1..k : Body(g, n) = Next1(g[n - 1])
  BY DEF Through
<1> HIDE DEF Body, Next1, base
<1>8. Steps(f)
  <2> DEFINE g == [n \in 0..k |-> Body(f, n)]
  <2>1. \A n \in 0..k : f[n] = g[n]
    <3> SUFFICES ASSUME NEW n \in 0..k PROVE f[n] = g[n]
      OBVIOUS
    <3>1. CASE n = 0
      BY <1>5, <1>6, <3>1 DEF IsIterate
    <3>2. CASE n # 0
      <4>1. n \in 1..k /\ n - 1 \in 0..k
        BY <3>2
      <4> HIDE DEF D
      <4>2. f[n] = step[n][f[n - 1]] /\ f[n - 1] \in D
        BY <1>5, <4>1 DEF IsIterate
      <4>3. step[n][f[n - 1]] = Next1(f[n - 1])
        BY <4>1, <4>2
      <4> QED
        BY <1>7, <4>1, <4>2, <4>3
    <3> QED
      BY <3>1, <3>2
  <2> HIDE DEF D
  <2> QED
    BY <2>1
<1>9. Steps(whole)
  <2> HIDE DEF Steps
  <2> QED
    BY <1>8, Zenon
<1> HIDE DEF whole
<1>10. whole[0] = base
  BY <1>6, <1>9
<1>11. ASSUME NEW n \in 1..k PROVE whole[n] = Next1(whole[n - 1])
  <2>1. n \in 0..k
    OBVIOUS
  <2> QED
    BY <1>7, <1>9, <2>1
<1>12. \A n \in 0..k : whole[n] \in D
  <2> DEFINE P == { n \in 0..k : whole[n] \in D }
  <2> HIDE DEF D
  <2>1. 0 \in P
    BY <1>2, <1>10
  <2>2. ASSUME NEW n \in 1..k, n - 1 \in P PROVE n \in P
    BY <1>3, <1>11, <2>2
  <2> HIDE DEF P
  <2>3. \A n \in 0..k : n \in P
    BY <2>1, <2>2, PositionInduction
  <2> QED
    BY <2>3 DEF P
<1>13. ASSUME NEW n \in 1..k, NEW a \in Sources, NEW u \in Progress
       PROVE  whole[n][<<a, u>>] = Through(d, whole[n - 1], a, u)
  BY <1>11 DEF Next1
<1> QED
  BY <1>1, <1>12, <1>13 DEF IsWhole

IsLayered(upto, d, k) ==
    /\ \A i \in 0..Len(Layers) : upto[i] \in Progress
    /\ upto[0] = Unstarted
    /\ \A i \in 1..Len(Layers) :
         upto[i] = Whole(d, k)[k][<<LayerSource(i), upto[i - 1]>>]

LEMMA LayerType ==
    ASSUME NEW i \in 1..Len(Layers)
    PROVE  LayerSource(i) \in Sources
<1>1. Layers[i] \in Texts /\ Home \in Seq(Atoms)
  BY StoreAssumption, ElementOfSeq
<1>2. Real(Home, Layers[i]) \in Seq(Atoms)
  BY <1>1, FromType
<1> QED
  BY <1>1, <1>2 DEF LayerSource, Sources, Names

\* ... Layered ...
LEMMA LayeredSteps ==
    ASSUME NEW d, HasEntries(d), NEW k \in Nat
    PROVE  IsLayered(Layered(d, k), d, k)
<1> DEFINE n == Len(Layers)
           w == Whole(d, k)[k]
           After(i, u) == w[<<LayerSource(i), u>>]
           step == [i \in 1..n |-> [u \in Progress |-> After(i, u)]]
           Steps(f) == f = [i \in 0..n |-> IF i = 0 THEN Unstarted
                                           ELSE w[<<LayerSource(i), f[i - 1]>>]]
           upto == CHOOSE f : Steps(f)
<1>1. Layered(d, k) = upto
  BY DEF Layered
<1>2. n \in Nat
  BY StoreAssumption
<1>3. w \in [Sources \X Progress -> Progress]
  <2>1. k \in 0..k
    OBVIOUS
  <2> QED
    BY <2>1, WholeSteps DEF IsWhole
<1> HIDE DEF w
<1>4. Unstarted \in Progress
  BY DEF Unstarted, Progress, Names
<1>5. ASSUME NEW i \in 1..n, NEW u \in Progress PROVE After(i, u) \in Progress
  BY <1>3, LayerType
<1>6. step \in [1..n -> [Progress -> Progress]]
  <2> HIDE DEF After, n
  <2> QED
    BY <1>5
<1>7. PICK f \in [0..n -> Progress] : IsIterate(f, n, Unstarted, step)
  <2> HIDE DEF n, step
  <2> QED
    BY <1>2, <1>4, <1>6, IterateExists
<1>8. Steps(f)
  <2> DEFINE g == [i \in 0..n |-> IF i = 0 THEN Unstarted
                                  ELSE w[<<LayerSource(i), f[i - 1]>>]]
  <2>1. \A i \in 0..n : f[i] = g[i]
    <3> SUFFICES ASSUME NEW i \in 0..n PROVE f[i] = g[i]
      OBVIOUS
    <3>1. CASE i = 0
      BY <1>7, <3>1 DEF IsIterate
    <3>2. CASE i # 0
      <4>1. i \in 1..n /\ i - 1 \in 0..n
        BY <1>2, <3>2
      <4>2. f[i] = step[i][f[i - 1]] /\ f[i - 1] \in Progress
        BY <1>7, <4>1 DEF IsIterate
      <4>3. step[i][f[i - 1]] = After(i, f[i - 1])
        BY <4>1, <4>2
      <4> QED
        BY <3>2, <4>1, <4>2, <4>3
    <3> QED
      BY <3>1, <3>2
  <2> HIDE DEF n
  <2> QED
    BY <2>1
<1>9. Steps(upto)
  <2> HIDE DEF Steps
  <2> QED
    BY <1>8, Zenon
<1> HIDE DEF upto
<1>10. upto[0] = Unstarted
  BY <1>2, <1>9
<1>11. ASSUME NEW i \in 1..n
       PROVE  upto[i] = After(i, upto[i - 1])
  <2>1. i \in 0..n /\ i # 0
    BY <1>2
  <2> HIDE DEF n
  <2> QED
    BY <1>9, <2>1, Zenon
<1>12. \A i \in 0..n : upto[i] \in Progress
  <2> DEFINE P == { i \in 0..n : upto[i] \in Progress }
  <2>1. 0 \in P
    BY <1>2, <1>4, <1>10
  <2>2. ASSUME NEW i \in 1..n, i - 1 \in P PROVE i \in P
    <3>1. i \in 0..n /\ upto[i - 1] \in Progress
      BY <1>2, <2>2
    <3>2. After(i, upto[i - 1]) \in Progress
      BY <1>5, <3>1
    <3> QED
      BY <1>11, <3>1, <3>2
  <2>3. \A i \in 0..n : i \in P
    <3> HIDE DEF P, n
    <3> QED
      BY <1>2, <2>1, <2>2, PositionInduction
  <2> QED
    BY <2>3
<1> QED
  BY <1>1, <1>10, <1>11, <1>12 DEF IsLayered, w

-----------------------------------------------------------------------------
(* Its effects *)

IsEvaluation(upto, effects) ==
    /\ upto[0] = EmptyTable
    /\ \A i \in 1..Len(effects) : upto[i] = Effect(upto[i - 1], effects[i])

\* The tables it goes through: symbols may have no values here.
MeantTables ==
    [order : Seq(Names),
     sym : UNION { [X -> [values : Seq(Values), content : Seq(Items), uri : Texts]]
                   : X \in SUBSET Names }]

LEMMA WithoutType ==
    ASSUME NEW S, NEW s \in Seq(S), NEW X
    PROVE  Without(s, X) \in Seq(S)
<1>1. PICK left : Without(s, X) = left[Len(s)] /\ IsLeft(left, s, X)
  BY WithoutSteps, Zenon
<1> DEFINE P == { i \in 0..Len(s) : left[i] \in Seq(S) }
<1>2. Len(s) \in Nat
  OBVIOUS
<1>3. 0 \in P
  <2>1. left[0] = <<>>
    BY <1>1 DEF IsLeft
  <2>2. left[0] \in Seq(S)
    BY <2>1, EmptySeq
  <2>3. 0 \in 0..Len(s)
    BY <1>2
  <2> QED
    BY <2>2, <2>3, Zenon
<1>4. ASSUME NEW i \in 1..Len(s), i - 1 \in P PROVE i \in P
  <2>1. i \in 0..Len(s) /\ left[i - 1] \in Seq(S) /\ s[i] \in S
    BY <1>2, <1>4
  <2>2. left[i] = IF s[i] \in X THEN left[i - 1] ELSE Append(left[i - 1], s[i])
    BY <1>1 DEF IsLeft
  <2>3. left[i] \in Seq(S)
    BY <2>1, <2>2, AppendProperties
  <2> QED
    BY <2>1, <2>3
<1> HIDE DEF P
<1>5. \A i \in 0..Len(s) : i \in P
  BY <1>2, <1>3, <1>4, PositionInduction
<1>6. Len(s) \in P
  BY <1>2, <1>5
<1> QED
  BY <1>1, <1>6 DEF P

LEMMA MeantTableFields ==
    ASSUME NEW T \in MeantTables
    PROVE  /\ T.order \in Seq(Names) /\ Defined(T) \subseteq Names
           /\ T.sym \in [Defined(T) ->
                            [values : Seq(Values), content : Seq(Items), uri : Texts]]
           /\ HasValues(T)
<1> DEFINE S == [values : Seq(Values), content : Seq(Items), uri : Texts]
<1>1. T.order \in Seq(Names) /\ T.sym \in UNION { [X -> S] : X \in SUBSET Names }
  BY DEF MeantTables
<1>2. \A s \in S : s.values \in Seq(Values)
  OBVIOUS
<1> HIDE DEF S
<1>3. PICK X \in SUBSET Names : T.sym \in [X -> S]
  BY <1>1
<1>4. Defined(T) = X
  BY <1>3 DEF Defined
<1>5. HasValues(T)
  BY <1>2, <1>3, <1>4 DEF HasValues
<1> QED
  BY <1>1, <1>3, <1>4, <1>5 DEF S

LEMMA MeantTable ==
    ASSUME NEW o \in Seq(Names), NEW X \in SUBSET Names,
           NEW y \in [X -> [values : Seq(Values), content : Seq(Items), uri : Texts]]
    PROVE  [order |-> o, sym |-> y] \in MeantTables
<1> DEFINE S == [values : Seq(Values), content : Seq(Items), uri : Texts]
<1> HIDE DEF S
<1>1. y \in [X -> S]
  BY DEF S
<1>2. y \in UNION { [Z -> S] : Z \in SUBSET Names }
  BY <1>1
<1> QED
  BY <1>2 DEF MeantTables, S

LEMMA EffectType ==
    ASSUME NEW T \in MeantTables, NEW o \in Effects
    PROVE  Effect(T, o) \in MeantTables
<1> DEFINE S == [values : Seq(Values), content : Seq(Items), uri : Texts]
<1>1. /\ T.order \in Seq(Names) /\ Defined(T) \subseteq Names
      /\ T.sym \in [Defined(T) -> S]
      /\ HasValues(T)
  BY MeantTableFields
<1>2. CASE o \in [gone : SUBSET Names]
  <2> DEFINE p == Without(T.order, o.gone)
             y == [m \in Defined(T) \ o.gone |-> T.sym[m]]
  <2>1. "gone" \in DOMAIN o
    BY <1>2
  <2>2. Effect(T, o) = [order |-> p, sym |-> y]
    BY <2>1 DEF Effect, Drop, Restrict
  <2>3. p \in Seq(Names)
    BY <1>1, WithoutType
  <2> HIDE DEF S
  <2>4. y \in [Defined(T) \ o.gone -> S] /\ Defined(T) \ o.gone \in SUBSET Names
    BY <1>1
  <2> HIDE DEF p, y
  <2> QED
    BY <2>2, <2>3, <2>4, MeantTable DEF S
<1>3. CASE o \in [name : Names, rhs : Seq(Items), uri : Texts]
  <2> DEFINE v == Eval(T, o.rhs)
             s == [values |-> v, content |-> o.rhs, uri |-> o.uri]
             n == o.name
             p == IF n \in Defined(T) THEN T.order ELSE Append(T.order, n)
             y == [m \in Defined(T) \cup {n} |-> IF m = n THEN s ELSE T.sym[m]]
  <2>1. /\ "gone" \notin DOMAIN o
        /\ n \in Names /\ o.rhs \in Seq(Items) /\ o.uri \in Texts
    BY <1>3
  <2>2. v \in Seq(Values)
    BY <1>1, <2>1, EvalType
  <2>3. Effect(T, o) = [order |-> p, sym |-> y]
    BY <2>1 DEF Effect, Put
  <2> HIDE DEF v
  <2>4. s \in S
    BY <2>1, <2>2
  <2> HIDE DEF s, n, S
  <2>5. p \in Seq(Names)
    BY <1>1, <2>1
  <2>6. y \in [Defined(T) \cup {n} -> S] /\ Defined(T) \cup {n} \in SUBSET Names
    BY <1>1, <2>1, <2>4
  <2> HIDE DEF p, y
  <2> QED
    BY <2>3, <2>5, <2>6, MeantTable DEF S
<1> QED
  BY <1>2, <1>3 DEF Effects

\* ... and Evaluated.
LEMMA EvaluatedSteps ==
    ASSUME NEW effects \in Seq(Effects)
    PROVE  \E upto : Evaluated(effects) = upto[Len(effects)] /\ IsEvaluation(upto, effects)
<1> DEFINE n == Len(effects)
           step == [i \in 1..n |-> [T \in MeantTables |-> Effect(T, effects[i])]]
           Steps(f) == f = [i \in 0..n |-> IF i = 0 THEN EmptyTable
                                           ELSE Effect(f[i - 1], effects[i])]
           upto == CHOOSE f : Steps(f)
<1>1. Evaluated(effects) = upto[n]
  BY DEF Evaluated
<1>2. n \in Nat /\ \A i \in 1..n : effects[i] \in Effects
  OBVIOUS
<1>3. EmptyTable \in MeantTables
  <2>1. /\ <<>> \in [{} -> [values : Seq(Values), content : Seq(Items), uri : Texts]]
        /\ {} \in SUBSET Names /\ <<>> \in Seq(Names)
    OBVIOUS
  <2> QED
    BY <2>1, MeantTable DEF EmptyTable
<1>4. step \in [1..n -> [MeantTables -> MeantTables]]
  BY <1>2, EffectType
<1>5. PICK f \in [0..n -> MeantTables] : IsIterate(f, n, EmptyTable, step)
  <2> HIDE DEF n, step
  <2> QED
    BY <1>2, <1>3, <1>4, IterateExists
<1>6. Steps(f)
  <2> DEFINE g == [i \in 0..n |-> IF i = 0 THEN EmptyTable ELSE Effect(f[i - 1], effects[i])]
  <2>1. \A i \in 0..n : f[i] = g[i]
    <3> SUFFICES ASSUME NEW i \in 0..n PROVE f[i] = g[i]
      OBVIOUS
    <3>1. CASE i = 0
      BY <1>5, <3>1 DEF IsIterate
    <3>2. CASE i # 0
      <4>1. i \in 1..n /\ i - 1 \in 0..n
        BY <1>2, <3>2
      <4>2. f[i] = step[i][f[i - 1]] /\ f[i - 1] \in MeantTables
        BY <1>5, <4>1 DEF IsIterate
      <4>3. step[i][f[i - 1]] = Effect(f[i - 1], effects[i])
        BY <4>1, <4>2
      <4> QED
        BY <3>2, <4>1, <4>2, <4>3
    <3> QED
      BY <3>1, <3>2
  <2> HIDE DEF n
  <2> QED
    BY <2>1
<1>7. Steps(upto)
  <2> HIDE DEF Steps
  <2> QED
    BY <1>6, Zenon
<1> HIDE DEF upto
<1>8. upto[0] = EmptyTable
  BY <1>2, <1>7
<1>9. ASSUME NEW i \in 1..n
      PROVE  upto[i] = Effect(upto[i - 1], effects[i])
  <2>1. i \in 0..n /\ i # 0
    BY <1>2
  <2> HIDE DEF n
  <2> QED
    BY <1>7, <2>1, Zenon
<1>10. IsEvaluation(upto, effects)
  BY <1>8, <1>9, Zenon DEF IsEvaluation
<1> QED
  BY <1>1, <1>10, Zenon

LEMMA EvaluatedNothing == Evaluated(<<>>) = EmptyTable
<1> DEFINE s == <<>>
<1>1. s \in Seq(Effects) /\ Len(s) = 0
  OBVIOUS
<1> HIDE DEF s
<1>2. Evaluated(s) = EmptyTable
  BY <1>1, EvaluatedSteps DEF IsEvaluation
<1> QED
  BY <1>2 DEF s

\* One more effect is one more step.
LEMMA EvaluatedAppend ==
    ASSUME NEW effects \in Seq(Effects), NEW o \in Effects
    PROVE  Evaluated(Append(effects, o)) = Effect(Evaluated(effects), o)
<1> DEFINE n == Len(effects)
           longer == Append(effects, o)
<1>1. /\ n \in Nat /\ longer \in Seq(Effects) /\ Len(longer) = n + 1
      /\ longer[n + 1] = o /\ \A i \in 1..n : longer[i] = effects[i]
  OBVIOUS
<1>2. PICK f : Evaluated(effects) = f[n] /\ IsEvaluation(f, effects)
  BY EvaluatedSteps, Zenon
<1> HIDE DEF longer
<1>3. PICK g : Evaluated(longer) = g[Len(longer)] /\ IsEvaluation(g, longer)
  BY <1>1, EvaluatedSteps, Zenon
<1> DEFINE P == { i \in 0..n : g[i] = f[i] }
<1> HIDE DEF n
<1>4. 0 \in P
  BY <1>1, <1>2, <1>3 DEF IsEvaluation
<1>5. ASSUME NEW i \in 1..n, i - 1 \in P PROVE i \in P
  <2>1. i \in 0..n /\ i \in 1..(n + 1) /\ g[i - 1] = f[i - 1] /\ longer[i] = effects[i]
    BY <1>1, <1>5
  <2>2. f[i] = Effect(f[i - 1], effects[i])
    BY <1>2 DEF IsEvaluation, n
  <2>3. g[i] = Effect(g[i - 1], longer[i])
    BY <1>1, <1>3, <2>1 DEF IsEvaluation
  <2> QED
    BY <2>1, <2>2, <2>3
<1>6. n \in P
  <2> HIDE DEF P
  <2>1. \A i \in 0..n : i \in P
    BY <1>1, <1>4, <1>5, PositionInduction
  <2> QED
    BY <1>1, <2>1
<1>7. g[n + 1] = Effect(g[n], o)
  <2>1. n + 1 \in 1..Len(longer) /\ (n + 1) - 1 = n
    BY <1>1
  <2> QED
    BY <1>1, <1>3, <2>1 DEF IsEvaluation
<1> QED
  BY <1>1, <1>2, <1>3, <1>6, <1>7 DEF longer, n

-----------------------------------------------------------------------------
(* Readers follow the unfolding *)

\* The source that a Config object unfolds.
SourceOf(f) == [file |-> f.file, text |-> f.text, outer |-> f.default]

\* Frame j waits for frame j + 1, which reads the file that its entry includes.
Waits(u, j) ==
    /\ frames[j].pos <= Len(disk[frames[j].file])
    /\ Entry(frames[j]).kind = "include"
    /\ Entry(frames[j]).path \notin u[j].included
    /\ SourceOf(frames[j + 1]) = Included(SourceOf(frames[j]), u[j], Entry(frames[j]))

\* u is the progress of the layers that were read and of each frame, when k files can
\* be in one another.
IsTrail(u, k) ==
    /\ u \in [0..Len(frames) -> Progress]
    /\ u[0] = Layered(disk, k)[Len(results)]
    /\ frames # <<>> => SourceOf(frames[1]) = LayerSource(Len(results) + 1)
    /\ \A j \in 1..Len(frames) :
         /\ u[j] = Unfolding(disk, Whole(disk, k)[k - j], SourceOf(frames[j]),
                             u[j - 1])[frames[j].pos - 1]
         /\ u[j].ns = frames[j].ns
         /\ frames[j].pos <= Len(disk[frames[j].file]) + 1
         /\ j < Len(frames) => Waits(u, j)
    /\ table = Evaluated(u[Len(frames)].effects)
    /\ included = u[Len(frames)].included

Follows ==
    /\ IsFiniteSet(included)
    /\ phase = "loaded" => Len(results) = Len(Layers)
    /\ phase \in {"read", "loaded"} /\ Clean =>
         \A k \in Nat : k >= Cardinality(included) => \E u : IsTrail(u, k)

\* No more files are in one another than texts were included: no file is in itself.
LEMMA Depth == IInv /\ IsFiniteSet(included) => Len(frames) <= Cardinality(included)
<1> SUFFICES ASSUME IInv, IsFiniteSet(included) PROVE Len(frames) <= Cardinality(included)
  OBVIOUS
<1> DEFINE n == Len(frames)
           f == [i \in 1..n |-> frames[i].text]
<1>1. n \in Nat /\ DOMAIN frames = 1..n
  BY DEF IInv, Shapes
<1>2. \A i \in 1..n : frames[i].text \in included
  BY DEF IInv, Shapes
<1>3. \A i, j \in 1..n : frames[i].text = frames[j].text => i = j
  BY <1>1 DEF IInv, NoCycle
<1> HIDE DEF n
<1>4. f \in Injection(1..n, included)
  BY <1>2, <1>3 DEF Injection, IsInjective
<1> HIDE DEF f
<1>5. Cardinality(1..n) <= Cardinality(included)
  BY <1>4, FS_Injection, Zenon
<1>6. Cardinality(1..n) = n
  BY <1>1, FS_Interval
<1> QED
  BY <1>5, <1>6 DEF n

LEMMA SourceType ==
    ASSUME NEW f \in Frames
    PROVE  /\ SourceOf(f) \in Sources
           /\ SourceOf(f).file = f.file /\ SourceOf(f).text = f.text
           /\ SourceOf(f).outer = f.default
BY FrameFields DEF SourceOf, Sources, Names

LEMMA FileLines ==
    ASSUME IInv, NEW j \in 1..Len(frames)
    PROVE  Lines(disk, frames[j].file) = disk[frames[j].file]
BY DEF IInv, Shapes, Lines

LEMMA DataHasEntries == ASSUME Data PROVE HasEntries(disk)
BY DEF Data, HasEntries

LEMMA WholeType ==
    ASSUME NEW d, HasEntries(d), NEW k \in Nat, NEW n \in 0..k
    PROVE  Whole(d, k)[n] \in [Sources \X Progress -> Progress]
BY WholeSteps DEF IsWhole

LEMMA WaitsNext ==
    ASSUME NEW v, NEW j, NEW f, NEW g, disk' = disk, frames'[j] = f, frames'[j + 1] = g,
           f.pos <= Len(disk[f.file]), Entry(f).kind = "include",
           Entry(f).path \notin v[j].included,
           SourceOf(g) = Included(SourceOf(f), v[j], Entry(f))
    PROVE  Waits(v, j)'
<1>1. Entry(f)' = Entry(f) /\ SourceOf(f)' = SourceOf(f) /\ SourceOf(g)' = SourceOf(g)
  BY DEF Entry, SourceOf
<1>2. Entry(frames[j])' = Entry(f) /\ SourceOf(frames[j])' = SourceOf(f)
      /\ SourceOf(frames[j + 1])' = SourceOf(g)
  BY DEF Entry, SourceOf
<1> QED
  BY <1>2 DEF Waits

-----------------------------------------------------------------------------
(* Steps of the trail *)

\* The frame m is through with its entry, and those that it waited for are gone.
LEMMA TrailOnward ==
    ASSUME IInv, HasEntries(disk), NEW k \in Nat, NEW u, IsTrail(u, k),
           NEW m \in 1..Len(frames), Len(frames) <= k,
           frames[m].pos <= Len(disk[frames[m].file]),
           NEW w, w = Onward(Whole(disk, k)[k - m], SourceOf(frames[m]), u[m],
                             Entry(frames[m])),
           frames' \in Seq(Frames), Len(frames') = m,
           \A j \in 1..m : j # m => frames'[j] = frames[j],
           SourceOf(frames'[m]) = SourceOf(frames[m]),
           frames'[m].pos = frames[m].pos + 1, frames'[m].file = frames[m].file,
           frames'[m].ns = w.ns,
           table' = Evaluated(w.effects), included' = w.included,
           disk' = disk, results' = results
    PROVE  \E v : IsTrail(v, k)'
<1> DEFINE n == Len(frames)
           Upto(j) == Unfolding(disk, Whole(disk, k)[k - j], SourceOf(frames[j]), u[j - 1])
           lines == Lines(disk, frames[m].file)
           p == frames[m].pos
<1>1. n \in Nat /\ frames \in Seq(Frames) /\ m \in Nat \ {0} /\ m <= n /\ frames # <<>>
  BY DEF IInv, Shapes
<1>2. /\ u \in [0..n -> Progress]
      /\ u[0] = Layered(disk, k)[Len(results)]
      /\ SourceOf(frames[1]) = LayerSource(Len(results) + 1)
      /\ \A j \in 1..n : /\ u[j] = Upto(j)[frames[j].pos - 1]
                         /\ u[j].ns = frames[j].ns
                         /\ frames[j].pos <= Len(disk[frames[j].file]) + 1
                         /\ j < n => Waits(u, j)
  BY <1>1 DEF IsTrail
<1>3. frames[m] \in Frames
  BY <1>1
<1>4. /\ Whole(disk, k)[k - m] \in [Sources \X Progress -> Progress]
      /\ SourceOf(frames[m]) \in Sources
      /\ SourceOf(frames[m]).file = frames[m].file
      /\ u[m - 1] \in Progress /\ u[m] \in Progress
  <2>1. k - m \in 0..k /\ m - 1 \in 0..n /\ m \in 0..n
    BY <1>1
  <2> QED
    BY <1>2, <1>3, <2>1, WholeType, SourceType
<1>5. lines = disk[frames[m].file]
  BY FileLines
<1>6. p \in 1..Len(lines) /\ Len(lines) \in Nat
  <2>1. p \in Nat \ {0} /\ Len(lines) \in Nat
    BY <1>3, FrameFields, LinesType
  <2> HIDE DEF lines, p
  <2>2. p <= Len(lines)
    BY <1>5 DEF p
  <2> QED
    BY <2>1, <2>2
<1>7. lines[p] = Entry(frames[m]) /\ lines[p] \in Entries
  BY <1>5, <1>6, LinesType DEF Entry
<1>8. IsUnfolding(Upto(m), disk, Whole(disk, k)[k - m], SourceOf(frames[m]), u[m - 1])
  BY <1>4, UnfoldingSteps
<1>9. Upto(m)[p] = w
  <2>1. Upto(m)[p] = Onward(Whole(disk, k)[k - m], SourceOf(frames[m]), Upto(m)[p - 1],
                            lines[p])
    <3> HIDE DEF Upto, p
    <3> QED
      BY <1>4, <1>6, <1>8 DEF IsUnfolding
  <2>2. Upto(m)[p - 1] = u[m]
    BY <1>2
  <2> HIDE DEF Upto, lines, p
  <2> QED
    BY <1>7, <2>1, <2>2
<1>10. w \in Progress
  BY <1>4, <1>7, OnwardType
<1> HIDE DEF n, lines, p
<1>11. PICK v \in [0..m -> Progress] :
         v[m] = w /\ \A j \in 0..m : j # m => v[j] = u[j]
  <2> DEFINE x == [j \in 0..m |-> IF j = m THEN w ELSE u[j]]
  <2>1. ASSUME NEW j \in 0..m PROVE x[j] \in Progress
    <3>1. j # m => j \in 0..n
      BY <1>1
    <3> QED
      BY <1>2, <1>10, <3>1
  <2>2. x \in [0..m -> Progress] /\ x[m] = w /\ \A j \in 0..m : j # m => x[j] = u[j]
    BY <1>1, <2>1
  <2> HIDE DEF x
  <2> QED
    BY <2>2
<1>12. m \in 0..m
  BY <1>1
<1>13. \A j \in 1..m :
         /\ SourceOf(frames'[j]) = SourceOf(frames[j])
         /\ frames'[j].file = frames[j].file
  OBVIOUS
<1>14. v[0] = Layered(disk, k)[Len(results')]
  <2>1. 0 \in 0..m /\ 0 # m
    BY <1>1
  <2> QED
    BY <1>2, <1>11, <1>12, <2>1
<1>15. SourceOf(frames'[1]) = LayerSource(Len(results') + 1)
  <2>1. 1 \in 1..m
    BY <1>1
  <2> QED
    BY <1>2, <1>13, <2>1
<1>16. ASSUME NEW j \in 1..m
       PROVE  /\ v[j] = Unfolding(disk, Whole(disk, k)[k - j], SourceOf(frames'[j]),
                                  v[j - 1])[frames'[j].pos - 1]
              /\ v[j].ns = frames'[j].ns
              /\ frames'[j].pos <= Len(disk[frames'[j].file]) + 1
  <2>1. j \in 1..n /\ j \in 0..m /\ j - 1 \in 0..m /\ j - 1 # m /\ j # 0
    BY <1>1
  <2>2. v[j - 1] = u[j - 1] /\ SourceOf(frames'[j]) = SourceOf(frames[j])
    BY <1>11, <1>12, <1>13, <2>1
  <2>3. Unfolding(disk, Whole(disk, k)[k - j], SourceOf(frames'[j]), v[j - 1]) = Upto(j)
    BY <2>2
  <2> HIDE DEF Upto
  <2>4. CASE j = m
    <3>1. frames'[m].pos - 1 = p
      <4>1. p \in Nat /\ frames'[m].pos = p + 1
        BY <1>6 DEF p
      <4> QED
        BY <4>1
    <3>2. frames'[m].pos <= Len(disk[frames'[m].file]) + 1
      BY <1>5, <1>6 DEF p, lines
    <3> QED
      BY <1>9, <1>11, <1>12, <2>3, <2>4, <3>1, <3>2
  <2>5. CASE j # m
    <3>1. frames'[j] = frames[j] /\ v[j] = u[j]
      BY <1>11, <1>12, <2>1, <2>5
    <3> QED
      BY <1>2, <2>1, <2>3, <3>1
  <2> QED
    BY <2>4, <2>5
<1>17. ASSUME NEW j \in 1..m, j < m
       PROVE  Waits(v, j)'
  <2>1. j \in 1..n /\ j < n /\ j \in 0..m /\ j # m /\ j + 1 \in 1..m
    BY <1>1, <1>17
  <2>2. frames'[j] = frames[j] /\ v[j] = u[j] /\ Waits(u, j)
    BY <1>2, <1>11, <1>12, <2>1
  <2>3. SourceOf(frames'[j + 1]) = SourceOf(frames[j + 1])
    BY <1>13, <2>1
  <2>4. /\ frames[j].pos <= Len(disk[frames[j].file])
        /\ Entry(frames[j]).kind = "include" /\ Entry(frames[j]).path \notin v[j].included
        /\ SourceOf(frames'[j + 1]) =
             Included(SourceOf(frames[j]), v[j], Entry(frames[j]))
    BY <2>2, <2>3 DEF Waits
  <2> QED
    BY <2>2, <2>4, WaitsNext, Zenon
<1>18. IsTrail(v, k)'
  <2>1. v \in [0..Len(frames') -> Progress]
    BY <1>11
  <2>2. table' = Evaluated(v[Len(frames')].effects) /\ included' = v[Len(frames')].included
    BY <1>11, <1>12
  <2>3. \A j \in 1..Len(frames') :
         /\ v[j] = Unfolding(disk', Whole(disk', k)[k - j], SourceOf(frames'[j]),
                             v[j - 1])[frames'[j].pos - 1]
         /\ v[j].ns = frames'[j].ns
         /\ frames'[j].pos <= Len(disk'[frames'[j].file]) + 1
         /\ j < Len(frames') => Waits(v, j)'
    BY <1>16, <1>17, Zenon
  <2> QED
    BY <1>14, <1>15, <2>1, <2>2, <2>3, Zenon DEF IsTrail, SourceOf
<1> QED
  BY <1>18, Zenon

\* A file begins.
LEMMA TrailPush ==
    ASSUME IInv, HasEntries(disk), NEW k \in Nat, NEW u, IsTrail(u, k),
           Len(frames) + 1 <= k, NEW g \in Frames, g.pos = 1, g.ns = <<>>,
           g.file \in DOMAIN disk,
           frames' = Append(frames, g),
           IF frames = <<>> THEN SourceOf(g) = LayerSource(Len(results) + 1)
           ELSE LET f == frames[Len(frames)]
                IN /\ f.pos <= Len(disk[f.file])
                   /\ Entry(f).kind = "include" /\ Entry(f).path = g.text
                   /\ g.text \notin included
                   /\ SourceOf(g) = Included(SourceOf(f), u[Len(frames)], Entry(f)),
           table' = table, included' = included \cup {g.text},
           disk' = disk, results' = results
    PROVE  \E v : IsTrail(v, k)'
<1> DEFINE n == Len(frames)
           b == Begun(u[n], g.text)
           Upto(j, s, x) == Unfolding(disk, Whole(disk, k)[k - j], s, x)
<1>1. /\ n \in Nat /\ frames \in Seq(Frames)
      /\ frames' \in Seq(Frames) /\ Len(frames') = n + 1
      /\ frames'[n + 1] = g /\ \A j \in 1..n : frames'[j] = frames[j]
  BY DEF IInv, Shapes
<1>2. /\ u \in [0..n -> Progress]
      /\ u[0] = Layered(disk, k)[Len(results)]
      /\ n # 0 => SourceOf(frames[1]) = LayerSource(Len(results) + 1)
      /\ \A j \in 1..n : /\ u[j] = Upto(j, SourceOf(frames[j]), u[j - 1])[frames[j].pos - 1]
                         /\ u[j].ns = frames[j].ns
                         /\ frames[j].pos <= Len(disk[frames[j].file]) + 1
                         /\ j < n => Waits(u, j)
      /\ table = Evaluated(u[n].effects)
      /\ included = u[n].included
  BY <1>1 DEF IsTrail
<1>3. u[n] \in Progress /\ g.text \in Texts
  <2>1. u \in [0..n -> Progress]
    BY <1>2, Zenon
  <2>2. n \in 0..n
    BY <1>1
  <2>3. g.text \in Texts
    BY FrameFields
  <2> QED
    BY <2>1, <2>2, <2>3
<1>4. /\ b \in Progress /\ b.effects = u[n].effects
      /\ b.included = u[n].included \cup {g.text} /\ b.ns = <<>>
  BY <1>3, BegunEffect
<1>5. Upto(n + 1, SourceOf(g), u[n])[0] = b
  <2>1. Whole(disk, k)[k - (n + 1)] \in [Sources \X Progress -> Progress]
    <3>1. k - (n + 1) \in 0..k
      BY <1>1
    <3> QED
      BY <3>1, WholeType
  <2>2. SourceOf(g) \in Sources /\ SourceOf(g).text = g.text
    BY SourceType
  <2>3. IsUnfolding(Upto(n + 1, SourceOf(g), u[n]), disk, Whole(disk, k)[k - (n + 1)],
                    SourceOf(g), u[n])
    BY <1>3, <2>1, <2>2, UnfoldingSteps
  <2> QED
    BY <2>2, <2>3 DEF IsUnfolding
<1> HIDE DEF n, b
<1>6. PICK v \in [0..(n + 1) -> Progress] :
        v[n + 1] = b /\ \A j \in 0..n : v[j] = u[j]
  <2> DEFINE x == [j \in 0..(n + 1) |-> IF j = n + 1 THEN b ELSE u[j]]
  <2>1. ASSUME NEW j \in 0..(n + 1) PROVE x[j] \in Progress
    <3>1. j # n + 1 => j \in 0..n
      BY <1>1
    <3> QED
      BY <1>2, <1>4, <3>1
  <2>2. /\ x \in [0..(n + 1) -> Progress]
        /\ x[n + 1] = b /\ \A j \in 0..n : x[j] = u[j]
    BY <1>1, <2>1
  <2> HIDE DEF x
  <2> QED
    BY <2>2
<1>7. v[0] = Layered(disk, k)[Len(results')]
  BY <1>1, <1>2, <1>6
<1>8. SourceOf(frames'[1]) = LayerSource(Len(results') + 1)
  <2>1. CASE n = 0
    BY <1>1, <2>1 DEF n
  <2>2. CASE n # 0
    <3>1. 1 \in 1..n
      BY <1>1, <2>2
    <3> QED
      BY <1>1, <1>2, <2>2, <3>1
  <2> QED
    BY <2>1, <2>2
<1>9. ASSUME NEW j \in 1..(n + 1)
      PROVE  /\ v[j] = Upto(j, SourceOf(frames'[j]), v[j - 1])[frames'[j].pos - 1]
             /\ v[j].ns = frames'[j].ns
             /\ frames'[j].pos <= Len(disk[frames'[j].file]) + 1
  <2> HIDE DEF Upto
  <2>1. CASE j = n + 1
    <3>1. j - 1 = n /\ n \in 0..n
      BY <1>1, <2>1
    <3>2. frames'[j] = g /\ v[j] = b /\ v[j - 1] = u[n]
      BY <1>1, <1>6, <2>1, <3>1
    <3>3. Len(disk[g.file]) \in Nat
      BY DEF HasEntries
    <3> QED
      BY <1>4, <1>5, <2>1, <3>2, <3>3
  <2>2. CASE j # n + 1
    <3>1. j \in 1..n /\ j \in 0..n /\ j - 1 \in 0..n
      BY <1>1, <2>2
    <3>2. frames'[j] = frames[j] /\ v[j] = u[j] /\ v[j - 1] = u[j - 1]
      BY <1>1, <1>6, <3>1
    <3> QED
      BY <1>2, <3>1, <3>2
  <2> QED
    BY <2>1, <2>2
<1>10. ASSUME NEW j \in 1..(n + 1), j < n + 1
       PROVE  Waits(v, j)'
  <2>1. j \in 1..n /\ j \in 0..n
    BY <1>1, <1>10
  <2>2. frames'[j] = frames[j] /\ v[j] = u[j]
    BY <1>1, <1>6, <2>1
  <2>3. CASE j = n
    <3>1. n # 0 /\ frames # <<>>
      BY <1>1, <2>1, <2>3 DEF n
    <3>2. LET f == frames[n]
          IN /\ f.pos <= Len(disk[f.file])
             /\ Entry(f).kind = "include" /\ Entry(f).path \notin included
             /\ SourceOf(g) = Included(SourceOf(f), u[n], Entry(f))
      BY <3>1 DEF n
    <3>3. frames'[j + 1] = g
      BY <1>1, <2>3
    <3>4. /\ frames[j].pos <= Len(disk[frames[j].file])
          /\ Entry(frames[j]).kind = "include" /\ Entry(frames[j]).path \notin v[j].included
          /\ SourceOf(g) = Included(SourceOf(frames[j]), v[j], Entry(frames[j]))
      BY <1>2, <2>2, <2>3, <3>2
    <3> QED
      BY <2>2, <3>3, <3>4, WaitsNext, Zenon
  <2>4. CASE j # n
    <3>1. j < n /\ j + 1 \in 1..n
      BY <1>1, <2>1, <2>4
    <3>2. Waits(u, j) /\ frames'[j + 1] = frames[j + 1]
      BY <1>1, <1>2, <2>1, <3>1
    <3>3. /\ frames[j].pos <= Len(disk[frames[j].file])
          /\ Entry(frames[j]).kind = "include" /\ Entry(frames[j]).path \notin v[j].included
          /\ SourceOf(frames[j + 1]) =
               Included(SourceOf(frames[j]), v[j], Entry(frames[j]))
      BY <2>2, <3>2 DEF Waits
    <3> QED
      BY <2>2, <3>2, <3>3, WaitsNext, Zenon
  <2> QED
    BY <2>3, <2>4
<1>11. IsTrail(v, k)'
  <2>1. v \in [0..Len(frames') -> Progress]
    BY <1>1, <1>6
  <2>2. table' = Evaluated(v[Len(frames')].effects) /\ included' = v[Len(frames')].included
    BY <1>1, <1>2, <1>4, <1>6
  <2>3. \A j \in 1..Len(frames') :
         /\ v[j] = Unfolding(disk', Whole(disk', k)[k - j], SourceOf(frames'[j]),
                             v[j - 1])[frames'[j].pos - 1]
         /\ v[j].ns = frames'[j].ns
         /\ frames'[j].pos <= Len(disk'[frames'[j].file]) + 1
         /\ j < Len(frames') => Waits(v, j)'
    <3>1. DOMAIN frames' = 1..(n + 1) /\ Len(frames') = n + 1
      BY <1>1
    <3> QED
      BY <1>9, <1>10, <3>1, Zenon
  <2> QED
    BY <1>7, <1>8, <2>1, <2>2, <2>3, Zenon DEF IsTrail, SourceOf
<1> QED
  BY <1>11, Zenon

\* No file is read.
LEMMA TrailIdle ==
    ASSUME NEW k \in Nat, frames' = <<>>, NEW w \in Progress,
           w = Layered(disk', k)[Len(results')],
           table' = Evaluated(w.effects), included' = w.included
    PROVE  \E v : IsTrail(v, k)'
<1> DEFINE v == [j \in 0..0 |-> w]
<1>1. v \in [0..0 -> Progress] /\ v[0] = w /\ Len(frames') = 0
  OBVIOUS
<1> HIDE DEF v
<1>2. IsTrail(v, k)'
  BY <1>1 DEF IsTrail
<1> QED
  BY <1>2, Zenon

\* An entry that is read without an error had none before it.
LEMMA AdvanceClean ==
    ASSUME IInv, NEW f \in Innermost, NEW g \in Frames, g.ok = f.ok, NEW ok \in BOOLEAN,
           Advance(g, ok), results' = results
    PROVE  Clean' => Clean /\ ok
<1>1. frames \in Seq(Frames) /\ Len(frames) \in Nat \ {0} /\ f = frames[Len(frames)]
  BY InnermostIsLast DEF IInv, Shapes
<1>2. frames # <<>>
  BY <1>1
<1>3. /\ frames' \in Seq(Frames) /\ Len(frames') = Len(frames)
      /\ \A i \in 1..Len(frames) : i # Len(frames) => frames'[i] = frames[i]
      /\ frames'[Len(frames)].ok = (f.ok /\ ok)
  BY <1>1, <1>2, AdvanceEffect, Zenon
<1>4. DOMAIN frames = 1..Len(frames) /\ DOMAIN frames' = 1..Len(frames)
  BY <1>1, <1>3
<1>5. \A i \in 1..Len(frames) : frames'[i].ok => frames[i].ok
  BY <1>1, <1>3
<1>6. Len(frames) \in 1..Len(frames)
  BY <1>1
<1> QED
  BY <1>3, <1>4, <1>5, <1>6 DEF Clean

\* What the innermost frame and its progress have in common.
LEMMA TrailTop ==
    ASSUME IInv, NEW u, NEW k, IsTrail(u, k), NEW f \in Innermost
    PROVE  LET top == u[Len(frames)]
           IN /\ top \in Progress /\ top.ns = f.ns
              /\ table = Evaluated(top.effects) /\ included = top.included
              /\ SourceOf(f) \in Sources /\ SourceOf(f).text = f.text
              /\ SourceOf(f).file = f.file
              /\ SourceOf(f).outer \o top.ns = f.prefix
<1>1. /\ Len(frames) \in Nat \ {0} /\ f = frames[Len(frames)] /\ f \in Frames
      /\ DOMAIN frames = 1..Len(frames)
  BY InnermostIsLast DEF IInv, Shapes
<1>2. Len(frames) \in 1..Len(frames) /\ Len(frames) \in 0..Len(frames)
  BY <1>1
<1>3. f.prefix = f.default \o f.ns
  BY <1>1, <1>2 DEF IInv, InNamespace
<1>4. /\ u[Len(frames)] \in Progress
      /\ u[Len(frames)].ns = f.ns
      /\ table = Evaluated(u[Len(frames)].effects)
      /\ included = u[Len(frames)].included
  BY <1>1, <1>2 DEF IsTrail
<1> QED
  BY <1>1, <1>3, <1>4, SourceType

\* The innermost file is through with an entry that the unfolding takes as ok says.
LEMMA AdvanceFollows ==
    ASSUME IInv, Data, Follows, NEW kind, NEW f \in AtEntry(kind),
           NEW g \in Frames, g.text = f.text, g.file = f.file, g.default = f.default,
           g.pos = f.pos, g.ok = f.ok, NEW ok \in BOOLEAN, Advance(g, ok),
           UNCHANGED <<disk, included, results, phase>>,
           ASSUME NEW u, NEW k \in Nat, IsTrail(u, k), ok,
                  Whole(disk, k)[k - Len(frames)] \in [Sources \X Progress -> Progress]
           PROVE  LET w == Onward(Whole(disk, k)[k - Len(frames)], SourceOf(f),
                                  u[Len(frames)], Entry(f))
                  IN g.ns = w.ns /\ table' = Evaluated(w.effects) /\ w.included = included
    PROVE  Follows'
<1> DEFINE n == Len(frames)
<1>1. /\ f \in Innermost /\ phase = "read" /\ f.pos <= Len(disk[f.file])
      /\ f = frames[n] /\ n \in Nat \ {0} /\ f \in Frames /\ frames \in Seq(Frames)
  BY EntryShape DEF AtEntry, IInv, Shapes
<1> SUFFICES ASSUME Clean', NEW k \in Nat, k >= Cardinality(included)
             PROVE  \E v : IsTrail(v, k)'
  BY <1>1 DEF Follows
<1>2. Clean /\ ok
  BY <1>1, AdvanceClean
<1>3. PICK u : IsTrail(u, k)
  BY <1>1, <1>2 DEF Follows
<1>4. n <= k
  <2>1. IsFiniteSet(included)
    BY DEF Follows
  <2>2. Cardinality(included) \in Nat /\ Len(frames) <= Cardinality(included)
    BY <2>1, Depth, FS_CardinalityType
  <2> QED
    BY <1>1, <2>2
<1>5. HasEntries(disk)
  BY DataHasEntries
<1>6. Whole(disk, k)[k - n] \in [Sources \X Progress -> Progress]
  <2>1. k - n \in 0..k
    BY <1>1, <1>4
  <2> QED
    BY <1>5, <2>1, WholeType
<1>7. PICK w : w = Onward(Whole(disk, k)[k - n], SourceOf(f), u[n], Entry(f))
  OBVIOUS
<1>8. g.ns = w.ns /\ table' = Evaluated(w.effects) /\ w.included = included
  BY <1>2, <1>3, <1>6, <1>7
<1>9. /\ frames' \in Seq(Frames) /\ Len(frames') = n
      /\ \A i \in 1..n : i # n => frames'[i] = frames[i]
      /\ LET h == frames'[n]
         IN /\ h.text = g.text /\ h.file = g.file /\ h.default = g.default /\ h.ns = g.ns
            /\ h.pos = g.pos + 1
  <2>1. frames # <<>>
    BY <1>1
  <2> QED
    BY <1>1, <2>1, AdvanceEffect, Zenon
<1>10. SourceOf(frames'[n]) = SourceOf(f)
  BY <1>9 DEF SourceOf
<1>11. n \in 1..n
  BY <1>1
<1>12. PICK m \in 1..n : m = n
  BY <1>11
<1>13. /\ frames[m] = f
       /\ frames'[m].pos = frames[m].pos + 1 /\ frames'[m].file = frames[m].file
       /\ frames'[m].ns = w.ns
       /\ SourceOf(frames'[m]) = SourceOf(frames[m])
  BY <1>1, <1>8, <1>9, <1>10, <1>12
<1>14. /\ Len(frames') = m
       /\ \A j \in 1..m : j # m => frames'[j] = frames[j]
       /\ w = Onward(Whole(disk, k)[k - m], SourceOf(frames[m]), u[m], Entry(frames[m]))
       /\ frames[m].pos <= Len(disk[frames[m].file])
  BY <1>1, <1>7, <1>9, <1>12
<1>15. included' = w.included /\ disk' = disk /\ results' = results
  BY <1>8
<1>16. table' = Evaluated(w.effects) /\ frames' \in Seq(Frames)
  BY <1>8, <1>9, Zenon
<1> QED
  BY <1>3, <1>4, <1>5, <1>13, <1>14, <1>15, <1>16, TrailOnward

-----------------------------------------------------------------------------
(* The actions *)

LEMMA EffectsFields ==
    ASSUME NEW u \in Progress, NEW x \in Seq(Effects)
    PROVE  LET w == [u EXCEPT !.effects = x]
           IN w.effects = x /\ w.included = u.included /\ w.ns = u.ns
BY DEF Progress

LEMMA NamespaceFields ==
    ASSUME NEW u \in Progress, NEW x \in Names
    PROVE  LET w == [u EXCEPT !.ns = x]
           IN w.effects = u.effects /\ w.included = u.included /\ w.ns = x
BY DEF Progress

\* One lemma per action of reading.
LEMMA FollowsAssign == ASSUME IInv, Data, Follows, Assign PROVE Follows'
<1>1. PICK f \in AtEntry("assign") :
        /\ LET values == Eval(table, Entry(f).rhs)
               symbol == [values |-> values, content |-> Entry(f).rhs, uri |-> f.text]
           IN /\ table' = IF values = <<>> THEN table
                          ELSE Put(table, f.prefix \o Entry(f).name, symbol)
              /\ Advance(f, values # <<>>)
        /\ UNCHANGED <<disk, included, cwd, results, phase, todo>>
  BY DEF Assign
<1> DEFINE e == Entry(f)
           ok == Eval(table, e.rhs) # <<>>
           name == f.prefix \o e.name
           o == [name |-> name, rhs |-> e.rhs, uri |-> f.text]
<1>2. /\ f \in Innermost /\ f \in Frames
      /\ e.kind = "assign" /\ e.name \in Names /\ e.rhs \in Seq(Items)
  BY EntryShape, EntryType, EntryFields
<1>3. name \in Names /\ f.text \in Texts
  BY <1>2, FrameFields, ConcatProperties DEF Names
<1>4. ok => table' = Put(table, name, [values |-> Eval(table, e.rhs), content |-> e.rhs,
                                       uri |-> f.text])
  BY <1>1
<1>5. Advance(f, ok) /\ UNCHANGED <<disk, included, results, phase>>
  BY <1>1
<1> HIDE DEF ok, e, name
<1>6. ASSUME NEW u, NEW k \in Nat, IsTrail(u, k), ok,
             Whole(disk, k)[k - Len(frames)] \in [Sources \X Progress -> Progress]
      PROVE  LET w == Onward(Whole(disk, k)[k - Len(frames)], SourceOf(f),
                             u[Len(frames)], e)
             IN f.ns = w.ns /\ table' = Evaluated(w.effects) /\ w.included = included
  <2> DEFINE top == u[Len(frames)]
             w == Onward(Whole(disk, k)[k - Len(frames)], SourceOf(f), top, e)
  <2>1. /\ top \in Progress /\ top.ns = f.ns
        /\ table = Evaluated(top.effects) /\ included = top.included
        /\ SourceOf(f).text = f.text /\ SourceOf(f).outer \o top.ns = f.prefix
    BY <1>2, <1>6, TrailTop
  <2> HIDE DEF top
  <2>2. w = [top EXCEPT !.effects = Append(@, o)]
    <3>1. SourceOf(f).outer \o top.ns \o e.name = name
      BY <2>1 DEF name
    <3> QED
      BY <1>2, <2>1, <3>1 DEF Onward
  <2>3. o \in Effects
    BY <1>2, <1>3 DEF Effects
  <2>4. Evaluated(Append(top.effects, o)) = Effect(table, o)
    BY <2>1, <2>3, ProgressFields, EvaluatedAppend
  <2>5. Effect(table, o) = Put(table, name, [values |-> Eval(table, e.rhs),
                                             content |-> e.rhs, uri |-> f.text])
    BY DEF Effect
  <2> HIDE DEF o, w
  <2>6. Append(top.effects, o) \in Seq(Effects)
    BY <2>1, <2>3, ProgressFields, AppendProperties
  <2>7. w.effects = Append(top.effects, o) /\ w.included = top.included /\ w.ns = top.ns
    BY <2>1, <2>2, <2>6, EffectsFields
  <2>8. f.ns = w.ns /\ table' = Evaluated(w.effects) /\ w.included = included
    BY <1>4, <1>6, <2>1, <2>4, <2>5, <2>7
  <2> QED
    BY <2>8 DEF w, top
<1>7. ok \in BOOLEAN
  BY DEF ok
<1> QED
  BY <1>2, <1>5, <1>6, <1>7, AdvanceFollows, Zenon DEF e

LEMMA FollowsDelete == ASSUME IInv, Data, Follows, Delete PROVE Follows'
<1>1. PICK f \in AtEntry("del") :
        /\ LET names == [i \in DOMAIN Entry(f).names |-> f.prefix \o Entry(f).names[i]]
               gone == Removable(table, names)
           IN /\ table' = Drop(table, { names[i] : i \in gone })
              /\ Advance(f, gone = DOMAIN names)
        /\ UNCHANGED <<disk, included, cwd, results, phase, todo>>
  BY DEF Delete
<1> DEFINE e == Entry(f)
           names == [i \in DOMAIN e.names |-> f.prefix \o e.names[i]]
           gone == Removable(table, names)
           ok == gone = DOMAIN names
           X == { f.prefix \o n : n \in ToSet(e.names) }
           o == [gone |-> X]
<1>2. /\ f \in Innermost /\ f \in Frames /\ f.prefix \in Seq(Atoms)
      /\ e.kind = "del" /\ e.names \in Seq(Names)
  BY EntryShape, EntryType, EntryKinds, FrameFields
<1>3. Advance(f, ok) /\ UNCHANGED <<disk, included, results, phase>>
  BY <1>1
<1>4. ok => table' = Drop(table, X)
  <2> SUFFICES ASSUME ok PROVE { names[i] : i \in DOMAIN names } = X
    BY <1>1
  <2>1. { names[i] : i \in DOMAIN names } = { f.prefix \o e.names[i] : i \in DOMAIN e.names }
    OBVIOUS
  <2>2. { f.prefix \o e.names[i] : i \in DOMAIN e.names } = X
    BY DEF ToSet
  <2> QED
    BY <2>1, <2>2
<1>5. X \subseteq Names
  <2>1. \A n \in ToSet(e.names) : n \in Seq(Atoms)
    BY <1>2 DEF ToSet, Names
  <2> QED
    BY <1>2, <2>1, ConcatProperties DEF Names
<1> HIDE DEF ok, e
<1>6. ASSUME NEW u, NEW k \in Nat, IsTrail(u, k), ok,
             Whole(disk, k)[k - Len(frames)] \in [Sources \X Progress -> Progress]
      PROVE  LET w == Onward(Whole(disk, k)[k - Len(frames)], SourceOf(f),
                             u[Len(frames)], e)
             IN f.ns = w.ns /\ table' = Evaluated(w.effects) /\ w.included = included
  <2> DEFINE top == u[Len(frames)]
             w == Onward(Whole(disk, k)[k - Len(frames)], SourceOf(f), top, e)
  <2>1. /\ top \in Progress /\ top.ns = f.ns
        /\ table = Evaluated(top.effects) /\ included = top.included
        /\ SourceOf(f).text = f.text /\ SourceOf(f).outer \o top.ns = f.prefix
    BY <1>2, <1>6, TrailTop
  <2> HIDE DEF top
  <2>2. w = [top EXCEPT !.effects = Append(@, o)]
    <3>1. { SourceOf(f).outer \o top.ns \o n : n \in ToSet(e.names) } = X
      BY <2>1
    <3> HIDE DEF X
    <3> QED
      BY <1>2, <2>1, <3>1 DEF Onward
  <2> HIDE DEF X
  <2>3. o \in Effects
    BY <1>5 DEF Effects
  <2>4. Evaluated(Append(top.effects, o)) = Effect(table, o)
    BY <2>1, <2>3, ProgressFields, EvaluatedAppend
  <2>5. Effect(table, o) = Drop(table, X)
    BY DEF Effect
  <2> HIDE DEF o, w
  <2>6. Append(top.effects, o) \in Seq(Effects)
    BY <2>1, <2>3, ProgressFields, AppendProperties
  <2>7. w.effects = Append(top.effects, o) /\ w.included = top.included /\ w.ns = top.ns
    BY <2>1, <2>2, <2>6, EffectsFields
  <2>8. f.ns = w.ns /\ table' = Evaluated(w.effects) /\ w.included = included
    BY <1>4, <1>6, <2>1, <2>4, <2>5, <2>7
  <2> QED
    BY <2>8 DEF w, top
<1>7. ok \in BOOLEAN
  BY DEF ok
<1> QED
  BY <1>2, <1>3, <1>6, <1>7, AdvanceFollows, Zenon DEF e

LEMMA FollowsReject == ASSUME IInv, Data, Follows, Reject PROVE Follows'
<1>1. PICK f \in AtEntry("malformed") :
        Advance(f, FALSE) /\ UNCHANGED <<disk, included, results, phase>>
  BY Zenon DEF Reject
<1>2. f \in Frames
  BY EntryShape
<1> QED
  BY <1>1, <1>2, AdvanceFollows, Zenon

LEMMA FollowsDropRest == ASSUME IInv, Data, Follows, DropRest PROVE Follows'
<1>1. PICK f \in AtEntry("unfinished") :
        Advance(f, TRUE) /\ UNCHANGED <<disk, table, included, results, phase>>
  BY Zenon DEF DropRest
<1> DEFINE e == Entry(f)
<1>2. f \in Innermost /\ f \in Frames /\ e.kind = "unfinished"
  BY EntryShape, EntryType
<1> HIDE DEF e
<1>3. ASSUME NEW u, NEW k \in Nat, IsTrail(u, k), TRUE,
             Whole(disk, k)[k - Len(frames)] \in [Sources \X Progress -> Progress]
      PROVE  LET w == Onward(Whole(disk, k)[k - Len(frames)], SourceOf(f),
                             u[Len(frames)], e)
             IN f.ns = w.ns /\ table' = Evaluated(w.effects) /\ w.included = included
  <2> DEFINE top == u[Len(frames)]
             w == Onward(Whole(disk, k)[k - Len(frames)], SourceOf(f), top, e)
  <2>1. /\ top.ns = f.ns
        /\ table = Evaluated(top.effects) /\ included = top.included
    BY <1>2, <1>3, TrailTop
  <2> HIDE DEF top
  <2>2. w = top
    BY <1>2 DEF Onward
  <2> QED
    BY <1>1, <2>1, <2>2 DEF top
<1> QED
  BY <1>1, <1>2, <1>3, AdvanceFollows, Zenon DEF e

LEMMA FollowsOpen == ASSUME IInv, Data, Follows, OpenBlock PROVE Follows'
<1>1. PICK f \in AtEntry("open") :
        /\ Advance([f EXCEPT !.ns = Append(@, Entry(f).name),
                             !.prefix = Append(@, Entry(f).name)], TRUE)
        /\ UNCHANGED <<disk, table, included, results, phase>>
  BY Zenon DEF OpenBlock
<1> DEFINE e == Entry(f)
           m == Append(f.ns, e.name)
           p == Append(f.prefix, e.name)
           g == [f EXCEPT !.ns = m, !.prefix = p]
<1>2. /\ f \in Innermost /\ f \in Frames /\ e.kind = "open" /\ e.name \in Atoms
      /\ f.ns \in Seq(Atoms) /\ f.prefix \in Seq(Atoms)
  BY EntryShape, EntryType, EntryKinds, FrameFields
<1>3. m \in Names /\ p \in Names
  BY <1>2 DEF Names
<1>4. Advance(g, TRUE)
  BY <1>1
<1> HIDE DEF m, p
<1>5. /\ g \in Frames /\ g.text = f.text /\ g.file = f.file /\ g.default = f.default
      /\ g.pos = f.pos /\ g.ok = f.ok /\ g.ns = m
  BY <1>2, <1>3 DEF Frames
<1> HIDE DEF g, e
<1>6. ASSUME NEW u, NEW k \in Nat, IsTrail(u, k), TRUE,
             Whole(disk, k)[k - Len(frames)] \in [Sources \X Progress -> Progress]
      PROVE  LET w == Onward(Whole(disk, k)[k - Len(frames)], SourceOf(f),
                             u[Len(frames)], e)
             IN g.ns = w.ns /\ table' = Evaluated(w.effects) /\ w.included = included
  <2> DEFINE top == u[Len(frames)]
             w == Onward(Whole(disk, k)[k - Len(frames)], SourceOf(f), top, e)
  <2>1. /\ top \in Progress /\ top.ns = f.ns
        /\ table = Evaluated(top.effects) /\ included = top.included
    BY <1>2, <1>6, TrailTop
  <2> HIDE DEF top
  <2>2. w = [top EXCEPT !.ns = m]
    BY <1>2, <2>1 DEF Onward, m
  <2> HIDE DEF w
  <2>3. w.effects = top.effects /\ w.included = top.included /\ w.ns = m
    BY <1>3, <2>1, <2>2, NamespaceFields
  <2>4. g.ns = w.ns /\ table' = Evaluated(w.effects) /\ w.included = included
    BY <1>1, <1>5, <2>1, <2>3
  <2> QED
    BY <2>4 DEF w, top
<1> QED
  BY <1>1, <1>2, <1>4, <1>5, <1>6, AdvanceFollows, Zenon DEF e

LEMMA FollowsClose == ASSUME IInv, Data, Follows, CloseBlock PROVE Follows'
<1>1. PICK f \in AtEntry("close") :
        /\ IF f.ns = <<>> THEN Advance(f, FALSE)
           ELSE Advance([f EXCEPT !.ns = Front(@), !.prefix = f.default \o Front(f.ns)],
                        TRUE)
        /\ UNCHANGED <<disk, table, included, results, phase>>
  BY Zenon DEF CloseBlock
<1> DEFINE e == Entry(f)
           m == Front(f.ns)
           p == f.default \o m
           g == [f EXCEPT !.ns = m, !.prefix = p]
<1>2. /\ f \in Innermost /\ f \in Frames /\ e.kind = "close"
      /\ f.ns \in Seq(Atoms) /\ f.default \in Seq(Atoms)
  BY EntryShape, FrameFields
<1>3. CASE f.ns = <<>>
  <2>1. Advance(f, FALSE)
    BY <1>1, <1>3
  <2> QED
    BY <1>1, <1>2, <2>1, AdvanceFollows, Zenon
<1>4. CASE f.ns # <<>>
  <2>1. m \in Names /\ p \in Names
    BY <1>2, AnyFront, ConcatProperties DEF Names
  <2>2. Advance(g, TRUE)
    BY <1>1, <1>4
  <2> HIDE DEF m, p
  <2>3. /\ g \in Frames /\ g.text = f.text /\ g.file = f.file /\ g.default = f.default
        /\ g.pos = f.pos /\ g.ok = f.ok /\ g.ns = m
    BY <1>2, <2>1 DEF Frames
  <2> HIDE DEF g, e
  <2>4. ASSUME NEW u, NEW k \in Nat, IsTrail(u, k), TRUE,
               Whole(disk, k)[k - Len(frames)] \in [Sources \X Progress -> Progress]
        PROVE  LET w == Onward(Whole(disk, k)[k - Len(frames)], SourceOf(f),
                               u[Len(frames)], e)
               IN g.ns = w.ns /\ table' = Evaluated(w.effects) /\ w.included = included
    <3> DEFINE top == u[Len(frames)]
               w == Onward(Whole(disk, k)[k - Len(frames)], SourceOf(f), top, e)
    <3>1. /\ top \in Progress /\ top.ns = f.ns
          /\ table = Evaluated(top.effects) /\ included = top.included
      BY <1>2, <2>4, TrailTop
    <3> HIDE DEF top
    <3>2. w = [top EXCEPT !.ns = m]
      BY <1>2, <3>1 DEF Onward, m
    <3> HIDE DEF w
    <3>3. w.effects = top.effects /\ w.included = top.included /\ w.ns = m
      BY <2>1, <3>1, <3>2, NamespaceFields
    <3>4. g.ns = w.ns /\ table' = Evaluated(w.effects) /\ w.included = included
      BY <1>1, <2>3, <3>1, <3>3
    <3> QED
      BY <3>4 DEF w, top
  <2> QED
    BY <1>1, <1>2, <2>2, <2>3, <2>4, AdvanceFollows, Zenon DEF e
<1> QED
  BY <1>3, <1>4

LEMMA OpenedFields ==
    ASSUME cwd \in Seq(Atoms), NEW d \in Seq(Atoms), NEW t \in Texts, NEW prefix \in Names
    PROVE  LET g == Opened(d, t, prefix)
           IN /\ g \in Frames /\ g.text = t /\ g.file = Real(d, t) /\ g.default = prefix
              /\ g.pos = 1 /\ g.ns = <<>>
<1>1. Real(d, t) \in Seq(Atoms) /\ <<>> \in Names
  BY FromType DEF Names
<1> QED
  BY <1>1 DEF Opened, Frames

\* An included file is the one of the unfolding.
LEMMA CleanPlace ==
    ASSUME IInv, NEW f \in AtEntry("include"), Entry(f).path \in Texts
    PROVE  /\ IncludeDir(f, Entry(f).path) \in Seq(Atoms)
           /\ Clean => Real(IncludeDir(f, Entry(f).path), Entry(f).path) =
                          Real(Front(f.file), Entry(f).path)
<1> DEFINE n == Len(frames)
<1>1. /\ f = frames[n] /\ n \in Nat \ {0} /\ f \in Frames
      /\ f.file \in Seq(Atoms) \ {<<>>}
  BY EntryShape
<1>2. cwd \in Seq(Atoms)
  BY DEF IInv, Shapes
<1>3. IncludeDir(f, Entry(f).path) \in Seq(Atoms)
  BY <1>1, <1>2, FrameFields, FromType DEF IncludeDir
<1>4. ASSUME Clean PROVE Front(f.file) = From(cwd, f.text)
  <2>1. n \in 1..n
    BY <1>1
  <2>2. Front(frames[n].file) = From(At(n), frames[n].text)
    BY <1>4, <2>1 DEF IInv, Places
  <2>3. At(n) = cwd
    BY DEF At
  <2> QED
    BY <1>1, <2>2, <2>3
<1> QED
  BY <1>1, <1>2, <1>3, <1>4, IncludePlace

\* A longer stack needs more texts.
LEMMA Deeper ==
    ASSUME IInv', IsFiniteSet(included)', NEW k \in Nat, k >= Cardinality(included')
    PROVE  Len(frames') <= k
<1>1. (IInv /\ IsFiniteSet(included))'
  OBVIOUS
<1>2. (Len(frames) <= Cardinality(included))'
  BY <1>1, Depth, PTL
<1>3. Cardinality(included') \in Nat
  BY FS_CardinalityType
<1>4. Len(frames') \in Nat
  BY DEF IInv, Shapes
<1> QED
  BY <1>2, <1>3, <1>4

LEMMA FollowsInclude == ASSUME IInv, Data, Follows, Include, IInv' PROVE Follows'
<1> DEFINE n == Len(frames)
<1>1. PICK f \in AtEntry("include") :
        /\ LET t == Entry(f).path
               d == IncludeDir(f, t)
           IN \/ Advance(f, FALSE) /\ UNCHANGED included
              \/ t \in included /\ Advance(f, TRUE) /\ UNCHANGED included
              \/ /\ t \notin included
                 /\ Real(d, t) \in DOMAIN disk
                 /\ frames' = Append(frames, Opened(d, t, f.prefix))
                 /\ included' = included \cup {t}
        /\ UNCHANGED <<disk, table, results, phase>>
  BY Zenon DEF Include
<1> DEFINE e == Entry(f)
           t == e.path
           d == IncludeDir(f, t)
           g == Opened(d, t, f.prefix)
<1>2. /\ f \in Innermost /\ f \in Frames /\ f = frames[n] /\ n \in Nat \ {0}
      /\ phase = "read" /\ e.kind = "include" /\ t \in Texts
      /\ f.prefix = f.default \o f.ns /\ f.prefix \in Names
      /\ f.pos <= Len(disk[f.file])
  <2>1. f.pos <= Len(disk[f.file])
    BY DEF AtEntry
  <2>2. /\ f \in Innermost /\ f \in Frames /\ f = frames[n] /\ n \in Nat \ {0}
        /\ phase = "read" /\ f.prefix = f.default \o f.ns
    BY EntryShape
  <2>3. e \in Entries /\ e.kind = "include"
    BY EntryType
  <2>4. t \in Texts /\ f.prefix \in Names
    BY <2>2, <2>3, EntryKinds, FrameFields DEF Names
  <2> QED
    BY <2>1, <2>2, <2>3, <2>4
<1>3. CASE Advance(f, FALSE) /\ UNCHANGED included
  <2>1. UNCHANGED <<disk, included, results, phase>> /\ f \in Frames
    BY <1>1, <1>2, <1>3, Zenon
  <2>2. FALSE \in BOOLEAN
    OBVIOUS
  <2> QED
    BY <1>3, <2>1, <2>2, AdvanceFollows, Zenon
<1>4. CASE t \in included /\ Advance(f, TRUE) /\ UNCHANGED included
  <2> HIDE DEF e
  <2>1. ASSUME NEW u, NEW k \in Nat, IsTrail(u, k), TRUE,
               Whole(disk, k)[k - Len(frames)] \in [Sources \X Progress -> Progress]
        PROVE  LET w == Onward(Whole(disk, k)[k - Len(frames)], SourceOf(f),
                               u[Len(frames)], e)
               IN f.ns = w.ns /\ table' = Evaluated(w.effects) /\ w.included = included
    <3> DEFINE top == u[Len(frames)]
    <3>1. /\ top.ns = f.ns /\ table = Evaluated(top.effects) /\ included = top.included
      BY <1>2, <2>1, TrailTop
    <3> HIDE DEF top
    <3>2. Onward(Whole(disk, k)[k - Len(frames)], SourceOf(f), top, e) = top
      BY <1>2, <1>4, <3>1 DEF Onward
    <3> QED
      BY <1>1, <3>1, <3>2 DEF top
  <2>2. UNCHANGED <<disk, included, results, phase>> /\ f \in Frames
    BY <1>1, <1>2, <1>4, Zenon
  <2>3. TRUE \in BOOLEAN
    OBVIOUS
  <2> QED
    BY <1>4, <2>1, <2>2, <2>3, AdvanceFollows, Zenon DEF e
<1>5. CASE /\ t \notin included
           /\ Real(d, t) \in DOMAIN disk
           /\ frames' = Append(frames, Opened(d, t, f.prefix))
           /\ included' = included \cup {t}
  <2>1. frames \in Seq(Frames) /\ cwd \in Seq(Atoms)
    BY DEF IInv, Shapes
  <2>2. /\ d \in Seq(Atoms)
        /\ Clean => Real(d, t) = Real(Front(f.file), t)
    BY <1>2, CleanPlace
  <2> HIDE DEF t, d, e
  <2>3. /\ g \in Frames /\ g.text = t /\ g.file = Real(d, t) /\ g.default = f.prefix
        /\ g.pos = 1 /\ g.ns = <<>>
    <3>1. cwd \in Seq(Atoms) /\ d \in Seq(Atoms) /\ t \in Texts /\ f.prefix \in Names
      BY <1>2, <2>1, <2>2 DEF t
    <3> QED
      BY <3>1, OpenedFields
  <2>4. frames' = Append(frames, g)
    BY <1>5
  <2> HIDE DEF g
  <2>5. IsFiniteSet(included')
    BY <1>5, FS_AddElement DEF Follows
  <2> SUFFICES ASSUME Clean', NEW k \in Nat, k >= Cardinality(included')
               PROVE  \E v : IsTrail(v, k)'
    BY <1>1, <1>2, <2>5 DEF Follows
  <2>6. Clean
    <3>1. /\ Len(frames') = n + 1 /\ \A i \in 1..n : frames'[i] = frames[i]
          /\ frames' \in Seq(Frames)
      BY <2>1, <2>3, <2>4
    <3>2. \A i \in 1..n : i \in DOMAIN frames'
      BY <1>2, <3>1
    <3>3. DOMAIN frames = 1..n
      BY <2>1
    <3> QED
      BY <1>1, <3>1, <3>2, <3>3 DEF Clean
  <2>7. n + 1 <= k
    <3>1. Len(frames') <= k
      BY <2>5, Deeper
    <3> QED
      BY <2>1, <2>3, <2>4, <3>1
  <2>8. PICK u : IsTrail(u, k)
    <3>1. /\ IsFiniteSet(included) /\ Cardinality(included) \in Nat
          /\ Cardinality(included') = Cardinality(included) + 1
      BY <1>5, FS_AddElement, FS_CardinalityType DEF Follows
    <3>2. k >= Cardinality(included)
      BY <3>1
    <3> QED
      BY <1>2, <2>6, <3>2 DEF Follows
  <2>9. SourceOf(g) = Included(SourceOf(f), u[n], e)
    <3>1. /\ u[n].ns = f.ns /\ SourceOf(f).outer \o u[n].ns = f.prefix
          /\ SourceOf(f).file = f.file
      BY <1>2, <2>8, TrailTop
    <3> QED
      BY <2>2, <2>3, <2>6, <3>1 DEF SourceOf, Included, t
  <2>10. frames # <<>>
    BY <1>2
  <2>11. /\ f.pos <= Len(disk[f.file]) /\ Entry(f).kind = "include"
         /\ Entry(f).path = g.text /\ g.text \notin included
    BY <1>2, <1>5, <2>3 DEF t, e
  <2>12. g.file \in DOMAIN disk /\ included' = included \cup {g.text}
    BY <1>5, <2>3
  <2>13. IF frames = <<>> THEN SourceOf(g) = LayerSource(Len(results) + 1)
         ELSE LET h == frames[Len(frames)]
              IN /\ h.pos <= Len(disk[h.file])
                 /\ Entry(h).kind = "include" /\ Entry(h).path = g.text
                 /\ g.text \notin included
                 /\ SourceOf(g) = Included(SourceOf(h), u[Len(frames)], Entry(h))
    BY <1>2, <2>9, <2>10, <2>11 DEF e
  <2>14. HasEntries(disk) /\ Len(frames) + 1 <= k
    BY <2>7, DataHasEntries
  <2> QED
    BY <1>1, <2>3, <2>4, <2>8, <2>12, <2>13, <2>14, TrailPush, Zenon
<1>6. \/ Advance(f, FALSE) /\ UNCHANGED included
      \/ t \in included /\ Advance(f, TRUE) /\ UNCHANGED included
      \/ /\ t \notin included
         /\ Real(d, t) \in DOMAIN disk
         /\ frames' = Append(frames, Opened(d, t, f.prefix))
         /\ included' = included \cup {t}
  BY <1>1
<1> HIDE DEF e, t, d, g
<1> QED
  BY <1>3, <1>4, <1>5, <1>6

\* Frame n, with f, is at the end of its source.
Ended(u, k, n, f) ==
    /\ u[n] = Whole(disk, k)[k - n + 1][<<SourceOf(f), u[n - 1]>>]
    /\ u[n - 1] \in Progress /\ u[n] \in Progress

\* The whole source of an innermost file at its end was unfolded.
LEMMA EndReached ==
    ASSUME IInv, HasEntries(disk), NEW k \in Nat, NEW u, IsTrail(u, k),
           NEW n \in Nat \ {0}, n = Len(frames), n <= k,
           NEW f, f = frames[n], f.pos > Len(disk[f.file])
    PROVE  Ended(u, k, n, f)
<1>1. /\ u \in [0..n -> Progress]
      /\ u[n] = Unfolding(disk, Whole(disk, k)[k - n], SourceOf(f), u[n - 1])[f.pos - 1]
      /\ f.pos <= Len(disk[f.file]) + 1
  <2>1. /\ u \in [0..Len(frames) -> Progress]
        /\ \A j \in 1..Len(frames) :
             /\ u[j] = Unfolding(disk, Whole(disk, k)[k - j], SourceOf(frames[j]),
                                 u[j - 1])[frames[j].pos - 1]
             /\ frames[j].pos <= Len(disk[frames[j].file]) + 1
    BY Zenon DEF IsTrail
  <2>2. n \in 1..n
    OBVIOUS
  <2> QED
    BY <2>1, <2>2, Zenon
<1>2. u[n - 1] \in Progress /\ u[n] \in Progress
  BY <1>1
<1>3. f \in Frames /\ f.file \in DOMAIN disk
  BY DEF IInv, Shapes
<1>4. Lines(disk, f.file) = disk[f.file] /\ Len(disk[f.file]) \in Nat /\ f.pos \in Nat
  <2>1. Lines(disk, f.file) = disk[f.file]
    BY <1>3 DEF Lines
  <2> QED
    BY <1>3, <2>1, LinesType, FrameFields
<1>5. f.pos - 1 = Len(disk[f.file])
  BY <1>1, <1>4
<1>6. SourceOf(f) \in Sources /\ SourceOf(f).file = f.file
  BY <1>3, SourceType
<1>7. u[n] = Through(disk, Whole(disk, k)[k - n], SourceOf(f), u[n - 1])
  BY <1>1, <1>4, <1>5, <1>6 DEF Through
<1>8. k - n + 1 \in 1..k /\ (k - n + 1) - 1 = k - n
  OBVIOUS
<1>9. Whole(disk, k)[k - n + 1][<<SourceOf(f), u[n - 1]>>] =
        Through(disk, Whole(disk, k)[k - n], SourceOf(f), u[n - 1])
  <2>1. IsWhole(Whole(disk, k), disk, k)
    BY WholeSteps
  <2> QED
    BY <1>2, <1>6, <1>8, <2>1 DEF IsWhole
<1> QED
  BY <1>2, <1>7, <1>9 DEF Ended

LEMMA ReturnFollows ==
    ASSUME IInv, phase = "read", NEW ok \in BOOLEAN, Return(ok)
    PROVE  /\ phase' \in {"read", "loaded"} /\ Len(results') = Len(results) + 1
           /\ phase' = "loaded" => Len(results') = Len(Layers)
<1>1. results \in Seq(BOOLEAN)
  BY DEF IInv, Shapes
<1>2. Len(results') = Len(results) + 1
  BY <1>1, AppendProperties DEF Return
<1> QED
  BY <1>2 DEF Return

LEMMA FollowsRead == ASSUME IInv, Data, Follows, ReadConfig, IInv' PROVE Follows'
<1> DEFINE t == Layers[Len(results) + 1]
           p == <<>>
           g == Opened(cwd, t, p)
<1>1. /\ phase = "read" /\ frames = <<>>
      /\ UNCHANGED <<disk, table>>
      /\ \/ /\ Real(cwd, t) \in DOMAIN disk
            /\ frames' = <<g>>
            /\ included' = included \cup {t}
            /\ UNCHANGED <<results, phase>>
         \/ Return(FALSE) /\ included' = included
  BY DEF ReadConfig
<1>2. t \in Texts
  <2>1. Len(results) \in Nat /\ Len(results) < Len(Layers)
    BY <1>1 DEF IInv, Shapes
  <2>2. Layers \in Seq(Texts) /\ Len(results) + 1 \in 1..Len(Layers)
    BY <2>1, TargetIsText, StoreAssumption
  <2> QED
    BY <2>2, ElementOfSeq
<1>3. cwd \in Seq(Atoms) /\ p \in Names
  BY DEF IInv, Shapes, Names
<1>4. LayerSource(Len(results) + 1) = [file |-> Real(Home, t), text |-> t, outer |-> p]
  BY DEF LayerSource
<1> HIDE DEF t, p
<1>5. g \in Frames /\ g.text = t /\ g.file = Real(cwd, t) /\ g.default = p /\ g.pos = 1
      /\ g.ns = <<>>
  BY <1>2, <1>3, OpenedFields
<1> HIDE DEF g
<1>6. CASE /\ Real(cwd, t) \in DOMAIN disk
           /\ frames' = <<g>>
           /\ included' = included \cup {t}
           /\ UNCHANGED <<results, phase>>
  <2>1. IsFiniteSet(included')
    BY <1>6, FS_AddElement DEF Follows
  <2> SUFFICES ASSUME Clean', NEW k \in Nat, k >= Cardinality(included')
               PROVE  \E v : IsTrail(v, k)'
    BY <1>1, <1>6, <2>1 DEF Follows
  <2>2. Clean
    BY <1>1, <1>6 DEF Clean
  <2>3. cwd = Home
    BY <1>1, <2>2 DEF IInv, Places, InPlace
  <2>4. Len(frames) + 1 <= k /\ frames' = Append(frames, g)
    <3>1. Len(frames') <= k
      BY <2>1, Deeper
    <3>2. Len(frames) = 0 /\ Len(frames') = 1
      BY <1>1, <1>6
    <3> QED
      BY <1>1, <1>6, <3>1, <3>2
  <2>5. PICK u : IsTrail(u, k)
    <3>1. /\ IsFiniteSet(included) /\ Cardinality(included) \in Nat
          /\ \/ Cardinality(included') = Cardinality(included) + 1
             \/ Cardinality(included') = Cardinality(included)
      BY <1>6, FS_AddElement, FS_CardinalityType DEF Follows
    <3>2. k >= Cardinality(included)
      BY <3>1
    <3> QED
      BY <1>1, <2>2, <3>2 DEF Follows
  <2>6. SourceOf(g) = LayerSource(Len(results) + 1)
    BY <1>4, <1>5, <2>3 DEF SourceOf
  <2>7. g.file \in DOMAIN disk /\ included' = included \cup {g.text} /\ HasEntries(disk)
    BY <1>5, <1>6, DataHasEntries
  <2> QED
    BY <1>1, <1>5, <1>6, <2>4, <2>5, <2>6, <2>7, TrailPush, Zenon
<1>7. CASE Return(FALSE) /\ included' = included
  <2>1. ~Clean'
    BY <1>1, <1>7, ReturnType
  <2>2. phase' = "loaded" => Len(results') = Len(Layers)
    BY <1>1, <1>7, ReturnFollows
  <2> QED
    BY <1>7, <2>1, <2>2 DEF Follows
<1> QED
  BY <1>1, <1>6, <1>7

LEMMA FollowsEnd == ASSUME IInv, Data, Follows, EndOfFile PROVE Follows'
<1>1. PICK f \in Innermost :
        LET ok == f.ok /\ f.ns = <<>>
            n == Len(frames) - 1
        IN /\ phase = "read"
           /\ f.pos > Len(disk[f.file])
           /\ IF n = 0
              THEN /\ frames' = <<>>
                   /\ Return(ok)
              ELSE /\ frames' = [SubSeq(frames, 1, n) EXCEPT ![n] = Past(@, ok)]
                   /\ UNCHANGED <<results, phase>>
           /\ UNCHANGED <<disk, table, included>>
  BY Zenon DEF EndOfFile
<1> DEFINE ok == f.ok /\ f.ns = <<>>
<1>2. frames \in Seq(Frames) /\ results \in Seq(BOOLEAN)
  BY DEF IInv, Shapes
<1>3. f \in Frames /\ f = frames[Len(frames)] /\ Len(frames) \in Nat \ {0}
  BY <1>2, InnermostIsLast
<1>4. ok \in BOOLEAN /\ (ok => f.ok)
  OBVIOUS
<1>5. PICK n \in Nat : Len(frames) = n + 1 /\ n = Len(frames) - 1
  BY <1>3
<1>6. HasEntries(disk) /\ IsFiniteSet(included) /\ IsFiniteSet(included')
  BY <1>1, DataHasEntries DEF Follows
<1>7. DOMAIN frames = 1..(n + 1) /\ frames[n + 1] = f
  BY <1>2, <1>3, <1>5
<1> HIDE DEF ok
<1>8. ASSUME Clean, NEW k \in Nat, k >= Cardinality(included)
      PROVE  n + 1 <= k /\ \E u : IsTrail(u, k)
  <2>1. Len(frames) <= Cardinality(included) /\ Cardinality(included) \in Nat
    BY <1>6, Depth, FS_CardinalityType
  <2>2. n + 1 <= k
    BY <1>5, <1>8, <2>1
  <2> QED
    BY <1>1, <1>8, <2>2 DEF Follows
<1>9. CASE n = 0
  <2>1. frames' = <<>> /\ Return(ok) /\ phase = "read"
    BY <1>1, <1>5, <1>9 DEF ok
  <2>2. /\ Clean' => ok /\ \A i \in DOMAIN results : results[i]
        /\ phase' = "loaded" => Len(results') = Len(Layers)
        /\ Len(results') = Len(results) + 1
        /\ phase' \in {"read", "loaded"}
    BY <1>4, <2>1, ReturnType, ReturnFollows, Zenon
  <2> SUFFICES ASSUME Clean', NEW k \in Nat, k >= Cardinality(included)
               PROVE  \E v : IsTrail(v, k)'
    BY <1>1, <1>6, <2>2 DEF Follows
  <2>3. Clean
    BY <1>4, <1>7, <1>9, <2>2 DEF Clean
  <2>4. PICK u : IsTrail(u, k)
    BY <1>8, <2>3
  <2>5. 1 <= k
    BY <1>8, <1>9, <2>3
  <2>6. /\ u[0] = Layered(disk, k)[Len(results)]
        /\ SourceOf(f) = LayerSource(Len(results) + 1)
        /\ table = Evaluated(u[1].effects) /\ included = u[1].included
    <3>1. frames # <<>> /\ frames[1] = f /\ Len(frames) = 1
      BY <1>3, <1>5, <1>9
    <3> QED
      BY <2>4, <3>1 DEF IsTrail
  <2>7. /\ u[1] = Whole(disk, k)[k][<<SourceOf(f), u[0]>>]
        /\ u[1] \in Progress
    <3> DEFINE m == 1
    <3>2. /\ m \in Nat \ {0} /\ m = Len(frames) /\ m <= k
          /\ f = frames[m] /\ f.pos > Len(disk[f.file])
      BY <1>1, <1>5, <1>7, <1>9, <2>5
    <3> HIDE DEF m
    <3>3. Ended(u, k, m, f)
      BY <1>6, <2>4, <3>2, EndReached
    <3>4. k - m + 1 = k /\ m - 1 = 0
      BY DEF m
    <3> QED
      BY <3>3, <3>4 DEF m, Ended
  <2>8. Layered(disk, k)[Len(results) + 1] = u[1]
    <3>1. IsLayered(Layered(disk, k), disk, k)
      BY <1>6, LayeredSteps
    <3>2. Len(results) + 1 \in 1..Len(Layers) /\ (Len(results) + 1) - 1 = Len(results)
      <4>1. Len(results) \in Nat /\ Len(Layers) \in Nat /\ Len(results) < Len(Layers)
        BY <1>2, <2>1, TargetIsText DEF IInv, Shapes
      <4> QED
        BY <4>1
    <3>3. Layered(disk, k)[Len(results) + 1] =
            Whole(disk, k)[k][<<LayerSource(Len(results) + 1),
                                Layered(disk, k)[Len(results)]>>]
      BY <3>1, <3>2 DEF IsLayered
    <3> QED
      BY <2>6, <2>7, <3>3
  <2>9. PICK w : w = u[1]
    OBVIOUS
  <2>10. /\ w \in Progress /\ w = Layered(disk', k)[Len(results')]
         /\ table' = Evaluated(w.effects) /\ included' = w.included
    BY <1>1, <2>2, <2>6, <2>7, <2>8, <2>9
  <2> QED
    BY <2>1, <2>10, TrailIdle, Zenon
<1>10. CASE n # 0
  <2>1. /\ phase = "read"
        /\ frames' = [SubSeq(frames, 1, n) EXCEPT ![n] = Past(@, ok)]
        /\ UNCHANGED <<disk, table, included, results, phase>>
    BY <1>1, <1>5, <1>10 DEF ok
  <2>2. n \in Nat \ {0} /\ n \in 1..(n + 1)
    BY <1>10
  <2>3. /\ frames' \in Seq(Frames) /\ Len(frames') = n
        /\ \A i \in 1..n : i # n => frames'[i] = frames[i]
        /\ LET g == frames[n]
               h == frames'[n]
           IN /\ h.text = g.text /\ h.file = g.file /\ h.default = g.default
              /\ h.ns = g.ns /\ h.ok = (g.ok /\ ok) /\ h.pos = g.pos + 1
    BY <1>2, <1>4, <1>5, <2>1, <2>2, PopEffect, Zenon
  <2> SUFFICES ASSUME Clean', NEW k \in Nat, k >= Cardinality(included)
               PROVE  \E v : IsTrail(v, k)'
    BY <1>6, <2>1 DEF Follows
  <2>4. Clean
    <3>1. \A i \in 1..n : frames'[i].ok
      BY <2>3 DEF Clean
    <3>2. frames[n].ok /\ ok
      <4>1. n \in 1..n
        BY <2>2
      <4>2. frames'[n].ok
        BY <3>1, <4>1
      <4>3. frames'[n].ok = (frames[n].ok /\ ok)
        BY <2>3
      <4> QED
        BY <4>2, <4>3, Zenon
    <3>3. \A i \in 1..n : frames[i].ok
      BY <2>3, <3>1, <3>2
    <3>4. frames[n + 1].ok
      BY <1>4, <1>7, <3>2
    <3>5. \A i \in 1..(n + 1) : i \in 1..n \/ i = n + 1
      OBVIOUS
    <3>6. \A i \in 1..(n + 1) : frames[i].ok
      BY <3>3, <3>4, <3>5
    <3> QED
      BY <1>7, <2>1, <3>6 DEF Clean
  <2>5. PICK u : IsTrail(u, k)
    BY <1>8, <2>4
  <2>6. n + 1 <= k /\ Len(frames) <= k
    BY <1>5, <1>8, <2>4
  <2>7. /\ u[n + 1] = Whole(disk, k)[k - n][<<SourceOf(f), u[n]>>]
        /\ u[n] \in Progress /\ u[n + 1] \in Progress
    <3> DEFINE m == n + 1
    <3>1. /\ m \in Nat \ {0} /\ m = Len(frames) /\ m <= k
          /\ f = frames[m] /\ f.pos > Len(disk[f.file])
      BY <1>1, <1>5, <1>7, <2>6
    <3>2. k - m + 1 = k - n /\ m - 1 = n
      OBVIOUS
    <3> HIDE DEF m
    <3>3. Ended(u, k, m, f)
      BY <1>6, <2>5, <3>1, EndReached
    <3> QED
      BY <3>2, <3>3 DEF m, Ended
  <2>8. /\ Waits(u, n) /\ u[n].ns = frames[n].ns
        /\ table = Evaluated(u[n + 1].effects) /\ included = u[n + 1].included
    <3>1. /\ \A j \in 1..Len(frames) : /\ u[j].ns = frames[j].ns
                                       /\ j < Len(frames) => Waits(u, j)
          /\ table = Evaluated(u[Len(frames)].effects)
          /\ included = u[Len(frames)].included
      BY <2>5, Zenon DEF IsTrail
    <3>2. n \in 1..Len(frames) /\ n < Len(frames) /\ Len(frames) = n + 1
      BY <1>5, <2>2
    <3> QED
      BY <3>1, <3>2, Zenon
  <2>9. PICK w : w = Onward(Whole(disk, k)[k - n], SourceOf(frames[n]), u[n],
                            Entry(frames[n]))
    OBVIOUS
  <2>10. w = [u[n + 1] EXCEPT !.ns = u[n].ns]
    <3>1. /\ Entry(frames[n]).kind = "include" /\ Entry(frames[n]).path \notin u[n].included
          /\ SourceOf(f) = Included(SourceOf(frames[n]), u[n], Entry(frames[n]))
      BY <1>7, <2>8 DEF Waits
    <3> QED
      BY <2>7, <2>9, <3>1 DEF Onward
  <2>11. w.ns = u[n].ns /\ w.effects = u[n + 1].effects /\ w.included = u[n + 1].included
    <3>1. u[n].ns \in Names
      BY <2>7 DEF Progress
    <3> QED
      BY <2>7, <2>10, <3>1, NamespaceFields
  <2>12. /\ SourceOf(frames'[n]) = SourceOf(frames[n])
         /\ frames'[n].ns = w.ns
         /\ table' = Evaluated(w.effects) /\ included' = w.included
         /\ disk' = disk /\ results' = results
    BY <2>1, <2>3, <2>8, <2>11 DEF SourceOf
  <2>13. n \in 1..Len(frames) /\ frames[n].pos <= Len(disk[frames[n].file])
    BY <1>5, <2>2, <2>8 DEF Waits
  <2> QED
    BY <1>6, <2>3, <2>5, <2>6, <2>9, <2>12, <2>13, TrailOnward, Zenon
<1> QED
  BY <1>9, <1>10

\* No layer was read yet.
LEMMA NothingRead ==
    ASSUME HasEntries(disk), NEW k \in Nat, frames = <<>>, results = <<>>,
           table = EmptyTable, included = {}
    PROVE  \E u : IsTrail(u, k)
<1>1. Unstarted \in Progress /\ Unstarted.effects = <<>> /\ Unstarted.included = {}
  BY DEF Unstarted, Progress, Names
<1>2. Unstarted = Layered(disk, k)[Len(results)]
  BY LayeredSteps DEF IsLayered
<1>3. table = Evaluated(Unstarted.effects)
  BY <1>1, EvaluatedNothing
<1> DEFINE u == [j \in 0..0 |-> Unstarted]
<1>4. u \in [0..0 -> Progress] /\ u[0] = Unstarted /\ Len(frames) = 0
  BY <1>1
<1> HIDE DEF u
<1>5. IsTrail(u, k)
  BY <1>1, <1>2, <1>3, <1>4 DEF IsTrail
<1> QED
  BY <1>5, Zenon

LEMMA FollowsInit == Init => Follows
<1> SUFFICES ASSUME Init PROVE Follows
  OBVIOUS
<1>1. IsFiniteSet(included)
  BY FS_EmptySet DEF Init
<1>2. HasEntries(disk)
  BY StoreAssumption DEF Init, HasEntries
<1>3. \A k \in Nat : \E u : IsTrail(u, k)
  BY <1>2, NothingRead DEF Init
<1> QED
  BY <1>1, <1>3 DEF Init, Follows

LEMMA FollowsRestart == ASSUME IInv, Data, Restart PROVE Follows'
<1>1. /\ frames' = <<>> /\ results' = <<>> /\ table' = EmptyTable /\ included' = {}
      /\ phase' = "read" /\ disk' = disk
  BY DEF Restart, IInv, Shapes
<1>2. HasEntries(disk)
  BY DataHasEntries
<1>3. ASSUME NEW k \in Nat
      PROVE  \E v : IsTrail(v, k)'
  <2> DEFINE w == Unstarted
  <2>1. w \in Progress /\ w.effects = <<>> /\ w.included = {}
    BY DEF Unstarted, Progress, Names
  <2>2. w = Layered(disk', k)[Len(results')]
    BY <1>1, <1>2, LayeredSteps DEF IsLayered
  <2>3. table' = Evaluated(w.effects) /\ included' = w.included
    BY <1>1, <2>1, EvaluatedNothing
  <2> HIDE DEF w
  <2> QED
    BY <1>1, <2>1, <2>2, <2>3, TrailIdle, Zenon
<1>4. IsFiniteSet(included')
  BY <1>1, FS_EmptySet
<1> QED
  BY <1>1, <1>3, <1>4 DEF Follows

\* A program that has read its files, changes them and is killed.
LEMMA FollowsIdle == ASSUME IInv, Follows, Setup \/ Writing \/ Kill PROVE Follows'
<1>1. included' = included /\ phase' \notin {"read", "loaded"}
  BY DEF Setup, RemoveParameter, SetString, Writing, OpenForWriting, WriteLine, Written, Kill
<1> QED
  BY <1>1 DEF Follows

LEMMA FollowsStutter == ASSUME Follows, UNCHANGED vars PROVE Follows'
<1>1. /\ disk' = disk /\ table' = table /\ included' = included /\ frames' = frames
      /\ results' = results /\ phase' = phase
  BY DEF vars
<1>2. \A f : Entry(f)' = Entry(f)
  BY <1>1 DEF Entry
<1>3. \A u, j : Waits(u, j)' = Waits(u, j)
  BY <1>1, <1>2 DEF Waits, SourceOf, Entry
<1>4. \A u, k : IsTrail(u, k)' = IsTrail(u, k)
  BY <1>1, <1>3 DEF IsTrail, SourceOf
<1>5. Clean' = Clean
  BY <1>1 DEF Clean
<1> QED
  BY <1>1, <1>4, <1>5 DEF Follows

LEMMA FollowsStep == IInv /\ Data /\ Follows /\ [Next]_vars => Follows'
<1> SUFFICES ASSUME IInv, Data, Follows, [Next]_vars PROVE Follows'
  OBVIOUS
<1>1. IInv'
  BY StepHolds
<1>2. CASE ReadConfig
  BY <1>1, <1>2, FollowsRead
<1>3. CASE Assign
  BY <1>3, FollowsAssign
<1>4. CASE Delete
  BY <1>4, FollowsDelete
<1>5. CASE OpenBlock
  BY <1>5, FollowsOpen
<1>6. CASE CloseBlock
  BY <1>6, FollowsClose
<1>7. CASE Reject \/ DropRest
  BY <1>7, FollowsReject, FollowsDropRest
<1>8. CASE Include
  BY <1>1, <1>8, FollowsInclude
<1>9. CASE EndOfFile
  BY <1>9, FollowsEnd
<1>10. CASE Setup \/ Writing \/ Kill
  BY <1>10, FollowsIdle
<1>11. CASE Restart
  BY <1>11, FollowsRestart
<1>12. CASE UNCHANGED vars
  BY <1>12, FollowsStutter
<1> QED
  BY <1>2, <1>3, <1>4, <1>5, <1>6, <1>7, <1>8, <1>9, <1>10, <1>11, <1>12 DEF Next, Reading

LEMMA FollowsMeant == IInv /\ Follows => LoadedAsMeant
<1> DEFINE k == Cardinality(included) + 1
           meant == Layered(disk, k)[Len(Layers)]
<1> SUFFICES ASSUME IInv, Follows, phase = "loaded", Clean
             PROVE  table = Evaluated(meant.effects) /\ included = meant.included
  BY DEF LoadedAsMeant
<1>1. k \in Nat /\ k >= Cardinality(included)
  BY FS_CardinalityType DEF Follows
<1>2. frames = <<>> /\ Len(frames) = 0
  BY DEF IInv, Shapes
<1>3. Len(results) = Len(Layers)
  BY DEF Follows
<1> HIDE DEF k
<1>4. PICK u : IsTrail(u, k)
  BY <1>1 DEF Follows
<1> QED
  BY <1>2, <1>3, <1>4 DEF IsTrail

\* A program that read its layers without an error has the symbol table that the files
\* mean, whatever they hold and however they include each other: Config::parseFile,
\* handleInclude and handleAssignment of config.cpp, against their text unfolded.
THEOREM LoadedAsMeantAlways == Spec => []LoadedAsMeant
<1>1. IInv /\ Follows => LoadedAsMeant
  BY FollowsMeant
<1> QED
  BY <1>1, InitHolds, StepHolds, DataInit, DataStep, FollowsInit, FollowsStep, PTL DEF Spec
==============================================================================
