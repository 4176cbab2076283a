------------------------- MODULE AliasRegistry_proofs -------------------------
(***************************************************************************)
(* What aliases promise, for any number of applications and names and any  *)
(* kills: the links of an alias that is registered, and of one that is     *)
(* not, are right again after the next command that was not killed.        *)
(***************************************************************************)
EXTENDS AliasRegistry, TLAPS

(* Lines of the registry *)

LinesOf(s) == { s[i] : i \in DOMAIN s }
Once(s) == \A i, j \in DOMAIN s : s[i].name = s[j].name => i = j

LEMMA AppendLine ==
    ASSUME NEW s \in Seq(Line), Once(s), NEW l \in Line,
           \A k \in LinesOf(s) : k.name # l.name
    PROVE  /\ Append(s, l) \in Seq(Line)
           /\ Once(Append(s, l))
           /\ LinesOf(Append(s, l)) = LinesOf(s) \cup {l}
<1> DEFINE a == Append(s, l)
           n == Len(s)
<1>1. n \in Nat /\ a \in Seq(Line) /\ DOMAIN s = 1..n /\ DOMAIN a = 1..(n + 1)
  OBVIOUS
<1>2. a[n + 1] = l /\ \A i \in 1..n : a[i] = s[i]
  OBVIOUS
<1>3. \A i \in 1..n : s[i].name # l.name
  BY <1>1 DEF LinesOf
<1>4. Once(a)
  <2> SUFFICES ASSUME NEW i \in 1..(n + 1), NEW j \in 1..(n + 1), a[i].name = a[j].name
               PROVE  i = j
    BY <1>1 DEF Once
  <2>1. CASE i \in 1..n /\ j \in 1..n
    BY <2>1, <1>1, <1>2 DEF Once
  <2>2. CASE i = n + 1 /\ j \in 1..n
    BY <2>2, <1>2, <1>3
  <2>3. CASE i \in 1..n /\ j = n + 1
    BY <2>3, <1>2, <1>3
  <2> QED
    BY <2>1, <2>2, <2>3, <1>1
<1>5. LinesOf(a) = LinesOf(s) \cup {l}
  <2>1. DOMAIN a = DOMAIN s \cup {n + 1}
    BY <1>1
  <2> QED
    BY <2>1, <1>1, <1>2 DEF LinesOf
<1> QED
  BY <1>1, <1>4, <1>5

LEMMA LinesBefore ==
    ASSUME NEW s \in Seq(Line), Once(s), NEW i \in DOMAIN s
    PROVE  LET p == SubSeq(s, 1, i - 1) IN
           /\ p \in Seq(Line) /\ Once(p)
           /\ LinesOf(p) \subseteq LinesOf(s)
           /\ \A k \in LinesOf(p) : k.name # s[i].name
<1> DEFINE p == SubSeq(s, 1, i - 1)
<1>1. i \in 1..Len(s) /\ Len(s) \in Nat /\ DOMAIN s = 1..Len(s)
  OBVIOUS
<1>2. p \in Seq(Line) /\ DOMAIN p = 1..(i - 1)
  BY <1>1
<1>3. \A j \in 1..(i - 1) : p[j] = s[j] /\ j \in DOMAIN s /\ j # i
  BY <1>1
<1> QED
  BY <1>2, <1>3 DEF LinesOf, Once

LEMMA Concatenation ==
    ASSUME NEW S, NEW p \in Seq(S), NEW q \in Seq(S)
    PROVE  /\ p \o q \in Seq(S) /\ Len(p \o q) = Len(p) + Len(q)
           /\ \A j \in 1..Len(p) : (p \o q)[j] = p[j]
           /\ \A j \in (Len(p) + 1)..(Len(p) + Len(q)) : (p \o q)[j] = q[j - Len(p)]
OBVIOUS

LEMMA LinesBut ==
    ASSUME NEW s \in Seq(Line), Once(s), NEW i \in DOMAIN s
    PROVE  LET r == SubSeq(s, 1, i - 1) \o SubSeq(s, i + 1, Len(s)) IN
           /\ r \in Seq(Line) /\ Once(r)
           /\ LinesOf(r) = { k \in LinesOf(s) : k.name # s[i].name }
<1> DEFINE p == SubSeq(s, 1, i - 1)
           q == SubSeq(s, i + 1, Len(s))
           r == p \o q
           n == Len(s)
           at(j) == IF j < i THEN j ELSE j + 1
<1>1. i \in 1..n /\ n \in Nat /\ DOMAIN s = 1..n
  OBVIOUS
<1>2. p \in Seq(Line) /\ Len(p) = i - 1 /\ \A j \in 1..(i - 1) : p[j] = s[j]
  BY <1>1
<1>3. q \in Seq(Line) /\ Len(q) = n - i /\ \A j \in 1..(n - i) : q[j] = s[j + i]
  BY <1>1
<1> HIDE DEF p, q
<1>4. /\ r \in Seq(Line) /\ Len(r) = Len(p) + Len(q)
      /\ \A j \in 1..Len(p) : r[j] = p[j]
      /\ \A j \in (Len(p) + 1)..(Len(p) + Len(q)) : r[j] = q[j - Len(p)]
  BY <1>2, <1>3, Concatenation
<1> HIDE DEF r
<1>5. DOMAIN r = 1..(n - 1)
  <2>1. Len(r) = n - 1
    BY <1>1, <1>2, <1>3, <1>4
  <2> QED
    BY <2>1, <1>4
<1>6. \A j \in 1..(n - 1) : r[j] = s[at(j)] /\ at(j) \in DOMAIN s /\ at(j) # i
  <2> SUFFICES ASSUME NEW j \in 1..(n - 1)
               PROVE  r[j] = s[at(j)] /\ at(j) \in DOMAIN s /\ at(j) # i
    OBVIOUS
  <2>1. CASE j < i
    <3>1. j \in 1..Len(p) /\ r[j] = p[j]
      BY <2>1, <1>1, <1>2, <1>4
    <3> QED
      BY <2>1, <3>1, <1>1, <1>2
  <2>2. CASE j >= i
    <3>1. j - Len(p) \in 1..(n - i) /\ r[j] = q[j - Len(p)]
      <4>1. j - Len(p) \in 1..(n - i)
        BY <2>2, <1>1, <1>2
      <4>2. j \in (Len(p) + 1)..(Len(p) + Len(q))
        BY <2>2, <1>1, <1>2, <1>3
      <4> QED
        BY <4>1, <4>2, <1>4
    <3>2. j - Len(p) + i = j + 1
      BY <1>1, <1>2
    <3> QED
      BY <2>2, <3>1, <3>2, <1>1, <1>3
  <2> QED
    BY <2>1, <2>2, <1>1
<1>7. Once(r)
  <2> SUFFICES ASSUME NEW j \in 1..(n - 1), NEW k \in 1..(n - 1), r[j].name = r[k].name
               PROVE  j = k
    BY <1>5 DEF Once
  <2>1. at(j) = at(k)
    BY <1>6 DEF Once
  <2> QED
    BY <2>1, <1>1
<1>8. ASSUME NEW k \in LinesOf(r) PROVE k \in LinesOf(s) /\ k.name # s[i].name
  BY <1>5, <1>6, <1>8 DEF LinesOf, Once
<1>9. ASSUME NEW k \in LinesOf(s), k.name # s[i].name PROVE k \in LinesOf(r)
  <2>1. PICK j \in 1..n : k = s[j]
    BY <1>1 DEF LinesOf
  <2>2. j # i
    BY <2>1, <1>9
  <2> DEFINE h == IF j < i THEN j ELSE j - 1
  <2>3. h \in 1..(n - 1) /\ at(h) = j
    BY <2>2, <1>1
  <2> QED
    BY <2>1, <2>3, <1>5, <1>6 DEF LinesOf
<1> QED
  BY <1>4, <1>7, <1>8, <1>9 DEF r, p, q

-----------------------------------------------------------------------------
(* The inductive invariant *)

Registry == LinesOf(lines)

\* The applications keep their own files.
AppLinks ==
    \A d \in Dirs, m \in Apps : link[d][m] = IF m \in Installed(d) THEN Real ELSE NoLink

AliasLinks == \A d \in Dirs, n \in Aliases : link[d][n] \in Apps \cup {NoLink}

\* Every line is that of an alias, and none is there twice.
LinesInv ==
    /\ Once(lines)
    /\ \A l \in Registry : l.name \in Aliases /\ l.target \in Apps

\* A create that is to make these links has made the others, a remove that is to
\* remove these has removed the others.
CreateInv ==
    job.op = "create" =>
        /\ job.name \in Aliases /\ job.target \in Apps
        /\ [name |-> job.name, target |-> job.target] \in Registry
        /\ job.todo \in {<<"cfg", "bin", "init">>, <<"bin", "init">>, <<"init">>}
        /\ job.todo # <<"cfg", "bin", "init">> /\ job.target \in HasDefaults
             => link["cfg"][job.name] = job.target
        /\ job.todo = <<"init">> => link["bin"][job.name] = job.target

RemoveInv ==
    job.op = "remove" =>
        /\ job.name \in Aliases
        /\ \A l \in Registry : l.name # job.name
        /\ job.todo \in {<<"bin", "init", "cfg">>, <<"init", "cfg">>, <<"cfg">>}
        /\ job.todo # <<"bin", "init", "cfg">> => link["bin"][job.name] = NoLink
        /\ job.todo = <<"cfg">> => link["init"][job.name] = NoLink

\* What a line, or the lack of one, says of the links of n.
LinksRight(n) ==
    /\ \A l \in Registry : l.name = n =>
         /\ link["bin"][n] = l.target /\ link["init"][n] = l.target
         /\ l.target \in HasDefaults => link["cfg"][n] = l.target
    /\ "again" \notin Habits /\ (\A l \in Registry : l.name # n)
         => \A d \in Dirs : link[d][n] = NoLink

\* Only of a name whose last command runs or was killed may the links be wrong.
OthersRight ==
    \A n \in Aliases \ broken : (job = NoJob \/ job.name # n) => LinksRight(n)

IInv == /\ TypeOK /\ AppLinks /\ AliasLinks /\ LinesInv /\ CreateInv /\ RemoveInv
        /\ OthersRight

LEMMA InitIInv == Init => IInv
<1> SUFFICES ASSUME Init PROVE IInv
  OBVIOUS
<1>1. Registry = {} /\ DOMAIN lines = {} /\ lines \in Seq(Line)
  BY DEF Init, Registry, LinesOf
<1>2. Apps \subseteq Names /\ Aliases \subseteq Names /\ Apps \cap Aliases = {}
  BY NamesAssumption DEF Names
<1>3. TypeOK
  BY <1>1, <1>2 DEF Init, TypeOK, NoJob
<1>4. AppLinks /\ AliasLinks
  BY <1>2, DefaultsAssumption DEF Init, AppLinks, AliasLinks, Installed
<1>5. LinesInv /\ CreateInv /\ RemoveInv
  BY <1>1 DEF Init, LinesInv, Once, CreateInv, RemoveInv, NoJob
<1>6. OthersRight
  BY <1>1, <1>2, DefaultsAssumption DEF Init, OthersRight, LinksRight, Installed
<1> QED
  BY <1>3, <1>4, <1>5, <1>6 DEF IInv

LEMMA RegisteredLines == \A n : n \in Registered <=> \E l \in Registry : l.name = n
BY DEF Registered, Registry, LinesOf

LEMMA LineOfRegistered ==
    ASSUME NEW n \in Registered
    PROVE  LineOf(n) \in DOMAIN lines /\ lines[LineOf(n)].name = n
BY DEF Registered, LineOf

LEMMA CreateKeeps ==
    ASSUME IInv, NEW n \in Aliases, NEW t \in Apps, Create(n, t)
    PROVE  IInv'
<1> DEFINE l == [name |-> n, target |-> t]
           k == KeptFor(n)
<1>1. /\ lines \in Seq(Line) /\ Once(lines) /\ l \in Line
      /\ n \in Names /\ t \in Names /\ job = NoJob
      /\ UNCHANGED <<link, broken>>
  BY DEF IInv, TypeOK, LinesInv, Line, Names, Create, Creatable
<1>2. /\ k \in Seq(Line) /\ Once(k) /\ LinesOf(k) \subseteq Registry
      /\ \A j \in LinesOf(k) : j.name # n
      /\ n \notin Registered => k = lines
  <2>1. CASE n \in Registered
    BY <2>1, <1>1, LineOfRegistered, LinesBefore DEF KeptFor, Registry
  <2>2. CASE n \notin Registered
    BY <2>2, <1>1, RegisteredLines DEF KeptFor, Registry
  <2> QED
    BY <2>1, <2>2
<1> HIDE DEF k
<1>3. /\ lines' \in Seq(Line) /\ Once(lines') /\ Registry' = LinesOf(k) \cup {l}
  <2>1. lines' = Append(k, l)
    BY DEF Create, k
  <2> QED
    BY <2>1, <1>1, <1>2, AppendLine DEF Registry
<1>4. /\ job'.op = "create" /\ job'.name = n /\ job'.target = t
      /\ job'.todo = <<"cfg", "bin", "init">> /\ job' \in Job /\ job' # NoJob
  <2>1. job' = [op |-> "create", name |-> n, target |-> t, todo |-> <<"cfg", "bin", "init">>]
    BY DEF Create
  <2>2. <<"cfg", "bin", "init">> \in Seq(Dirs) /\ <<"cfg", "bin", "init">> # <<>>
    BY DEF Dirs
  <2> QED
    BY <2>1, <2>2, <1>1 DEF Job, NoJob
<1>5. n \in Registered'
  <2>1. PICK i \in DOMAIN lines' : lines'[i] = l
    BY <1>3 DEF Registry, LinesOf
  <2> QED
    BY <2>1 DEF Registered
<1>6. TypeOK'
  BY <1>1, <1>3, <1>4, <1>5 DEF IInv, TypeOK
<1>7. AppLinks' /\ AliasLinks'
  BY <1>1 DEF IInv, AppLinks, AliasLinks, Installed
<1>8. LinesInv'
  <2>1. Once(lines)'
    BY <1>3 DEF Once
  <2> QED
    BY <2>1, <1>2, <1>3 DEF IInv, LinesInv
<1>9. CreateInv' /\ RemoveInv'
  BY <1>3, <1>4 DEF CreateInv, RemoveInv
<1>10. OthersRight'
  <2> SUFFICES ASSUME NEW m \in Aliases \ broken, m # n PROVE LinksRight(m)'
    BY <1>1, <1>4 DEF OthersRight
  <2>1. LinksRight(m)
    BY <1>1 DEF IInv, OthersRight
  <2>2. "again" \notin Habits => k = lines
    BY <1>2 DEF Create, Creatable
  <2>3. \A j \in Registry' : j.name = m => j \in Registry
    BY <1>2, <1>3
  <2>4. "again" \notin Habits => Registry \subseteq Registry'
    BY <2>2, <1>3 DEF Registry
  <2> QED
    BY <2>1, <2>3, <2>4, <1>1 DEF LinksRight
<1> QED
  BY <1>6, <1>7, <1>8, <1>9, <1>10 DEF IInv

LEMMA RemoveKeeps ==
    ASSUME IInv, NEW n \in Aliases, Remove(n)
    PROVE  IInv'
<1> DEFINE k == Without(n)
<1>1. /\ lines \in Seq(Line) /\ Once(lines) /\ n \in Names /\ job = NoJob
      /\ lines' = k /\ UNCHANGED <<link, broken>>
  BY DEF IInv, TypeOK, LinesInv, Names, Remove, Removable
<1>2. k \in Seq(Line) /\ Once(k) /\ LinesOf(k) = { l \in Registry : l.name # n }
  <2>1. CASE n \in Registered
    <3> DEFINE i == LineOf(n)
    <3>1. i \in DOMAIN lines /\ lines[i].name = n
      BY <2>1, LineOfRegistered
    <3>2. k = SubSeq(lines, 1, i - 1) \o SubSeq(lines, i + 1, Len(lines))
      BY <2>1 DEF Without
    <3> HIDE DEF i, k
    <3>3. /\ k \in Seq(Line) /\ Once(k)
          /\ LinesOf(k) = { l \in LinesOf(lines) : l.name # lines[i].name }
      BY <3>1, <3>2, <1>1, LinesBut
    <3> QED
      BY <3>1, <3>3 DEF Registry
  <2>2. CASE n \notin Registered
    BY <2>2, <1>1, RegisteredLines DEF Without, Registry
  <2> QED
    BY <2>1, <2>2
<1> HIDE DEF k
<1>3. lines' \in Seq(Line) /\ Once(lines)' /\ Registry' = { l \in Registry : l.name # n }
  BY <1>1, <1>2 DEF Registry, LinesOf, Once
<1>4. /\ job'.op = "remove" /\ job'.name = n /\ job'.todo = <<"bin", "init", "cfg">>
      /\ job' \in Job /\ job' # NoJob
  <2>1. job' = [op |-> "remove", name |-> n, target |-> n, todo |-> <<"bin", "init", "cfg">>]
    BY DEF Remove
  <2>2. <<"bin", "init", "cfg">> \in Seq(Dirs) /\ <<"bin", "init", "cfg">> # <<>>
    BY DEF Dirs
  <2> QED
    BY <2>1, <2>2, <1>1 DEF Job, NoJob
<1>5. n \notin Registered'
  <2> SUFFICES ASSUME NEW i \in DOMAIN lines' PROVE lines'[i].name # n
    BY DEF Registered
  <2>1. lines'[i] \in Registry'
    BY DEF Registry, LinesOf
  <2> QED
    BY <2>1, <1>3
<1>6. TypeOK'
  BY <1>1, <1>3, <1>4, <1>5 DEF IInv, TypeOK
<1>7. AppLinks' /\ AliasLinks'
  BY <1>1 DEF IInv, AppLinks, AliasLinks, Installed
<1>8. LinesInv'
  BY <1>3 DEF IInv, LinesInv
<1>9. CreateInv' /\ RemoveInv'
  BY <1>3, <1>4 DEF CreateInv, RemoveInv
<1>10. OthersRight'
  <2> SUFFICES ASSUME NEW m \in Aliases \ broken, m # n PROVE LinksRight(m)'
    BY <1>1, <1>4 DEF OthersRight
  <2>1. LinksRight(m)
    BY <1>1 DEF IInv, OthersRight
  <2> QED
    BY <2>1, <1>1, <1>3 DEF LinksRight
<1> QED
  BY <1>6, <1>7, <1>8, <1>9, <1>10 DEF IInv

-----------------------------------------------------------------------------
(* The links *)

\* What the command leaves at its next path is right for that path.
LEMMA TargetRight ==
    ASSUME IInv, job # NoJob
    PROVE  LET d == Head(job.todo) IN
           /\ d \in Dirs /\ Target(d) \in Apps \cup {NoLink}
           /\ job.op = "create" =>
                /\ d # "cfg" => Target(d) = job.target
                /\ job.target \in HasDefaults => Target(d) = job.target
           /\ job.op = "remove" => Target(d) = NoLink
<1> DEFINE d == Head(job.todo)
           n == job.name
           t == job.target
<1>1. job \in Job /\ job.op \in {"create", "remove"} /\ n \in Aliases
  BY DEF IInv, TypeOK, Job, CreateInv, RemoveInv
<1>2. d \in Dirs
  <2>1. job.todo \in Seq(Dirs) /\ job.todo # <<>>
    BY <1>1 DEF IInv, TypeOK, Job
  <2> QED
    BY <2>1
<1>3. link[d][n] \in Apps \cup {NoLink}
  BY <1>1, <1>2 DEF IInv, AliasLinks
<1>4. CASE job.op = "create"
  <2>1. t \in Apps
    BY <1>4 DEF IInv, CreateInv
  <2>2. t \in HasDefaults => Exists("cfg", t)
    BY <2>1 DEF IInv, AppLinks, Installed, Dirs, Exists
  <2> QED
    BY <2>1, <2>2, <1>2, <1>3, <1>4 DEF Target
<1>5. CASE job.op = "remove"
  <2>1. ~Exists("bin", n) => link["bin"][n] = NoLink
    <3>1. link["bin"][n] \in Apps => link["bin"][link["bin"][n]] = Real
      BY DEF IInv, AppLinks, Installed, Dirs
    <3>2. link["bin"][n] \in Apps \cup {NoLink}
      BY <1>1 DEF IInv, AliasLinks, Dirs
    <3> QED
      BY <3>1, <3>2 DEF Exists, Names
  <2> QED
    BY <2>1, <1>2, <1>5 DEF Target
<1> QED
  BY <1>1, <1>2, <1>4, <1>5

\* Only the link of name n in directory d has changed, to v.
Linked(d, n, v) ==
    /\ link' \in [Dirs -> [Names -> Names \cup {Real, NoLink}]]
    /\ link'[d][n] = v
    /\ \A e \in Dirs : e # d => link'[e] = link[e]
    /\ \A e \in Dirs, m \in Names : m # n => link'[e][m] = link[e][m]
    /\ AppLinks' /\ AliasLinks'

\* A change of one link of an alias.
LEMMA LinkChange ==
    ASSUME IInv, NEW d \in Dirs, NEW n \in Aliases, NEW v \in Apps \cup {NoLink},
           link' = [link EXCEPT ![d][n] = v]
    PROVE  Linked(d, n, v)
<1>1. link \in [Dirs -> [Names -> Names \cup {Real, NoLink}]] /\ n \in Names
  BY DEF IInv, TypeOK, Names
<1>2. /\ link' \in [Dirs -> [Names -> Names \cup {Real, NoLink}]]
      /\ link'[d][n] = v
      /\ \A e \in Dirs : e # d => link'[e] = link[e]
      /\ \A e \in Dirs, m \in Names : m # n => link'[e][m] = link[e][m]
  BY <1>1 DEF Names
<1>3. n \notin Apps /\ Apps \subseteq Names /\ Aliases \subseteq Names
  BY NamesAssumption DEF Names
<1>4. AppLinks'
  BY <1>2, <1>3 DEF IInv, AppLinks, Installed
<1>5. AliasLinks'
  <2> SUFFICES ASSUME NEW e \in Dirs, NEW m \in Aliases
               PROVE  link'[e][m] \in Apps \cup {NoLink}
    BY DEF AliasLinks
  <2>1. link[e][m] \in Apps \cup {NoLink}
    BY DEF IInv, AliasLinks
  <2> QED
    BY <2>1, <1>2, <1>3
<1> QED
  BY <1>2, <1>4, <1>5 DEF Linked

\* After the next link what has been done is right.
LEMMA RelinkKeeps == IInv /\ Relink => IInv'
<1> SUFFICES ASSUME IInv, Relink PROVE IInv'
  OBVIOUS
<1> DEFINE last == Len(job.todo) = 1
<1>0. PICK n, d, v, t : n = job.name /\ d = Head(job.todo) /\ v = Target(d) /\ t = job.target
  OBVIOUS
<1>1. job \in Job /\ job # NoJob /\ job.op \in {"create", "remove"} /\ n \in Aliases
  BY <1>0 DEF IInv, TypeOK, Job, CreateInv, RemoveInv, Relink
<1>2. /\ d \in Dirs /\ v \in Apps \cup {NoLink}
      /\ job.op = "create" =>
           /\ d # "cfg" => v = t
           /\ t \in HasDefaults => v = t
      /\ job.op = "remove" => v = NoLink
  BY <1>0, <1>1, TargetRight
<1>3. link' = [link EXCEPT ![d][n] = v] /\ UNCHANGED lines /\ Registry' = Registry
  BY <1>0 DEF Relink, Registry, LinesOf
<1>4. /\ link' \in [Dirs -> [Names -> Names \cup {Real, NoLink}]]
      /\ link'[d][n] = v
      /\ \A e \in Dirs : e # d => link'[e] = link[e]
      /\ \A e \in Dirs, m \in Names : m # n => link'[e][m] = link[e][m]
      /\ AppLinks' /\ AliasLinks'
  <2>1. d \in Dirs /\ n \in Aliases /\ v \in Apps \cup {NoLink}
    BY <1>1, <1>2
  <2>2. link' = [link EXCEPT ![d][n] = v]
    BY <1>3
  <2>3. Linked(d, n, v)
    BY <1>0, <2>1, <2>2, LinkChange
  <2> QED
    BY <2>3, Zenon DEF Linked
<1>5. LinesInv'
  BY <1>3 DEF IInv, LinesInv, Once
<1>6. \A m \in Aliases : m # n /\ LinksRight(m) => LinksRight(m)'
  BY <1>3, <1>4 DEF LinksRight, Names, Dirs
<1>7. job.todo \in Seq(Dirs) /\ job.todo # <<>>
  BY <1>1 DEF IInv, TypeOK, Job
<1>8. CASE ~last
  <2>1. /\ job' = [job EXCEPT !.todo = Tail(@)] /\ broken' = broken
    BY <1>0, <1>8 DEF Relink
  <2>2. Tail(job.todo) \in Seq(Dirs) /\ Tail(job.todo) # <<>>
    <3>1. Len(Tail(job.todo)) = Len(job.todo) - 1 /\ Len(job.todo) \in Nat \ {0}
      BY <1>7
    <3>2. Tail(job.todo) \in Seq(Dirs)
      BY <1>7
    <3>3. Tail(job.todo) # <<>>
      <4> SUFFICES ASSUME Tail(job.todo) = <<>> PROVE FALSE
        OBVIOUS
      <4>1. Len(<<>>) = 0
        OBVIOUS
      <4>2. Len(Tail(job.todo)) = 0
        BY <4>1
      <4>3. Len(job.todo) = 1
        BY <3>1, <4>2
      <4> QED
        BY <4>3, <1>8
    <3> QED
      BY <3>2, <3>3
  <2>3. /\ job' \in Job /\ job' # NoJob /\ job'.op = job.op /\ job'.name = n
        /\ job'.target = t /\ job'.todo = Tail(job.todo)
    BY <2>1, <2>2, <1>0, <1>1 DEF Job, NoJob
  <2>4. TypeOK'
    <3>1. (job'.op = "create") <=> job'.name \in Registered'
      BY <2>3, <1>0, <1>1, <1>3 DEF IInv, TypeOK, Registered
    <3> QED
      BY <3>1, <2>1, <2>2, <2>3, <1>3, <1>4 DEF IInv, TypeOK
  <2>5. CreateInv'
    <3> SUFFICES ASSUME job.op = "create" PROVE CreateInv'
      BY <2>3 DEF CreateInv
    <3>1. CASE job.todo = <<"cfg", "bin", "init">>
      <4>1. d = "cfg" /\ Tail(job.todo) = <<"bin", "init">>
        BY <3>1, <1>0
      <4> QED
        BY <4>1, <2>3, <1>0, <1>1, <1>2, <1>3, <1>4 DEF IInv, CreateInv
    <3>2. CASE job.todo = <<"bin", "init">>
      <4>1. d = "bin" /\ Tail(job.todo) = <<"init">>
        BY <3>2, <1>0
      <4>2. link'["cfg"] = link["cfg"]
        BY <4>1, <1>4 DEF Dirs
      <4> QED
        BY <3>2, <4>1, <4>2, <2>3, <1>0, <1>1, <1>2, <1>3, <1>4 DEF IInv, CreateInv
    <3> QED
      BY <3>1, <3>2, <1>8 DEF IInv, CreateInv
  <2>6. RemoveInv'
    <3> SUFFICES ASSUME job.op = "remove" PROVE RemoveInv'
      BY <2>3 DEF RemoveInv
    <3>1. CASE job.todo = <<"bin", "init", "cfg">>
      <4>1. d = "bin" /\ Tail(job.todo) = <<"init", "cfg">>
        BY <3>1, <1>0
      <4> QED
        BY <4>1, <2>3, <1>0, <1>1, <1>2, <1>3, <1>4 DEF IInv, RemoveInv
    <3>2. CASE job.todo = <<"init", "cfg">>
      <4>1. d = "init" /\ Tail(job.todo) = <<"cfg">>
        BY <3>2, <1>0
      <4>2. link'["bin"] = link["bin"]
        BY <4>1, <1>4 DEF Dirs
      <4> QED
        BY <3>2, <4>1, <4>2, <2>3, <1>0, <1>1, <1>2, <1>3, <1>4 DEF IInv, RemoveInv
    <3> QED
      BY <3>1, <3>2, <1>8 DEF IInv, RemoveInv
  <2>7. OthersRight'
    BY <2>1, <2>3, <1>0, <1>1, <1>6 DEF IInv, OthersRight
  <2> QED
    BY <2>4, <2>5, <2>6, <2>7, <1>4, <1>5 DEF IInv
<1>9. CASE last
  <2>1. job' = NoJob /\ broken' = broken \ {n}
    BY <1>0, <1>9 DEF Relink
  <2>2. TypeOK'
    BY <2>1, <1>3, <1>4 DEF IInv, TypeOK
  <2>3. CreateInv' /\ RemoveInv'
    BY <2>1 DEF CreateInv, RemoveInv, NoJob
  <2>4. LinksRight(n)'
    <3>1. CASE job.op = "create"
      <4>1. job.todo = <<"init">> /\ d = "init"
        BY <3>1, <1>0, <1>9 DEF IInv, CreateInv
      <4>2. link'["cfg"] = link["cfg"] /\ link'["bin"] = link["bin"]
        BY <4>1, <1>4 DEF Dirs
      <4>3. [name |-> n, target |-> t] \in Registry
        BY <3>1, <1>0 DEF IInv, CreateInv
      <4>4. \A l \in Registry : l.name = n => l.target = t
        <5> SUFFICES ASSUME NEW i \in DOMAIN lines, lines[i].name = n
                     PROVE  lines[i].target = t
          BY DEF Registry, LinesOf
        <5>1. PICK j \in DOMAIN lines : lines[j] = [name |-> n, target |-> t]
          BY <4>3 DEF Registry, LinesOf
        <5>2. i = j
          BY <5>1 DEF IInv, LinesInv, Once
        <5> QED
          BY <5>1, <5>2
      <4>5. /\ t \in HasDefaults => link["cfg"][n] = t
            /\ link["bin"][n] = t
        BY <3>1, <4>1, <1>0 DEF IInv, CreateInv
      <4> QED
        BY <3>1, <4>1, <4>2, <4>3, <4>4, <4>5, <1>2, <1>3, <1>4 DEF LinksRight
    <3>2. CASE job.op = "remove"
      <4>1. job.todo = <<"cfg">> /\ d = "cfg"
        BY <3>2, <1>0, <1>9 DEF IInv, RemoveInv
      <4>2. link'["init"] = link["init"] /\ link'["bin"] = link["bin"]
        BY <4>1, <1>4 DEF Dirs
      <4>3. link["init"][n] = NoLink /\ link["bin"][n] = NoLink
        BY <3>2, <4>1, <1>0 DEF IInv, RemoveInv
      <4>4. \A l \in Registry : l.name # n
        BY <3>2, <1>0 DEF IInv, RemoveInv
      <4> QED
        BY <3>2, <4>1, <4>2, <4>3, <4>4, <1>2, <1>3, <1>4 DEF LinksRight, Dirs
    <3> QED
      BY <3>1, <3>2, <1>1
  <2>5. OthersRight'
    BY <2>1, <2>4, <1>0, <1>6 DEF IInv, OthersRight
  <2> QED
    BY <2>2, <2>3, <2>5, <1>4, <1>5 DEF IInv
<1> QED
  BY <1>8, <1>9

\* A killed command leaves only its own name wrong.
LEMMA KillKeeps == IInv /\ Kill => IInv'
<1> SUFFICES ASSUME IInv, Kill PROVE IInv'
  OBVIOUS
<1> DEFINE d == Head(job.todo)
           n == job.name
<1>1. job # NoJob /\ n \in Aliases /\ d \in Dirs /\ n \in Names
  <2>1. job \in Job /\ job # NoJob
    BY DEF IInv, TypeOK, Kill
  <2> QED
    BY <2>1, TargetRight DEF IInv, Job, CreateInv, RemoveInv, Names
<1>2. /\ link' \in [Dirs -> [Names -> Names \cup {Real, NoLink}]]
      /\ \A e \in Dirs, m \in Names : m # n => link'[e][m] = link[e][m]
      /\ AppLinks' /\ AliasLinks'
  <2>1. CASE UNCHANGED link
    BY <2>1 DEF IInv, TypeOK, AppLinks, AliasLinks, Installed
  <2>2. CASE link' = [link EXCEPT ![d][n] = NoLink]
    <3>1. Linked(d, n, NoLink)
      BY <2>2, <1>1, LinkChange
    <3> QED
      BY <3>1 DEF Linked
  <2> QED
    BY <2>1, <2>2 DEF Kill
<1>3. job' = NoJob /\ broken' = broken \cup {n} /\ UNCHANGED lines /\ Registry' = Registry
  BY DEF Kill, Registry, LinesOf
<1>4. TypeOK'
  BY <1>1, <1>2, <1>3 DEF IInv, TypeOK
<1>5. LinesInv'
  BY <1>3 DEF IInv, LinesInv, Once
<1>6. CreateInv' /\ RemoveInv'
  BY <1>3 DEF CreateInv, RemoveInv, NoJob
<1>7. OthersRight'
  <2> SUFFICES ASSUME NEW m \in Aliases \ broken, m # n PROVE LinksRight(m)'
    BY <1>3 DEF OthersRight
  <2>1. LinksRight(m)
    BY DEF IInv, OthersRight
  <2> QED
    BY <2>1, <1>2, <1>3 DEF LinksRight, Names, Dirs
<1> QED
  BY <1>2, <1>4, <1>5, <1>6, <1>7 DEF IInv

-----------------------------------------------------------------------------
(* Theorems *)

LEMMA StepKeeps == IInv /\ [Next]_vars => IInv'
<1> SUFFICES ASSUME IInv, [Next]_vars PROVE IInv'
  OBVIOUS
<1>1. ASSUME NEW n \in Aliases, NEW t \in Apps, Create(n, t) PROVE IInv'
  BY <1>1, CreateKeeps
<1>2. ASSUME NEW n \in Aliases, Remove(n) PROVE IInv'
  BY <1>2, RemoveKeeps
<1>3. CASE Relink
  BY <1>3, RelinkKeeps
<1>4. CASE Kill
  BY <1>4, KillKeeps
<1>5. CASE UNCHANGED vars
  <2>1. Registry' = Registry
    BY <1>5 DEF vars, Registry, LinesOf
  <2> QED
    BY <2>1, <1>5 DEF vars, IInv, TypeOK, AppLinks, AliasLinks, Installed, LinesInv, Once,
                      CreateInv, RemoveInv, OthersRight, LinksRight, Registered
<1> QED
  BY <1>1, <1>2, <1>3, <1>4, <1>5 DEF Next

\* Whatever is killed, at most the links of names whose last command was killed
\* are wrong, and a command has done what it no longer has to do.
THEOREM AliasInvariant == Spec => []IInv
<1> QED
  BY InitIInv, StepKeeps, PTL DEF Spec

\* Registry, links and running command keep their types.
THEOREM TypeCorrectness == Spec => []TypeOK
<1>1. IInv => TypeOK
  BY DEF IInv
<1> QED
  BY <1>1, AliasInvariant, PTL

\* If no alias is created twice, an alias whose last command was not killed works
\* if it is registered and has left nothing if it is not.
THEOREM LinksMatchRegistry ==
    ASSUME "again" \notin Habits PROVE Spec => []RegistryMatchesLinks
<1>1. IInv => RegistryMatchesLinks
  <2> SUFFICES ASSUME IInv, NEW n \in Aliases, Settled(n)
               PROVE  IF n \in Registered
                        THEN Exists("bin", n) /\ Exists("init", n)
                        ELSE \A d \in Dirs : link[d][n] = NoLink
    BY DEF RegistryMatchesLinks
  <2>1. LinksRight(n)
    BY DEF IInv, OthersRight, Settled
  <2>2. CASE n \in Registered
    <3>1. PICK l \in Registry : l.name = n
      BY <2>2, RegisteredLines
    <3>2. l.target \in Apps /\ link["bin"][n] = l.target /\ link["init"][n] = l.target
      BY <3>1, <2>1 DEF IInv, LinesInv, LinksRight
    <3>3. link["bin"][l.target] = Real /\ link["init"][l.target] = Real
      BY <3>2 DEF IInv, AppLinks, Installed, Dirs
    <3> QED
      BY <2>2, <3>2, <3>3 DEF Exists, Names
  <2>3. CASE n \notin Registered
    BY <2>1, <2>3, RegisteredLines DEF LinksRight
  <2> QED
    BY <2>2, <2>3
<1> QED
  BY <1>1, AliasInvariant, PTL

\* Even if aliases are created twice, no alias has files of two applications.
THEOREM LinksOfOneTarget == Spec => []OfOneTarget
<1>1. IInv => OfOneTarget
  <2> SUFFICES ASSUME IInv, NEW i \in DOMAIN lines, Settled(lines[i].name)
               PROVE  LET n == lines[i].name  t == lines[i].target IN
                        /\ link["bin"][n] = t /\ link["init"][n] = t
                        /\ t \in HasDefaults => link["cfg"][n] = t
    BY DEF OfOneTarget
  <2>1. lines[i] \in Registry
    BY DEF Registry, LinesOf
  <2>2. LinksRight(lines[i].name)
    BY <2>1 DEF IInv, LinesInv, OthersRight, Settled
  <2> QED
    BY <2>1, <2>2 DEF LinksRight
<1> QED
  BY <1>1, AliasInvariant, PTL

\* A create that ends has made an alias that works, whatever was left behind.
THEOREM CreateWorks == Spec => CreatedWorks
<1> DEFINE A == (job.op = "create" /\ job' = NoJob /\ job.name \notin broken') =>
          /\ [name |-> job.name, target |-> job.target] \in
                { lines'[i] : i \in DOMAIN lines' }
          /\ link'["bin"][job.name] = job.target
          /\ link'["init"][job.name] = job.target
<1>1. IInv /\ IInv' /\ [Next]_vars => [A]_vars
  <2> SUFFICES ASSUME IInv, IInv', [Next]_vars, job.op = "create", job' = NoJob,
                      job.name \notin broken'
               PROVE  A
    OBVIOUS
  <2>0. PICK n, t : n = job.name /\ t = job.target
    OBVIOUS
  <2>1. job # NoJob /\ n \in Aliases /\ [name |-> n, target |-> t] \in Registry
    BY <2>0 DEF NoJob, IInv, CreateInv
  <2>2. lines' = lines
    BY <2>1 DEF Next, Create, Creatable, Remove, Removable, Relink, Kill, vars
  <2>3. [name |-> n, target |-> t] \in Registry'
    BY <2>1, <2>2 DEF Registry, LinesOf
  <2>4. LinksRight(n)'
    <3>1. n \in Aliases \ broken' /\ job' = NoJob
      BY <2>0, <2>1
    <3> QED
      BY <3>1 DEF IInv, OthersRight
  <2> QED
    BY <2>0, <2>3, <2>4 DEF LinksRight, Registry, LinesOf
<1> QED
  BY <1>1, AliasInvariant, PTL DEF Spec, CreatedWorks
=============================================================================
