---------------------------- MODULE KeyBindings_proofs ----------------------------
(* Theorems about the commands of the bindings shell.                      *)
EXTENDS KeyBindings, TLAPS

\* The fields of a command fit together.
JobFits(j) ==
    /\ j.cmd \in {"set profile", "delete profile", "remove profile"} <=> j.prof \in Profiles
    /\ j.todo \subseteq j.all
    /\ j.file # NoStation => j.cmd = "remove module"
    /\ j.cmd = "alias remove" => j.all = {}

-----------------------------------------------------------------------------
(* What an edit does to a file *)

LEMMA LineType ==
    ASSUME NEW m \in Modules, NEW p \in Profiles \cup {NoProfile}
    PROVE  Line(m, p) \in Lines /\ Line(m, p).mod = m /\ Line(m, p).prof = p
  BY DEF Line, Lines

\* What a command makes of the lines of its module are lines of its module.
LEMMA OwnType ==
    ASSUME NEW j \in Jobs, NEW own \in SUBSET Lines, \A l \in own : l.mod = j.mod
    PROVE  Own(j, own) \in SUBSET Lines /\ \A l \in Own(j, own) : l.mod = j.mod
<1> DEFINE new == Line(j.mod, j.prof)
           bare == Line(j.mod, NoProfile)
<1>1. /\ new \in Lines /\ new.mod = j.mod
      /\ bare \in Lines /\ bare.mod = j.mod
  <2>1. j.mod \in Modules /\ j.prof \in Profiles \cup {NoProfile}
    BY DEF Jobs
  <2> QED  BY <2>1, LineType
<1> HIDE DEF new, bare
<1>2. Own(j, own) \in {{new}, own \ {new}, (own \ {new}) \cup {bare}, own, {}}
  BY DEF Own, new, bare
<1> QED  BY <1>1, <1>2

LEMMA EditedType ==
    ASSUME NEW j \in Jobs, NEW lines \in SUBSET Lines
    PROVE  Edited(j, lines) \in SUBSET Lines
<1>1. LinesOf(j.mod, lines) \in SUBSET Lines /\ \A l \in LinesOf(j.mod, lines) : l.mod = j.mod
  BY DEF LinesOf
<1>2. Own(j, LinesOf(j.mod, lines)) \in SUBSET Lines
  BY <1>1, OwnType
<1> QED  BY <1>2 DEF Edited

\* An edit leaves the lines of other modules as they are, and the lines of the module
\* are what Own makes of them.
LEMMA EditedLines ==
    ASSUME NEW j \in Jobs, NEW lines \in SUBSET Lines
    PROVE  /\ { l \in Edited(j, lines) : l.mod # j.mod } = { l \in lines : l.mod # j.mod }
           /\ LinesOf(j.mod, Edited(j, lines)) = Own(j, LinesOf(j.mod, lines))
<1> DEFINE own == LinesOf(j.mod, lines)
<1>1. own \in SUBSET Lines /\ \A l \in own : l.mod = j.mod
  BY DEF LinesOf
<1> HIDE DEF own
<1>2. \A l \in Own(j, own) : l.mod = j.mod
  BY <1>1, OwnType
<1>3. Edited(j, lines) = { l \in lines : l.mod # j.mod } \cup Own(j, own)
  BY DEF Edited, own
<1>4. LinesOf(j.mod, Edited(j, lines)) = Own(j, own)
  BY <1>2, <1>3 DEF LinesOf
<1> QED  BY <1>2, <1>3, <1>4 DEF own

LEMMA FileType ==
    ASSUME NEW l \in Lines, HasProfile(l)
    PROVE  File(l) \in Pairs
  BY DEF Lines, HasProfile, File, Pairs

LEMMA DoomedType ==
    ASSUME NEW j \in Jobs, j.cmd = "delete profile" => j.prof \in Profiles
    PROVE  Doomed(j) \subseteq Pairs
<1>1. j.mod \in Modules
  BY DEF Jobs
<1>2. {j.mod} \X Profiles \subseteq Pairs
  BY <1>1 DEF Pairs
<1>3. ASSUME j.cmd = "delete profile" PROVE {<<j.mod, j.prof>>} \subseteq Pairs
  <2>1. j.prof \in Profiles
    BY <1>3
  <2>2. <<j.mod, j.prof>> \in Pairs
    BY <1>1, <2>1 DEF Pairs
  <2> QED  BY <2>2
<1> QED  BY <1>2, <1>3 DEF Doomed

LEMMA SelectedType ==
    ASSUME NEW sel \in Selectors
    PROVE  Selected(sel) \subseteq Keyed
  BY DEF Selected

\* No line of an edited file names a profile the command removes, and the one line an
\* edit may add with a profile is that of `set profile'.
LEMMA EditedProfiles ==
    ASSUME NEW j \in Jobs, NEW lines \in SUBSET Lines, JobFits(j),
           NEW l \in Edited(j, lines)
    PROVE  /\ File(l) \notin Doomed(j)
           /\ HasProfile(l) => l \in lines \/ (j.cmd = "set profile" /\ File(l) = <<j.mod, j.prof>>)
<1> DEFINE own == LinesOf(j.mod, lines)
           new == Line(j.mod, j.prof)
           bare == Line(j.mod, NoProfile)
<1>1. own \subseteq lines /\ \A k \in own : k.mod = j.mod
  BY DEF LinesOf
<1>2. /\ new \in Lines /\ new.mod = j.mod /\ new.prof = j.prof
      /\ bare.mod = j.mod /\ bare.prof = NoProfile
  <2>1. j.mod \in Modules /\ j.prof \in Profiles \cup {NoProfile}
    BY DEF Jobs
  <2> QED  BY <2>1, LineType
<1>3. ASSUME l \in Lines, l.mod = j.mod, l.prof = j.prof PROVE l = new
  BY <1>3 DEF new, Line, Lines
<1>4. l \in { k \in lines : k.mod # j.mod } \/ l \in Own(j, own)
  BY DEF Edited, own
<1> HIDE DEF own, new, bare
<1>5. CASE l \in { k \in lines : k.mod # j.mod }
  BY <1>5 DEF Doomed, File
<1>6. CASE l \in Own(j, own)
  <2>1. CASE j.cmd \in {"set profile", "set module"}
    <3>1. l = new
      BY <1>6, <2>1 DEF Own, new
    <3>2. Doomed(j) = {}
      BY <2>1 DEF Doomed
    <3>3. j.cmd = "set module" => ~HasProfile(l)
      BY <3>1, <1>2 DEF JobFits, HasProfile, Jobs
    <3> QED  BY <3>1, <3>2, <3>3, <2>1, <1>2 DEF File
  <2>2. CASE j.cmd \in {"delete profile", "delete binding"}
    <3>1. l \in own \ {new}
      BY <1>6, <2>2 DEF Own, new
    <3> QED  BY <3>1, <1>1, <1>3, <2>2 DEF Doomed, File
  <2>3. CASE j.cmd = "remove profile"
    <3>1. l \in own \cup {bare}
      BY <1>6, <2>3 DEF Own, bare
    <3>2. Doomed(j) = {} /\ ~HasProfile(bare)
      BY <2>3, <1>2 DEF Doomed, HasProfile
    <3> QED  BY <3>1, <3>2, <1>1
  <2>4. CASE j.cmd \in {"remove module", "alias remove"}
    BY <1>6, <2>4 DEF Own
  <2> QED  BY <2>1, <2>2, <2>3, <2>4 DEF Jobs, Commands
<1> QED  BY <1>4, <1>5, <1>6

\* An edited file, and the binding file when it is removed, are as the help says.
LEMMA EditedPromise ==
    ASSUME NEW j \in Jobs, JobFits(j), NEW own \in SUBSET Lines, \A l \in own : l.mod = j.mod
    PROVE  /\ j.cmd \in {"set profile", "set module"} => Own(j, own) = {Line(j.mod, j.prof)}
           /\ j.cmd = "remove module" => Own(j, own) = {}
           /\ j.cmd \in {"delete profile", "delete binding", "remove profile"} =>
                 Line(j.mod, j.prof) \notin Own(j, own)
<1>1. CASE j.cmd = "remove profile"
  <2>1. j.prof # NoProfile /\ j.mod \in Modules
    BY <1>1, NullAssumption DEF JobFits, Jobs
  <2>2. Line(j.mod, j.prof) # Line(j.mod, NoProfile)
    BY <2>1 DEF Line
  <2> QED  BY <1>1, <2>2 DEF Own
<1>2. CASE j.cmd # "remove profile"
  BY <1>2 DEF Own
<1> QED  BY <1>1, <1>2

-----------------------------------------------------------------------------
(* The inductive invariant *)

JobInv ==
    job # NoJob =>
      /\ JobFits(job)
      /\ job.file # NoStation => job.file \in job.all \ job.todo
      /\ job.cmd = "set profile" => <<job.mod, job.prof>> \in profiles
      /\ \A s \in job.todo : s \in job.bound <=> LinesOf(job.mod, keys[s]) # {}

IInv == TypeOK /\ JobInv /\ BindingsResolve /\ CommandsDo

\* What is true as soon as a command has begun.
LEMMA Begun ==
    ASSUME IInv, NEW cmd \in Commands, NEW m \in Modules,
           NEW p \in Profiles \cup {NoProfile}, NEW all \in SUBSET Keyed,
           Begin(cmd, m, p, all),
           cmd \in {"set profile", "delete profile", "remove profile"} <=> p \in Profiles,
           cmd = "alias remove" => all = {},
           cmd = "set profile" => <<m, p>> \in profiles'
    PROVE  /\ job = NoJob /\ job' \in Jobs /\ job' # NoJob
           /\ job'.cmd = cmd /\ job'.mod = m /\ job'.prof = p /\ job'.todo = all
           /\ JobInv' /\ CommandsDo'
           /\ UNCHANGED <<keys, cut, hurt, faults>>
<1> DEFINE bound == { s \in all : LinesOf(m, keys[s]) # {} }
<1>1. /\ job = NoJob /\ UNCHANGED <<keys, cut, hurt, faults>>
      /\ job' = [cmd |-> cmd, mod |-> m, prof |-> p, all |-> all, todo |-> all,
                 bound |-> bound, file |-> NoStation]
  BY DEF Begin
<1>2. bound \in SUBSET Keyed /\ \A s \in all : s \in bound <=> LinesOf(m, keys[s]) # {}
  OBVIOUS
<1> HIDE DEF bound
<1>3. job' \in Jobs /\ job' # NoJob
  <2>1. job' \in Jobs
    BY <1>1, <1>2 DEF Jobs
  <2> QED  BY <2>1, NoJobAssumption
<1>4. JobFits(job')
  BY <1>1, <1>2 DEF JobFits
<1>5. JobInv'
  BY <1>1, <1>2, <1>3, <1>4 DEF JobInv
<1>6. CommandsDo'
  BY <1>1, <1>3 DEF CommandsDo
<1> QED  BY <1>1, <1>3, <1>5, <1>6

\* With no command running every profile that is named exists, or was cut.
LEMMA IdleResolves ==
    ASSUME IInv, job = NoJob, NEW s \in Keyed, NEW l \in keys[s], HasProfile(l)
    PROVE  File(l) \in profiles \cup cut
  BY DEF IInv, BindingsResolve

LEMMA CommandInv ==
    ASSUME IInv, Command
    PROVE  IInv'
<1> USE DEF IInv
<1>0. PICK m \in Managed :
        \/ \E p \in Profiles : DeleteProfile(m, p)
        \/ \E s \in Stations : DeleteBinding(m, s)
        \/ \E sel \in Selectors :
              \/ SetModule(m, sel) \/ RemoveModule(m, sel)
              \/ \E p \in Profiles : SetProfile(m, p, sel) \/ RemoveProfile(m, p, sel)
        \/ RemoveBindingDir(m)
  BY DEF Command
<1>m. m \in Modules
  BY ManagedAssumption
<1>p. \A p \in Profiles : p # NoProfile
  BY NullAssumption
<1>s. \A sel \in Selectors : Selected(sel) \in SUBSET Keyed
  BY DEF Selected
<1>c. ASSUME JobInv', CommandsDo', job' \in Jobs, UNCHANGED <<keys, cut, hurt, faults>>,
             profiles' \subseteq Pairs, locals' \subseteq Modules \X Stations,
             BindingsResolve'
      PROVE  IInv'
  BY <1>c DEF TypeOK
<1>1. ASSUME NEW p \in Profiles, DeleteProfile(m, p) PROVE IInv'
  <2>1. /\ profiles' = profiles \ {<<m, p>>} /\ UNCHANGED locals
        /\ Begin("delete profile", m, p, Keyed)
    BY <1>1 DEF DeleteProfile
  <2>2. /\ job = NoJob /\ job' \in Jobs /\ job' # NoJob /\ JobInv' /\ CommandsDo'
        /\ job'.cmd = "delete profile" /\ job'.mod = m /\ job'.prof = p /\ job'.todo = Keyed
        /\ UNCHANGED <<keys, cut, hurt, faults>>
    <3>1. p # NoProfile /\ "delete profile" \in Commands
      BY <1>p DEF Commands
    <3> QED  BY <2>1, <1>m, <3>1, Begun
  <2>3. Doomed(job') = {<<m, p>>}
    BY <2>2 DEF Doomed
  <2>4. BindingsResolve'
    BY <2>1, <2>2, <2>3, IdleResolves DEF BindingsResolve
  <2> QED  BY <2>1, <2>2, <2>4, <1>c DEF TypeOK
<1>2. ASSUME NEW s \in Stations, DeleteBinding(m, s) PROVE IInv'
  <2>1. /\ locals' = locals \ {<<m, s>>} /\ UNCHANGED profiles
        /\ Begin("delete binding", m, NoProfile, {s} \cap Keyed)
    BY <1>2 DEF DeleteBinding
  <2>2. /\ job = NoJob /\ job' \in Jobs /\ JobInv' /\ CommandsDo'
        /\ UNCHANGED <<keys, cut, hurt, faults>>
    <3>1. /\ NoProfile \notin Profiles /\ "delete binding" \in Commands
          /\ {s} \cap Keyed \in SUBSET Keyed
      BY NullAssumption DEF Commands
    <3> QED  BY <2>1, <1>m, <3>1, Begun
  <2>3. BindingsResolve'
    BY <2>1, <2>2, IdleResolves DEF BindingsResolve
  <2> QED  BY <2>1, <2>2, <2>3, <1>c DEF TypeOK
<1>3. ASSUME NEW cmd \in {"set module", "remove module"}, NEW sel \in Selectors,
             Begin(cmd, m, NoProfile, Selected(sel)), UNCHANGED <<profiles, locals>>
      PROVE  IInv'
  <2>1. Selected(sel) \in SUBSET Keyed
    BY <1>s
  <2>2. /\ job = NoJob /\ job' \in Jobs /\ JobInv' /\ CommandsDo'
        /\ UNCHANGED <<keys, cut, hurt, faults>>
    BY <1>3, <2>1, <1>m, NullAssumption, Begun DEF Commands
  <2>3. BindingsResolve'
    BY <1>3, <2>2, IdleResolves DEF BindingsResolve
  <2> QED  BY <1>3, <2>2, <2>3, <1>c DEF TypeOK
<1>4. ASSUME NEW cmd \in {"set profile", "remove profile"}, NEW sel \in Selectors,
             NEW p \in Profiles, Begin(cmd, m, p, Selected(sel)),
             cmd = "set profile" => <<m, p>> \in profiles, UNCHANGED <<profiles, locals>>
      PROVE  IInv'
  <2>1. Selected(sel) \in SUBSET Keyed
    BY <1>s
  <2>2. /\ job = NoJob /\ job' \in Jobs /\ JobInv' /\ CommandsDo'
        /\ UNCHANGED <<keys, cut, hurt, faults>>
    BY <1>4, <2>1, <1>m, <1>p, Begun DEF Commands
  <2>3. BindingsResolve'
    BY <1>4, <2>2, IdleResolves DEF BindingsResolve
  <2> QED  BY <1>4, <2>2, <2>3, <1>c DEF TypeOK
<1>5. ASSUME RemoveBindingDir(m) PROVE IInv'
  <2>1. /\ profiles' = { q \in profiles : q[1] # m } /\ locals' = { q \in locals : q[1] # m }
        /\ Begin("alias remove", m, NoProfile, {})
    BY <1>5 DEF RemoveBindingDir
  <2>2. /\ job = NoJob /\ job' \in Jobs /\ job' # NoJob /\ JobInv' /\ CommandsDo'
        /\ job'.cmd = "alias remove" /\ job'.mod = m
        /\ UNCHANGED <<keys, cut, hurt, faults>>
    <3>1. NoProfile \notin Profiles /\ "alias remove" \in Commands /\ {} \in SUBSET Keyed
      BY NullAssumption DEF Commands
    <3> QED  BY <2>1, <1>m, <3>1, Begun
  <2>3. Doomed(job') = {m} \X Profiles
    BY <2>2 DEF Doomed
  <2>4. \A q \in profiles : q \in profiles' \/ q \in {m} \X Profiles
    BY <2>1 DEF TypeOK, Pairs
  <2>5. BindingsResolve'
    BY <2>2, <2>3, <2>4, IdleResolves DEF BindingsResolve
  <2> QED  BY <2>1, <2>2, <2>5, <1>c DEF TypeOK
<1> QED  BY <1>0, <1>1, <1>2, <1>3, <1>4, <1>5
        DEF SetModule, RemoveModule, SetProfile, RemoveProfile

\* A station has been visited: its file is edited, or, after a fault, damaged.
LEMMA VisitResolves ==
    ASSUME IInv, job # NoJob, NEW s \in Keyed, NEW lines \in SUBSET Lines,
           lines \subseteq Edited(job, keys[s]) \/ lines = keys[s],
           NEW l \in lines, HasProfile(l)
    PROVE  File(l) \in profiles \cup cut \/ File(l) \in Doomed(job)
<1>1. job \in Jobs /\ keys[s] \in SUBSET Lines /\ JobFits(job)
  BY DEF IInv, TypeOK, JobInv
<1>2. CASE l \in keys[s]
  BY <1>2 DEF IInv, BindingsResolve
<1>3. CASE l \in Edited(job, keys[s])
  <2>1. l \in keys[s] \/ (job.cmd = "set profile" /\ File(l) = <<job.mod, job.prof>>)
    BY <1>1, <1>3, EditedProfiles
  <2>2. job.cmd = "set profile" => <<job.mod, job.prof>> \in profiles
    BY DEF IInv, JobInv
  <2> QED  BY <2>1, <2>2, <1>2
<1> QED  BY <1>2, <1>3

\* A station that was visited without a fault is as the help says.
LEMMA VisitPromise ==
    ASSUME IInv, job # NoJob, NEW s \in job.todo, job.file = NoStation,
           keys' \in [Keyed -> SUBSET Lines], keys'[s] = Edited(job, keys[s]),
           UNCHANGED locals, job'.cmd = job.cmd, job'.mod = job.mod, job'.prof = job.prof,
           job'.bound = job.bound,
           job.cmd = "remove module" => job'.file = s \/ LinesOf(job.mod, keys[s]) = {}
    PROVE  Promise(job, s)'
<1> DEFINE own == LinesOf(job.mod, keys[s])
<1>1. /\ job \in Jobs /\ keys[s] \in SUBSET Lines /\ s \in Keyed /\ JobFits(job)
      /\ s \in job.bound <=> own # {}
  BY DEF IInv, TypeOK, JobInv, Jobs
<1>2. own \in SUBSET Lines /\ \A l \in own : l.mod = job.mod
  BY <1>1 DEF LinesOf
<1>3. LinesOf(job.mod, keys'[s]) = Own(job, own)
  <2>1. LinesOf(job.mod, Edited(job, keys[s])) = Own(job, LinesOf(job.mod, keys[s]))
    BY <1>1, EditedLines
  <2> QED  BY <2>1
<1> HIDE DEF own
<1>4. /\ job.cmd \in {"set profile", "set module"} => Own(job, own) = {Line(job.mod, job.prof)}
      /\ job.cmd = "remove module" => Own(job, own) = {}
      /\ job.cmd \in {"delete profile", "delete binding", "remove profile"} =>
            Line(job.mod, job.prof) \notin Own(job, own)
  BY <1>1, <1>2, EditedPromise
<1>5. job.cmd # "alias remove"
  BY <1>1 DEF JobFits
<1>6. s \in job'.bound /\ job'.file # s => job.cmd # "remove module"
  BY <1>1 DEF own
<1> QED  BY <1>1, <1>3, <1>4, <1>5, <1>6 DEF Promise, Jobs, Commands

\* A station that was visited before is not touched.
LEMMA OthersPromise ==
    ASSUME IInv, job # NoJob, NEW s \in (job.all \ job.todo) \ hurt,
           keys'[s] = keys[s], UNCHANGED locals, job.file = NoStation,
           job'.cmd = job.cmd, job'.mod = job.mod, job'.prof = job.prof, job'.bound = job.bound
    PROVE  Promise(job, s)'
<1>1. Promise(job, s)
  BY DEF IInv, CommandsDo
<1>2. s # NoStation
  BY KeyedAssumption DEF IInv, TypeOK, Jobs
<1> QED  BY <1>1, <1>2 DEF Promise

LEMMA SkipInv ==
    ASSUME IInv, NEW s \in Keyed, Skip(s)
    PROVE  IInv'
<1>1. /\ job # NoJob /\ job.file = NoStation /\ s \in job.todo
      /\ job' = [job EXCEPT !.todo = @ \ {s}]
      /\ UNCHANGED <<keys, profiles, locals, cut, hurt, faults>>
  BY DEF Skip
<1>2. /\ Edited(job, keys[s]) = keys[s]
      /\ job.cmd # "set module" \/ s \notin job.bound
  BY DEF Skip, Modified
<1>3. /\ job \in Jobs /\ JobFits(job) /\ keys[s] \in SUBSET Lines /\ TypeOK
  BY <1>1 DEF IInv, TypeOK, JobInv
<1>4. /\ job' \in Jobs /\ job' # NoJob /\ JobFits(job')
      /\ job'.cmd = job.cmd /\ job'.mod = job.mod /\ job'.prof = job.prof
      /\ job'.all = job.all /\ job'.todo = job.todo \ {s} /\ job'.bound = job.bound
      /\ job'.file = NoStation
  <2>1. job' \in Jobs
    BY <1>1, <1>3 DEF Jobs
  <2>2. job' # NoJob
    BY <2>1, NoJobAssumption
  <2>3. /\ job'.cmd = job.cmd /\ job'.mod = job.mod /\ job'.prof = job.prof
        /\ job'.all = job.all /\ job'.todo = job.todo \ {s} /\ job'.bound = job.bound
        /\ job'.file = NoStation
    BY <1>1, <1>3 DEF Jobs
  <2> QED  BY <2>1, <2>2, <2>3, <1>3 DEF JobFits
<1>5. TypeOK'
  BY <1>1, <1>3, <1>4 DEF TypeOK
<1>6. JobInv'
  <2>1. /\ job.cmd = "set profile" => <<job.mod, job.prof>> \in profiles
        /\ \A t \in job.todo : t \in job.bound <=> LinesOf(job.mod, keys[t]) # {}
    BY <1>1 DEF IInv, JobInv
  <2>2. \A t \in job'.todo : t \in job'.bound <=> LinesOf(job'.mod, keys'[t]) # {}
    BY <2>1, <1>1, <1>4
  <2>3. job'.cmd = "set profile" => <<job'.mod, job'.prof>> \in profiles'
    <3>1. profiles' = profiles
      BY <1>1
    <3>2. job'.cmd = job.cmd /\ <<job'.mod, job'.prof>> = <<job.mod, job.prof>>
      BY <1>4
    <3> QED  BY <2>1, <3>1, <3>2
  <2>4. job'.file = NoStation /\ JobFits(job')
    BY <1>4
  <2> QED  BY <2>2, <2>3, <2>4 DEF JobInv
<1>7. Doomed(job') = Doomed(job)
  BY <1>4 DEF Doomed
<1>8. ASSUME NEW l \in keys[s], HasProfile(l) PROVE File(l) \in profiles \cup cut
  <2>1. File(l) \in profiles \cup cut \/ File(l) \in Doomed(job)
    BY <1>1, <1>3, <1>8, VisitResolves
  <2>2. File(l) \notin Doomed(job)
    BY <1>2, <1>3, EditedProfiles
  <2> QED  BY <2>1, <2>2
<1>9. BindingsResolve'
  BY <1>1, <1>4, <1>7, <1>8 DEF IInv, BindingsResolve
<1>10. job.cmd = "remove module" => LinesOf(job.mod, keys[s]) = {}
  <2>1. LinesOf(job.mod, Edited(job, keys[s])) = Own(job, LinesOf(job.mod, keys[s]))
    BY <1>3, EditedLines
  <2>2. job.cmd = "remove module" => Own(job, LinesOf(job.mod, keys[s])) = {}
    BY DEF Own
  <2> QED  BY <2>1, <2>2, <1>2
<1>11. CommandsDo'
  <2>1. Promise(job, s)'
    BY <1>1, <1>2, <1>3, <1>4, <1>10, VisitPromise DEF TypeOK
  <2>2. ASSUME NEW t \in (job.all \ job.todo) \ hurt PROVE Promise(job, t)'
    BY <1>1, <1>4, OthersPromise
  <2> QED  BY <2>1, <2>2, <1>1, <1>4 DEF CommandsDo
<1> QED  BY <1>5, <1>6, <1>9, <1>11 DEF IInv

\* What Visited makes of the command.
LEMMA VisitedJob ==
    ASSUME IInv, NEW s \in Keyed, Visiting(s), Visited(s)
    PROVE  /\ job' \in Jobs /\ job' # NoJob /\ JobFits(job')
           /\ job'.cmd = job.cmd /\ job'.mod = job.mod /\ job'.prof = job.prof
           /\ job'.all = job.all /\ job'.todo = job.todo \ {s} /\ job'.bound = job.bound
           /\ job'.file = (IF job.cmd = "remove module" THEN s ELSE NoStation)
           /\ s \in job.all /\ Doomed(job') = Doomed(job)
<1>1. /\ job \in Jobs /\ JobFits(job) /\ s \in job.todo
      /\ job' = [job EXCEPT !.todo = @ \ {s},
                            !.file = IF job.cmd = "remove module" THEN s ELSE NoStation]
  BY DEF IInv, TypeOK, JobInv, Visiting, Visited
<1>2. job' \in Jobs
  BY <1>1 DEF Jobs
<1>3. job' # NoJob
  BY <1>2, NoJobAssumption
<1>4. /\ job'.cmd = job.cmd /\ job'.mod = job.mod /\ job'.prof = job.prof
      /\ job'.all = job.all /\ job'.todo = job.todo \ {s} /\ job'.bound = job.bound
      /\ job'.file = (IF job.cmd = "remove module" THEN s ELSE NoStation)
  BY <1>1 DEF Jobs
<1> QED  BY <1>1, <1>2, <1>3, <1>4 DEF JobFits, Doomed

\* A visit that ends as a step of the command: whatever the file holds then, the
\* fields of the command fit and the stations visited before keep their promise.
LEMMA VisitInv ==
    ASSUME IInv, NEW s \in Keyed, Visiting(s), Visited(s),
           NEW lines \in SUBSET Lines, keys' = [keys EXCEPT ![s] = lines],
           lines \subseteq Edited(job, keys[s]) \/ lines = keys[s],
           UNCHANGED <<profiles, locals>>
    PROVE  /\ job' \in Jobs /\ keys' \in [Keyed -> SUBSET Lines] /\ JobInv'
           /\ \A t \in (job'.all \ job'.todo) \ hurt : t # s => Promise(job, t)'
           /\ \A t \in Keyed : \A l \in keys'[t] : HasProfile(l) =>
                \/ File(l) \in profiles \cup cut
                \/ t \in job'.todo /\ File(l) \in Doomed(job')
                \/ t = s /\ l \in lines /\ File(l) \in Doomed(job)
<1>1. /\ job' \in Jobs /\ job' # NoJob /\ JobFits(job')
      /\ job'.cmd = job.cmd /\ job'.mod = job.mod /\ job'.prof = job.prof
      /\ job'.all = job.all /\ job'.todo = job.todo \ {s} /\ job'.bound = job.bound
      /\ job'.file = (IF job.cmd = "remove module" THEN s ELSE NoStation)
      /\ s \in job.all /\ Doomed(job') = Doomed(job)
  BY VisitedJob
<1>2. /\ keys \in [Keyed -> SUBSET Lines] /\ job.all \subseteq Keyed /\ job.todo \subseteq Keyed
      /\ job # NoJob /\ job.file = NoStation /\ job \in Jobs /\ JobFits(job)
  BY DEF IInv, TypeOK, JobInv, Visiting, Jobs
<1>3. /\ keys' \in [Keyed -> SUBSET Lines] /\ keys'[s] = lines
      /\ \A t \in Keyed : t # s => keys'[t] = keys[t]
  BY <1>2
<1>4. JobInv'
  <2>1. /\ job.cmd = "set profile" => <<job.mod, job.prof>> \in profiles
        /\ \A t \in job.todo : t \in job.bound <=> LinesOf(job.mod, keys[t]) # {}
    BY <1>2 DEF IInv, JobInv
  <2>2. \A t \in job'.todo : t \in job'.bound <=> LinesOf(job'.mod, keys'[t]) # {}
    BY <2>1, <1>1, <1>2, <1>3
  <2>3. job'.cmd = "set profile" => <<job'.mod, job'.prof>> \in profiles'
    <3>1. job'.cmd = job.cmd /\ <<job'.mod, job'.prof>> = <<job.mod, job.prof>>
      BY <1>1
    <3> QED  BY <2>1, <3>1
  <2>4. job'.file # NoStation => job'.file \in job'.all \ job'.todo
    BY <1>1
  <2> QED  BY <1>1, <2>2, <2>3, <2>4 DEF JobInv
<1>5. ASSUME NEW t \in (job'.all \ job'.todo) \ hurt, t # s PROVE Promise(job, t)'
  <2>1. t \in (job.all \ job.todo) \ hurt /\ keys'[t] = keys[t]
    BY <1>1, <1>2, <1>3, <1>5
  <2> QED  BY <2>1, <1>1, <1>2, OthersPromise
<1>6. ASSUME NEW t \in Keyed, NEW l \in keys'[t], HasProfile(l)
      PROVE  \/ File(l) \in profiles \cup cut
             \/ t \in job'.todo /\ File(l) \in Doomed(job')
             \/ t = s /\ l \in lines /\ File(l) \in Doomed(job)
  <2>1. CASE t = s
    BY <2>1, <1>2, <1>3, <1>6, VisitResolves
  <2>2. CASE t # s
    <3>1. l \in keys[t]
      BY <2>2, <1>3
    <3>2. \/ File(l) \in profiles \cup cut
          \/ t \in job.todo /\ File(l) \in Doomed(job)
          \/ job.cmd = "alias remove"
      BY <3>1, <1>6 DEF IInv, BindingsResolve
    <3>3. job.cmd # "alias remove"
      BY <1>1, <1>2 DEF JobFits
    <3> QED  BY <3>2, <3>3, <2>2, <1>1
  <2> QED  BY <2>1, <2>2
<1> QED  BY <1>1, <1>3, <1>4, <1>5, <1>6

LEMMA WriteInv ==
    ASSUME IInv, NEW s \in Keyed, Write(s)
    PROVE  IInv'
<1> DEFINE lines == Edited(job, keys[s])
<1>1. /\ Visiting(s) /\ Visited(s) /\ keys' = [keys EXCEPT ![s] = lines]
      /\ UNCHANGED <<profiles, locals, cut, hurt, faults>>
  BY DEF Write
<1>2. /\ job # NoJob /\ job \in Jobs /\ JobFits(job) /\ keys \in [Keyed -> SUBSET Lines]
      /\ job.file = NoStation /\ s \in job.todo
  BY <1>1 DEF IInv, TypeOK, JobInv, Visiting
<1>3. lines \in SUBSET Lines
  BY <1>2, EditedType
<1>4. \A l \in lines : File(l) \notin Doomed(job)
  BY <1>2, EditedProfiles
<1>5. keys'[s] = lines
  BY <1>1, <1>2
<1> HIDE DEF lines
<1>6. /\ job' \in Jobs /\ keys' \in [Keyed -> SUBSET Lines] /\ JobInv'
      /\ \A t \in (job'.all \ job'.todo) \ hurt : t # s => Promise(job, t)'
      /\ \A t \in Keyed : \A l \in keys'[t] : HasProfile(l) =>
           \/ File(l) \in profiles \cup cut
           \/ t \in job'.todo /\ File(l) \in Doomed(job')
           \/ t = s /\ l \in lines /\ File(l) \in Doomed(job)
  <2>1. lines \subseteq Edited(job, keys[s]) \/ lines = keys[s]
    BY DEF lines
  <2> QED  BY <1>1, <1>3, <2>1, VisitInv
<1>7. /\ job' # NoJob /\ job'.cmd = job.cmd /\ job'.mod = job.mod /\ job'.prof = job.prof
      /\ job'.bound = job.bound
      /\ job'.file = (IF job.cmd = "remove module" THEN s ELSE NoStation)
  BY <1>1, VisitedJob
<1>8. Promise(job, s)'
  BY <1>1, <1>2, <1>5, <1>6, <1>7, VisitPromise DEF lines
<1>9. BindingsResolve'
  BY <1>1, <1>4, <1>6, <1>7 DEF BindingsResolve
<1>10. CommandsDo'
  BY <1>1, <1>6, <1>8 DEF CommandsDo
<1>11. TypeOK'
  BY <1>1, <1>6 DEF IInv, TypeOK
<1> QED  BY <1>6, <1>9, <1>10, <1>11 DEF IInv

\* A failed write leaves a part of the edited file, or the old one.
LEMMA DamageType ==
    ASSUME IInv, NEW s \in Keyed, Visiting(s), Damage(s)
    PROVE  \E lines \in SUBSET Lines :
              /\ keys' = [keys EXCEPT ![s] = lines]
              /\ lines \subseteq Edited(job, keys[s]) \/ lines = keys[s]
<1>1. job \in Jobs /\ keys[s] \in SUBSET Lines
  BY DEF IInv, TypeOK, Visiting
<1>2. Edited(job, keys[s]) \in SUBSET Lines
  BY <1>1, EditedType
<1> QED  BY <1>1, <1>2 DEF Damage

LEMMA DoomedPairs ==
    ASSUME IInv, job # NoJob
    PROVE  Doomed(job) \subseteq Pairs
<1>1. job \in Jobs /\ JobFits(job)
  BY DEF IInv, TypeOK, JobInv
<1> QED  BY <1>1, DoomedType DEF JobFits

LEMMA FaultType ==
    ASSUME TypeOK, Fault
    PROVE  faults' \in 0..MaxFaults
  BY FaultsAssumption DEF TypeOK, Fault

LEMMA WriteFailsInv ==
    ASSUME IInv, NEW s \in Keyed, WriteFails(s)
    PROVE  IInv'
<1>1. /\ Fault /\ Visiting(s) /\ Damage(s) /\ Visited(s)
      /\ cut' = cut \cup (Doomed(job) \ profiles) /\ hurt' = hurt \cup {s}
      /\ UNCHANGED <<profiles, locals>>
  BY DEF WriteFails
<1>2. PICK lines \in SUBSET Lines :
        /\ keys' = [keys EXCEPT ![s] = lines]
        /\ lines \subseteq Edited(job, keys[s]) \/ lines = keys[s]
  BY <1>1, DamageType
<1>3. /\ job' \in Jobs /\ keys' \in [Keyed -> SUBSET Lines] /\ JobInv'
      /\ \A t \in (job'.all \ job'.todo) \ hurt : t # s => Promise(job, t)'
      /\ \A t \in Keyed : \A l \in keys'[t] : HasProfile(l) =>
           \/ File(l) \in profiles \cup cut
           \/ t \in job'.todo /\ File(l) \in Doomed(job')
           \/ t = s /\ l \in lines /\ File(l) \in Doomed(job)
  BY <1>1, <1>2, VisitInv
<1>4. job' # NoJob
  BY <1>1, VisitedJob
<1>5. BindingsResolve'
  BY <1>1, <1>3, <1>4 DEF BindingsResolve
<1>6. CommandsDo'
  BY <1>1, <1>3 DEF CommandsDo
<1>7. TypeOK'
  <2>1. job # NoJob
    BY <1>1 DEF Visiting
  <2>2. Doomed(job) \subseteq Pairs
    BY <2>1, DoomedPairs
  <2> QED  BY <1>1, <1>3, <2>2, FaultType DEF IInv, TypeOK
<1> QED  BY <1>3, <1>5, <1>6, <1>7 DEF IInv

LEMMA RemoveFileInv ==
    ASSUME IInv, RemoveFile
    PROVE  IInv'
<1>1. /\ job # NoJob /\ job.file # NoStation
      /\ locals' = locals \ {<<job.mod, job.file>>}
      /\ job' = [job EXCEPT !.file = NoStation]
      /\ UNCHANGED <<keys, profiles, cut, hurt, faults>>
  BY DEF RemoveFile
<1>2. job \in Jobs /\ JobFits(job)
  BY <1>1 DEF IInv, TypeOK, JobInv
<1>3. job' \in Jobs /\ job' # NoJob
  <2>1. job' \in Jobs
    BY <1>1, <1>2 DEF Jobs
  <2> QED  BY <2>1, NoJobAssumption
<1>4. /\ job'.cmd = job.cmd /\ job'.mod = job.mod /\ job'.prof = job.prof
      /\ job'.all = job.all /\ job'.todo = job.todo /\ job'.bound = job.bound
      /\ job'.file = NoStation
  BY <1>1, <1>2 DEF Jobs
<1>5. JobFits(job') /\ Doomed(job') = Doomed(job)
  BY <1>2, <1>4 DEF JobFits, Doomed
<1>6. JobInv'
  <2>1. /\ job.cmd = "remove module"
        /\ \A t \in job.todo : t \in job.bound <=> LinesOf(job.mod, keys[t]) # {}
    BY <1>1, <1>2 DEF IInv, JobInv, JobFits
  <2>2. \A t \in job'.todo : t \in job'.bound <=> LinesOf(job'.mod, keys'[t]) # {}
    BY <2>1, <1>1, <1>4
  <2>3. job'.cmd # "set profile"
    BY <2>1, <1>4
  <2> QED  BY <2>2, <2>3, <1>4, <1>5 DEF JobInv
<1>7. BindingsResolve'
  BY <1>1, <1>3, <1>4, <1>5 DEF IInv, BindingsResolve
<1>8. CommandsDo'
  <2>1. ASSUME NEW t \in (job.all \ job.todo) \ hurt PROVE Promise(job, t)'
    <3>1. Promise(job, t)
      BY <1>1 DEF IInv, CommandsDo
    <3>2. job.cmd = "remove module"
      BY <1>1, <1>2 DEF JobFits
    <3>3. LinesOf(job.mod, keys[t]) = {} /\ (t \in job.bound /\ job.file # t => <<job.mod, t>> \notin locals)
      BY <3>1, <3>2 DEF Promise
    <3>4. t \in job.bound => <<job.mod, t>> \notin locals'
      BY <3>3, <1>1
    <3> QED  BY <3>2, <3>3, <3>4, <1>1, <1>4 DEF Promise
  <2> QED  BY <2>1, <1>1, <1>4 DEF CommandsDo
<1>9. TypeOK'
  BY <1>1, <1>3 DEF IInv, TypeOK
<1> QED  BY <1>6, <1>7, <1>8, <1>9 DEF IInv

LEMMA UnaliasInv ==
    ASSUME IInv, Unalias
    PROVE  IInv'
<1>1. /\ job # NoJob /\ job.cmd = "alias remove"
      /\ UNCHANGED <<keys, profiles, locals, hurt, faults>>
  BY DEF Unalias
<1>2. job \in Jobs /\ JobFits(job) /\ Doomed(job) \subseteq Pairs
  BY <1>1, DoomedPairs DEF IInv, TypeOK, JobInv
<1>3. CASE job' = NoJob /\ cut' = cut \cup (Doomed(job) \ profiles)
  <2>1. BindingsResolve'
    BY <1>1, <1>2, <1>3 DEF IInv, BindingsResolve, JobFits
  <2>2. TypeOK'
    BY <1>1, <1>2, <1>3 DEF IInv, TypeOK
  <2> QED  BY <1>3, <2>1, <2>2 DEF IInv, JobInv, CommandsDo
<1>4. ASSUME UNCHANGED cut,
             job' = [job EXCEPT !.cmd = "remove module", !.all = Keyed, !.todo = Keyed,
                                !.bound = { s \in Keyed : LinesOf(job.mod, keys[s]) # {} }]
      PROVE  IInv'
  <2>1. job.file = NoStation /\ job.prof \notin Profiles
    BY <1>1, <1>2 DEF JobFits
  <2>2. job' \in Jobs /\ job' # NoJob
    <3>1. job' \in Jobs
      BY <1>2, <1>4 DEF Jobs, Commands
    <3> QED  BY <3>1, NoJobAssumption
  <2>3. /\ job'.cmd = "remove module" /\ job'.mod = job.mod /\ job'.prof = job.prof
        /\ job'.all = Keyed /\ job'.todo = Keyed /\ job'.file = NoStation
        /\ job'.bound = { s \in Keyed : LinesOf(job.mod, keys[s]) # {} }
    BY <1>2, <1>4, <2>1 DEF Jobs
  <2>4. JobInv'
    <3>1. JobFits(job')
      BY <2>1, <2>3 DEF JobFits
    <3>2. \A s \in job'.todo : s \in job'.bound <=> LinesOf(job'.mod, keys'[s]) # {}
      BY <2>3, <1>1
    <3>3. job'.cmd # "set profile" /\ job'.file = NoStation
      BY <2>3
    <3> QED  BY <3>1, <3>2, <3>3 DEF JobInv
  <2>5. Doomed(job') = Doomed(job)
    BY <1>1, <2>3 DEF Doomed
  <2>6. BindingsResolve'
    BY <1>1, <1>4, <2>2, <2>3, <2>5 DEF IInv, BindingsResolve
  <2>7. CommandsDo'
    BY <2>3 DEF CommandsDo
  <2>8. TypeOK'
    BY <1>1, <1>4, <2>2 DEF IInv, TypeOK
  <2> QED  BY <2>4, <2>6, <2>7, <2>8 DEF IInv
<1> QED  BY <1>3, <1>4 DEF Unalias

LEMMA ReturnInv ==
    ASSUME IInv, Return
    PROVE  IInv'
<1>1. /\ job # NoJob /\ job.cmd # "alias remove" /\ job.todo = {} /\ job' = NoJob
      /\ UNCHANGED <<keys, profiles, locals, cut, hurt, faults>>
  BY DEF Return
<1>2. BindingsResolve'
  BY <1>1 DEF IInv, BindingsResolve
<1> QED  BY <1>1, <1>2 DEF IInv, TypeOK, JobInv, CommandsDo

LEMMA KillInv ==
    ASSUME IInv, Kill
    PROVE  IInv'
<1>1. /\ Fault /\ job # NoJob /\ job' = NoJob /\ cut' = cut \cup (Doomed(job) \ profiles)
      /\ UNCHANGED <<profiles, locals>>
  BY DEF Kill
<1>2. job \in Jobs /\ Doomed(job) \subseteq Pairs /\ faults' \in 0..MaxFaults
  BY <1>1, DoomedPairs, FaultType DEF IInv, TypeOK
<1>3. \A p \in Doomed(job) : p \in profiles \cup cut'
  BY <1>1
<1>4. JobInv' /\ CommandsDo'
  BY <1>1 DEF JobInv, CommandsDo
<1>5. CASE UNCHANGED <<keys, hurt>>
  <2>1. BindingsResolve'
    BY <1>1, <1>3, <1>5 DEF IInv, BindingsResolve
  <2>2. TypeOK'
    BY <1>1, <1>2, <1>5 DEF IInv, TypeOK
  <2> QED  BY <1>4, <2>1, <2>2 DEF IInv
<1>6. ASSUME NEW s \in job.todo, Visiting(s), Damage(s), hurt' = hurt \cup {s}
      PROVE  IInv'
  <2>1. s \in Keyed
    BY <1>2 DEF Jobs
  <2>2. PICK lines \in SUBSET Lines :
          /\ keys' = [keys EXCEPT ![s] = lines]
          /\ lines \subseteq Edited(job, keys[s]) \/ lines = keys[s]
    BY <1>6, <2>1, DamageType
  <2>3. /\ keys' \in [Keyed -> SUBSET Lines] /\ keys'[s] = lines
        /\ \A t \in Keyed : t # s => keys'[t] = keys[t]
    BY <2>1, <2>2 DEF IInv, TypeOK
  <2>4. \A l \in lines : HasProfile(l) => File(l) \in profiles \cup cut \/ File(l) \in Doomed(job)
    BY <1>1, <2>1, <2>2, VisitResolves
  <2>5. \A t \in Keyed : \A l \in keys'[t] : HasProfile(l) => File(l) \in profiles \cup cut'
    BY <1>1, <1>3, <2>3, <2>4 DEF IInv, BindingsResolve
  <2>6. BindingsResolve'
    BY <1>1, <2>5 DEF BindingsResolve
  <2>7. TypeOK'
    BY <1>1, <1>2, <1>6, <2>1, <2>3 DEF IInv, TypeOK
  <2> QED  BY <1>4, <2>6, <2>7 DEF IInv
<1> QED  BY <1>5, <1>6 DEF Kill

LEMMA AuthorInv ==
    ASSUME IInv, Author
    PROVE  IInv'
<1>1. /\ job = NoJob /\ UNCHANGED <<keys, job, hurt, faults>>
      /\ profiles' \subseteq Pairs /\ locals' \subseteq Modules \X Stations /\ cut' \subseteq Pairs
      /\ profiles \cup cut \subseteq profiles' \cup cut'
  BY ManagedAssumption DEF Author, IInv, TypeOK, Pairs, Stations
<1>2. BindingsResolve'
  BY <1>1 DEF IInv, BindingsResolve
<1> QED  BY <1>1, <1>2 DEF IInv, TypeOK, JobInv, CommandsDo

LEMMA InitInv == Init => IInv
<1> SUFFICES ASSUME Init PROVE IInv
  OBVIOUS
<1>1. /\ keys \in [Keyed -> InitialLines] /\ job = NoJob /\ cut = {} /\ hurt = {} /\ faults = 0
      /\ profiles = { File(l) : l \in { k \in UNION { keys[s] : s \in Keyed } : HasProfile(k) } }
      /\ locals \in SUBSET (Managed \X Keyed)
  BY DEF Init
<1>2. keys \in [Keyed -> SUBSET Lines]
  BY <1>1, InitialAssumption
<1>3. \A s \in Keyed : \A l \in keys[s] : HasProfile(l) => File(l) \in profiles
  BY <1>1
<1>4. profiles \subseteq Pairs
  <2>1. \A l \in UNION { keys[s] : s \in Keyed } : l \in Lines
    BY <1>2
  <2> QED  BY <1>1, <2>1, FileType
<1>5. locals \subseteq Modules \X Stations
  BY <1>1, ManagedAssumption, KeyedAssumption
<1>6. TypeOK
  BY <1>1, <1>2, <1>4, <1>5, FaultsAssumption DEF TypeOK
<1> QED  BY <1>1, <1>3, <1>6 DEF IInv, JobInv, BindingsResolve, CommandsDo

LEMMA NextInv == IInv /\ [Next]_vars => IInv'
<1> SUFFICES ASSUME IInv, [Next]_vars PROVE IInv'
  OBVIOUS
<1>1. CASE Next
  BY <1>1, CommandInv, SkipInv, WriteInv, WriteFailsInv, RemoveFileInv, UnaliasInv,
     ReturnInv, KillInv, AuthorInv DEF Next
<1>2. CASE UNCHANGED vars
  BY <1>2 DEF vars, IInv, TypeOK, JobInv, BindingsResolve, CommandsDo, Promise
<1> QED  BY <1>1, <1>2

\* The invariant of all theorems below.
THEOREM Invariance == Spec => []IInv
<1>1. Init => IInv
  BY InitInv
<1>2. IInv /\ [Next]_vars => IInv'
  BY NextInv
<1> QED  BY <1>1, <1>2, PTL DEF Spec

\* The files, and the command that runs, are of their types.
THEOREM TypeCorrect == Spec => []TypeOK
<1>1. IInv => TypeOK
  BY DEF IInv
<1> QED  BY <1>1, Invariance, PTL

\* shell.py 216-645: a station names only profiles that exist, unless the command that
\* removed the profile still has to visit it or was cut short.
THEOREM NoDanglingProfile == Spec => []BindingsResolve
<1>1. IInv => BindingsResolve
  BY DEF IInv
<1> QED  BY <1>1, Invariance, PTL

\* shell.py 96-160: the commands do what their help says, station by station.
THEOREM HelpIsTrue == Spec => []CommandsDo
<1>1. IInv => CommandsDo
  BY DEF IInv
<1> QED  BY <1>1, Invariance, PTL

\* A step changes at most one file, and only the lines of the module of the command.
LEMMA StepTouches ==
    ASSUME IInv, Next, NEW s \in Keyed \ hurt', keys'[s] # keys[s]
    PROVE  /\ job # NoJob
           /\ { l \in keys'[s] : l.mod # job.mod } = { l \in keys[s] : l.mod # job.mod }
<1>1. keys \in [Keyed -> SUBSET Lines]
  BY DEF IInv, TypeOK
<1>2. ASSUME NEW t \in Keyed, Write(t)
      PROVE  /\ job # NoJob
             /\ { l \in keys'[s] : l.mod # job.mod } = { l \in keys[s] : l.mod # job.mod }
  <2>1. job # NoJob /\ keys' = [keys EXCEPT ![t] = Edited(job, keys[t])]
    BY <1>2 DEF Write, Visiting
  <2>2. s = t /\ keys'[s] = Edited(job, keys[s])
    BY <2>1, <1>1
  <2>3. job \in Jobs
    BY <2>1 DEF IInv, TypeOK
  <2>4. { l \in Edited(job, keys[s]) : l.mod # job.mod } = { l \in keys[s] : l.mod # job.mod }
    BY <2>3, <1>1, EditedLines
  <2> QED  BY <2>1, <2>2, <2>4
<1>3. ASSUME NEW t \in Keyed, Damage(t), hurt' = hurt \cup {t} PROVE FALSE
  BY <1>1, <1>3 DEF Damage
<1>4. Command \/ RemoveFile \/ Unalias \/ Return \/ Author => UNCHANGED keys
  BY DEF Command, DeleteProfile, DeleteBinding, SetProfile, SetModule, RemoveProfile,
         RemoveModule, RemoveBindingDir, Begin, RemoveFile, Unalias, Return, Author
<1>5. CASE Kill
  <2>1. PICK t \in job.todo : Damage(t) /\ hurt' = hurt \cup {t}
    BY <1>5 DEF Kill
  <2>2. job \in Jobs
    BY <1>5 DEF Kill, IInv, TypeOK
  <2>3. t \in Keyed
    BY <2>2 DEF Jobs
  <2> QED  BY <1>3, <2>1, <2>3
<1>6. ASSUME NEW t \in Keyed, Skip(t) \/ WriteFails(t) PROVE FALSE
  BY <1>3, <1>6 DEF Skip, WriteFails
<1> QED  BY <1>2, <1>4, <1>5, <1>6 DEF Next

\* shell.py: every command copies comments and the lines of other modules.
THEOREM OthersKept == Spec => OnlyItsLines
<1>1. IInv /\ [Next]_vars =>
        [ \A s \in Keyed \ hurt' : keys'[s] # keys[s] =>
          /\ job # NoJob
          /\ { l \in keys'[s] : l.mod # job.mod } = { l \in keys[s] : l.mod # job.mod } ]_vars
  BY StepTouches DEF vars
<1> QED  BY <1>1, Invariance, PTL DEF Spec, OnlyItsLines

===================================================================================
