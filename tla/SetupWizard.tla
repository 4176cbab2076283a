------------------------------ MODULE SetupWizard ------------------------------
(***************************************************************************)
(* `seiscomp setup': the wizard of setup.py asks the questions that the    *)
(* descriptions of the modules and of their plugins name, one at a time.   *)
(* A question may have options with questions of their own, which are      *)
(* asked only if the option is chosen.  The user may go back at any time   *)
(* and answer differently.  When the user agrees at the end, the answers   *)
(* are put into a configuration, which the setup handlers of the modules   *)
(* receive one after the other; if none of them fails the file             *)
(* var/run/seiscomp.init is made.                                          *)
(*                                                                         *)
(* What is printed, `.help' and input the wizard rejects are left out:     *)
(* they change nothing.  So is `--stdin', where there is no wizard.        *)
(***************************************************************************)
EXTENDS Integers, Sequences, SequencesExt

CONSTANTS
    Questions, Options,  \* the <input> and the <option> elements
    Kids,                \* the questions of an option, the options of a question
    Boolean,             \* questions of type boolean
    OptionValue,         \* the value of an option
    Texts,               \* what may be typed where there are no options
    Default,             \* the default of a question, or Unset
    Unset, Empty,        \* no value; the empty text
    Names,               \* names of modules with questions, sorted: a sequence
    Args,                \* the modules on the command line; none: all
    OwnInputs, PluginInputs, \* the questions of a module and of its plugins
    Handlers,            \* names of the modules with a setup handler
    Root, None           \* the root of the tree; null

Nodes == {Root} \cup Questions \cup Options
Values == Texts \cup { OptionValue[o] : o \in Options } \cup {"true", "false", Empty}

ASSUME RootAssumption ==
    /\ Root \notin Questions \cup Options /\ None \notin Nodes
    /\ Questions \cap Options = {}
ASSUME KidsAssumption ==
    /\ DOMAIN Kids = Questions \cup Options
    /\ \A q \in Questions : Kids[q] \in Seq(Options)
    /\ \A o \in Options : Kids[o] \in Seq(Questions)
ASSUME InputsAssumption ==
    /\ Names \in Seq(Range(Names))
    /\ OwnInputs \in [Range(Names) -> Seq(Questions)]
    /\ PluginInputs \in [Range(Names) -> Seq(Questions)]
ASSUME DefaultAssumption == Default \in [Questions -> Values \cup {Unset}]
ASSUME ValuesAssumption == \A q \in Questions : \A i, j \in DOMAIN Kids[q] :
    OptionValue[Kids[q][i]] = OptionValue[Kids[q][j]] => i = j

VARIABLES
    phase,      \* "ask", "climb", "setup", "done", "aborted"
    current,    \* the node the wizard is at; None: the menu at the end
    paths,      \* the questions that were answered to get there
    value,      \* the value of each question
    active,     \* activeChild of each node
    cfg,        \* the configuration handed to the handlers
    todo, failed, \* the handlers not yet called; those that returned an error
    statfile    \* seiscomp.init exists

wizard == <<current, paths, value, active>>
result == <<cfg, todo, failed, statfile>>
vars == <<phase, wizard, result>>

TypeOK ==
    /\ phase \in {"ask", "climb", "setup", "done", "aborted"}
    /\ current \in Nodes \cup {None}
    /\ paths \in Seq(Questions)
    /\ value \in [Questions -> Values \cup {Unset}]
    /\ active \in [Nodes -> Nodes \cup {None}]
    /\ cfg \in {None} \cup SUBSET (Nodes \X (Values \cup {Unset}))
    /\ todo \in SUBSET Handlers /\ failed \in SUBSET Handlers
    /\ statfile \in BOOLEAN

-----------------------------------------------------------------------------
(* The tree: nodes linked by parent, next and child *)

Asks(name) == Args = {} \/ name \in Args

\* Only the questions of modules are chosen by the command line: those of plugins
\* are always asked.
Groups(name) == (IF Asks(name) THEN OwnInputs[name] ELSE <<>>) \o PluginInputs[name]
Top == FlattenSeq([i \in DOMAIN Names |-> Groups(Names[i])])

KidsOf == [n \in Nodes |-> IF n = Root THEN Top ELSE Kids[n]]

\* Where the steps lead from a node, itself included: a node is there if it is in
\* every set that holds n and loses no step.
Reach(step, n) ==
    LET closed == { S \in SUBSET DOMAIN step : n \in S /\ \A m \in S : step[m] \subseteq S }
    IN { m \in DOMAIN step : \A S \in closed : m \in S }

\* A node and what is nested within it.
Below == [n \in Nodes |-> Reach([m \in Nodes |-> Range(KidsOf[m])], n)]

\* Each element of the descriptions becomes a node in one place of the tree, and none
\* is nested within itself.
ASSUME TreeAssumption ==
    /\ \A p, q \in Nodes : \A i \in DOMAIN KidsOf[p], j \in DOMAIN KidsOf[q] :
          KidsOf[p][i] = KidsOf[q][j] => p = q /\ i = j
    /\ \A p \in Nodes : \A n \in Range(KidsOf[p]) : p \notin Below[n]

Parent == [n \in UNION { Range(KidsOf[p]) : p \in Nodes } |->
              CHOOSE p \in Nodes : n \in Range(KidsOf[p])]
Child == [n \in Nodes |-> IF KidsOf[n] = <<>> THEN None ELSE KidsOf[n][1]]
NextOf == [n \in DOMAIN Parent \cup {Root} |->
    IF n = Root THEN None
    ELSE LET siblings == KidsOf[Parent[n]]
             i == CHOOSE k \in DOMAIN siblings : siblings[k] = n
         IN IF i = Len(siblings) THEN None ELSE siblings[i + 1]]

IsOption(q) == Kids[q] # <<>>

Init ==
    /\ phase = "ask"
    /\ current = Child[Root]
    /\ paths = <<>>
    /\ value = Default
    /\ active = [n \in Nodes |-> IF n = Root THEN Child[Root] ELSE None]
    /\ cfg = None /\ todo = {} /\ failed = {} /\ statfile = FALSE

-----------------------------------------------------------------------------
(* Asking *)

\* valueToString and back: what an empty input stands for.
Entered(q) ==
    IF q \in Boolean THEN IF value[q] = "false" THEN "false" ELSE "true"
    ELSE IF value[q] = Unset THEN Empty ELSE value[q]

Typed(q) ==
    IF q \in Boolean THEN {"true", "false"}
    ELSE IF IsOption(q) THEN { OptionValue[o] : o \in Range(Kids[q]) }
    ELSE Texts

Chosen(q, v) == { o \in Range(Kids[q]) : OptionValue[o] = v }

\* Mutant: a node keeps its activeChild when an option without questions is chosen.
Mut_NextStep(v) ==
    LET opened == { o \in Chosen(current, v) : Kids[o] # <<>> } IN
    /\ paths' = Append(paths, current)
    /\ \/ \E o \in opened :
            /\ active' = [active EXCEPT ![current] = o]
            /\ current' = Child[o]
            /\ phase' = phase
       \/ /\ opened = {}
          /\ UNCHANGED <<active, current>>
          /\ phase' = "climb"

\* Mutant: the option is put on the path, not its question.
Mut_NextStep_Path(v) ==
    LET opened == { o \in Chosen(current, v) : Kids[o] # <<>> } IN
    \/ \E o \in opened :
         /\ paths' = Append(paths, o)
         /\ active' = [active EXCEPT ![current] = o]
         /\ current' = Child[o]
         /\ phase' = phase
    \/ /\ opened = {}
       /\ paths' = Append(paths, current)
       /\ active' = [active EXCEPT ![current] = None]
       /\ UNCHANGED current
       /\ phase' = "climb"

\* nextStep: into the questions of the option that was chosen, if it has any.
NextStep(v) ==
    LET opened == { o \in Chosen(current, v) : Kids[o] # <<>> } IN
    /\ paths' = Append(paths, current)
    /\ \/ \E o \in opened :
            /\ active' = [active EXCEPT ![current] = o]
            /\ current' = Child[o]
            /\ phase' = phase
       \/ /\ opened = {}
          /\ active' = [active EXCEPT ![current] = None]
          /\ UNCHANGED current
          /\ phase' = "climb"

Answer ==
    /\ phase = "ask" /\ current # None
    /\ \E v \in Typed(current) \cup {Entered(current)} :
          value' = [value EXCEPT ![current] = v] /\ NextStep(v)
    /\ UNCHANGED result

\* Mutant: the next of an option is the next option.
Mut_Climb ==
    /\ phase = "climb"
    /\ IF NextOf[current] # None \/ current = Root
         THEN current' = NextOf[current] /\ phase' = "ask"
         ELSE current' = Parent[current] /\ UNCHANGED phase
    /\ UNCHANGED <<paths, value, active, result>>

\* Mutant: the loop goes up one level only once, from an option it does not.
Mut_ClimbStays ==
    /\ phase = "climb"
    /\ IF current \in Options THEN UNCHANGED <<current, phase>>
       ELSE IF NextOf[current] # None \/ current = Root
              THEN current' = NextOf[current] /\ phase' = "ask"
              ELSE current' = Parent[current] /\ UNCHANGED phase
    /\ UNCHANGED <<paths, value, active, result>>

\* A round of the loop that ends nextStep: to the next question of this node or of
\* one of its ancestors, of which options have no next.
Climb ==
    /\ phase = "climb"
    /\ LET next == IF current \in Options THEN None ELSE NextOf[current] IN
       IF next # None \/ current = Root
         THEN current' = next /\ phase' = "ask"
         ELSE current' = Parent[current] /\ UNCHANGED phase
    /\ UNCHANGED <<paths, value, active, result>>

\* `.back', or B in the menu at the end.
PrevStep ==
    /\ phase = "ask" /\ paths # <<>>
    /\ current' = Last(paths) /\ paths' = Front(paths)
    /\ UNCHANGED <<phase, value, active, result>>

\* `.quit', Q in the menu, or the end of the input.
Quit ==
    /\ phase = "ask"
    /\ phase' = "aborted"
    /\ UNCHANGED <<wizard, result>>

-----------------------------------------------------------------------------
(* The configuration *)

\* dumpTree calls itself for what was chosen, of an option for its first question, and
\* for the next node.
Onward == [n \in DOMAIN NextOf \ Options |->
    { IF active[n] # None /\ n # Root /\ IsOption(n) THEN Child[active[n]] ELSE active[n],
      NextOf[n] } \ {None}]

Dump == { <<q, value[q]>> : q \in Reach(Onward, Root) \ {Root} }

Proceed ==
    /\ phase = "ask" /\ current = None
    /\ phase' = "setup"
    /\ cfg' = Dump
    /\ todo' = { m \in Handlers : Asks(m) }
    /\ UNCHANGED <<wizard, failed, statfile>>

\* A handler returns, with or without an error, or raises an exception, which ends
\* the command.
Setup(m) ==
    /\ phase = "setup" /\ m \in todo
    /\ \/ todo' = todo \ {m} /\ failed' \in {failed, failed \cup {m}} /\ UNCHANGED phase
       \/ phase' = "aborted" /\ UNCHANGED <<todo, failed>>
    /\ UNCHANGED <<wizard, cfg, statfile>>

\* The file may fail to be made; that is no error.
Finish ==
    /\ phase = "setup" /\ todo = {}
    /\ phase' = "done"
    /\ statfile' \in (IF failed = {} THEN BOOLEAN ELSE {statfile})
    /\ UNCHANGED <<wizard, cfg, todo, failed>>

Goes == Answer \/ Climb \/ Proceed \/ (\E m \in Handlers : Setup(m)) \/ Finish

Next == Goes \/ PrevStep \/ Quit

Spec == Init /\ [][Next]_vars

\* The loops of the program go on, and the user answers.
FairSpec == Spec /\ WF_vars(Goes)

-----------------------------------------------------------------------------
(* Properties *)

\* The questions that count: each question above has the value of the option that
\* leads to it.
Called == { q \in Questions \cap Below[Root] :
    \A p \in Questions : \A o \in Range(Kids[p]) :
        q \in Below[o] => value[p] = OptionValue[o] }

Answers == { <<q, value[q]>> : q \in Called }

\* The order of the descriptions: a node comes before what is nested within it, and
\* with all of that before the next node.
Precedes(m, n) ==
    \/ m # n /\ n \in Below[m]
    \/ \E p \in Nodes : \E i, j \in DOMAIN KidsOf[p] :
          i < j /\ m \in Below[KidsOf[p][i]] /\ n \in Below[KidsOf[p][j]]

Asked == IF current = None THEN paths ELSE Append(paths, current)

\* However often the user went back: each question answered to get here, and the one
\* asked now, counts, and was asked after all questions that count and come before it,
\* and no others; in the menu at the end no question that counts is left.
AskedInOrder ==
    phase = "ask" =>
        /\ \A i \in DOMAIN Asked :
              /\ Asked[i] \in Called
              /\ { Asked[j] : j \in 1..(i - 1) } = { q \in Called : Precedes(q, Asked[i]) }
        /\ current = None => Range(paths) = Called

\* The handlers get, and the menu shows, the last answer to each question that counts,
\* and nothing of the options that were given up on the way.
DumpedAsAnswered ==
    /\ phase = "ask" /\ current = None => Dump = Answers
    /\ cfg # None => cfg = Answers

\* The wizard comes to an end if the user does not go back for ever: from each question
\* it gets to the next, and out of each option.
EndsUnlessBack ==
    <>[][~PrevStep]_vars => <>(phase \in {"done", "aborted"})
================================================================================
