-------------------------- MODULE SetupWizard_proofs --------------------------
(***************************************************************************)
(* The wizard asks the questions that count, in their order, whatever the  *)
(* descriptions name and however often the user goes back; what is dumped  *)
(* is the last answer to each of them.                                     *)
(*                                                                         *)
(* First the tree: what is nested within a node, and the order of its      *)
(* nodes, without a word of the wizard.  Then the invariant: at each place *)
(* of the path, and at the node the wizard is at, the questions answered   *)
(* so far are those that count and come before.                            *)
(***************************************************************************)
EXTENDS SetupWizard, SequenceTheorems, FiniteSetTheorems, WellFoundedInduction, TLAPS

-----------------------------------------------------------------------------
(* Recursion and sequences *)

\* A set of numbers has a least one.
LEMMA LeastNat ==
    ASSUME NEW T, T \subseteq Nat, T # {}
    PROVE  \E n \in T : \A m \in T : n <= m
<1> DEFINE R == OpToRel(<, Nat)
<1>1. IsWellFoundedOn(R, Nat)
  BY NatLessThanWellFounded, Zenon
<1> HIDE DEF R
<1>2. PICK n \in T : \A m \in T : <<m, n>> \notin R
  BY <1>1, WFMin, Zenon
<1>3. \A m \in T : ~(m < n)
  BY <1>2 DEF R, OpToRel
<1> QED
  BY <1>3

\* Induction over the positions of a sequence, for a set of positions.
LEMMA PositionInduction ==
    ASSUME NEW N \in Nat, NEW P, 0 \in P, \A i \in 1..N : i - 1 \in P => i \in P
    PROVE  \A i \in 0..N : i \in P
<1> DEFINE Bad == (0..N) \ P
<1> SUFFICES ASSUME Bad # {} PROVE FALSE
  OBVIOUS
<1>1. PICK n \in Bad : \A m \in Bad : n <= m
  <2>1. Bad \subseteq Nat
    OBVIOUS
  <2> HIDE DEF Bad
  <2> QED
    BY <2>1, LeastNat, Zenon
<1>2. n \in 1..N /\ n - 1 \in 0..N /\ n - 1 < n
  OBVIOUS
<1>3. n - 1 \in P
  BY <1>1, <1>2
<1> QED
  BY <1>2, <1>3

\* What a recursive function on the positions of a sequence computes, step by step.
IsIterate(f, n, base, step) ==
    /\ f[0] = base
    /\ \A i \in 1..n : f[i] = step[i][f[i - 1]]

LEMMA IterateExists ==
    ASSUME NEW N \in Nat, NEW D, NEW base \in D, NEW step \in [1..N -> [D -> D]]
    PROVE  \E f \in [0..N -> D] : IsIterate(f, N, base, step)
<1> DEFINE P == { n \in 0..N : \E f \in [0..n -> D] : IsIterate(f, n, base, step) }
<1>1. 0 \in P
  <2> DEFINE f == [i \in 0..0 |-> base]
  <2>1. f \in [0..0 -> D] /\ IsIterate(f, 0, base, step)
    BY DEF IsIterate
  <2> HIDE DEF f
  <2> QED
    BY <2>1
<1>2. ASSUME NEW n \in 1..N, n - 1 \in P
      PROVE  n \in P
  <2>1. PICK f \in [0..(n - 1) -> D] : IsIterate(f, n - 1, base, step)
    BY <1>2, Zenon
  <2> DEFINE g == [i \in 0..n |-> IF i = n THEN step[n][f[n - 1]] ELSE f[i]]
  <2>2. g \in [0..n -> D]
    OBVIOUS
  <2>3. IsIterate(g, n, base, step)
    BY <2>1 DEF IsIterate
  <2> HIDE DEF g
  <2> QED
    BY <2>2, <2>3
<1>3. N \in P
  <2> HIDE DEF P
  <2>1. \A i \in 0..N : i \in P
    BY <1>1, <1>2, PositionInduction
  <2> QED
    BY <2>1
<1> QED
  BY <1>3

\* The recursive function of FlattenSeq.
IsFlatten(f, ss) ==
    /\ f[1] = ss[1]
    /\ \A i \in 2..Len(ss) : f[i] = f[i - 1] \o ss[i]

LEMMA FlattenSteps ==
    ASSUME NEW S, NEW ss \in Seq(Seq(S)), Len(ss) # 0
    PROVE  \E f : FlattenSeq(ss) = f[Len(ss)] /\ IsFlatten(f, ss)
<1> DEFINE n == Len(ss)
           D == Seq(S)
           base == <<>>
           step == [i \in 1..n |-> [t \in D |-> t \o ss[i]]]
           Steps(f) == f = [i \in 1..n |-> IF i = 1 THEN ss[i] ELSE f[i - 1] \o ss[i]]
           flatten == CHOOSE f : Steps(f)
<1>1. /\ n \in Nat \ {0} /\ \A i \in 1..n : ss[i] \in D
      /\ base \in D /\ step \in [1..n -> [D -> D]]
  OBVIOUS
<1>2. PICK f \in [0..n -> D] : IsIterate(f, n, base, step)
  <2> HIDE DEF step, n, D, base
  <2> QED
    BY <1>1, IterateExists
<1> DEFINE g == [i \in 1..n |-> f[i]]
<1>3. Steps(g)
  <2> DEFINE h == [i \in 1..n |-> IF i = 1 THEN ss[i] ELSE g[i - 1] \o ss[i]]
  <2>1. \A i \in 1..n : g[i] = h[i]
    <3> SUFFICES ASSUME NEW i \in 1..n PROVE g[i] = h[i]
      OBVIOUS
    <3>1. i - 1 \in 0..n /\ ss[i] \in D
      BY <1>1
    <3>2. f[i] = f[i - 1] \o ss[i]
      BY <1>2, <3>1 DEF IsIterate
    <3>3. CASE i = 1
      <4>1. f[i - 1] = <<>>
        BY <1>2, <3>3 DEF IsIterate
      <4> HIDE DEF step, n
      <4>2. <<>> \o ss[i] = ss[i]
        BY <3>1, ConcatEmptySeq
      <4> QED
        BY <3>2, <3>3, <4>1, <4>2
    <3>4. CASE i # 1
      <4>1. i - 1 \in 1..n
        BY <1>1, <3>4
      <4> QED
        BY <3>2, <3>4, <4>1
    <3> QED
      BY <3>3, <3>4
  <2> HIDE DEF n
  <2>2. g = h
    BY <2>1
  <2> QED
    BY <2>2
<1>4. Steps(flatten)
  <2> HIDE DEF Steps
  <2> QED
    BY <1>3, Zenon
<1>5. FlattenSeq(ss) = flatten[n]
  BY DEF FlattenSeq
<1> HIDE DEF flatten
<1>6. flatten[1] = ss[1]
  BY <1>1, <1>4
<1>7. ASSUME NEW i \in 2..n PROVE flatten[i] = flatten[i - 1] \o ss[i]
  <2>1. i \in 1..n /\ i # 1
    BY <1>1
  <2> HIDE DEF n
  <2> QED
    BY <1>4, <2>1, Zenon
<1>8. \A i \in 2..Len(ss) : flatten[i] = flatten[i - 1] \o ss[i]
  BY <1>7, Zenon
<1> QED
  BY <1>5, <1>6, <1>8, Zenon DEF IsFlatten

LEMMA FlattenType ==
    ASSUME NEW S, NEW ss \in Seq(Seq(S))
    PROVE  FlattenSeq(ss) \in Seq(S)
<1>1. CASE Len(ss) = 0
  BY <1>1 DEF FlattenSeq
<1>2. CASE Len(ss) # 0
  <2>1. PICK f : FlattenSeq(ss) = f[Len(ss)] /\ IsFlatten(f, ss)
    BY <1>2, FlattenSteps
  <2> DEFINE P == { i \in 0..Len(ss) : i = 0 \/ f[i] \in Seq(S) }
  <2>2. Len(ss) \in Nat \ {0} /\ \A i \in 1..Len(ss) : ss[i] \in Seq(S)
    BY <1>2
  <2>3. 0 \in P
    BY <2>2
  <2>4. ASSUME NEW i \in 1..Len(ss), i - 1 \in P PROVE i \in P
    <3>1. CASE i = 1
      <4>1. f[1] \in Seq(S)
        BY <2>1, <2>2, <3>1 DEF IsFlatten
      <4> QED
        BY <3>1, <4>1
    <3>2. CASE i # 1
      <4>1. i \in 2..Len(ss) /\ f[i - 1] \in Seq(S)
        BY <2>2, <2>4, <3>2
      <4>2. f[i] = f[i - 1] \o ss[i] /\ ss[i] \in Seq(S)
        BY <2>1, <2>2, <4>1, Zenon DEF IsFlatten
      <4>3. f[i] \in Seq(S)
        BY <4>1, <4>2, ConcatProperties
      <4> QED
        BY <4>3
    <3> QED
      BY <3>1, <3>2
  <2>5. \A i \in 0..Len(ss) : i \in P
    <3> HIDE DEF P
    <3> QED
      BY <2>2, <2>3, <2>4, PositionInduction
  <2> QED
    BY <2>1, <2>2, <2>5
<1> QED
  BY <1>1, <1>2

-----------------------------------------------------------------------------
(* What is reached *)

LEMMA ReachSelf ==
    ASSUME NEW step, NEW n \in DOMAIN step
    PROVE  n \in Reach(step, n)
BY DEF Reach

LEMMA ReachStep ==
    ASSUME NEW step, NEW n, NEW m \in Reach(step, n), step[m] \subseteq DOMAIN step
    PROVE  step[m] \subseteq Reach(step, n)
BY DEF Reach

\* What holds n, and with a node that is reached the steps from there, holds all that
\* is reached.
LEMMA ReachLeast ==
    ASSUME NEW step, NEW n \in DOMAIN step, NEW S,
           n \in S, \A m \in S \cap Reach(step, n) : step[m] \subseteq S \cap DOMAIN step
    PROVE  Reach(step, n) \subseteq S
<1> DEFINE T == S \cap Reach(step, n)
<1>1. Reach(step, n) \subseteq DOMAIN step
  BY DEF Reach
<1>2. n \in T
  BY ReachSelf
<1>3. \A m \in T : step[m] \subseteq T
  BY <1>1, ReachStep
<1>4. T \in SUBSET DOMAIN step
  BY <1>1
<1> HIDE DEF T
<1>5. Reach(step, n) \subseteq T
  BY <1>2, <1>3, <1>4 DEF Reach
<1> QED
  BY <1>5 DEF T

-----------------------------------------------------------------------------
(* The tree *)

LEMMA TopType == Top \in Seq(Questions)
<1> DEFINE ss == [i \in DOMAIN Names |-> Groups(Names[i])]
<1>1. ASSUME NEW i \in DOMAIN Names PROVE Groups(Names[i]) \in Seq(Questions)
  <2>1. Names[i] \in Range(Names)
    BY DEF Range
  <2>2. OwnInputs[Names[i]] \in Seq(Questions) /\ PluginInputs[Names[i]] \in Seq(Questions)
    BY <2>1, InputsAssumption
  <2> QED
    BY <2>2, ConcatProperties, EmptySeq DEF Groups
<1>2. Len(Names) \in Nat /\ DOMAIN Names = 1..Len(Names)
  BY InputsAssumption
<1>3. ss \in Seq(Seq(Questions))
  BY <1>1, <1>2
<1> HIDE DEF ss
<1>4. FlattenSeq(ss) \in Seq(Questions)
  BY <1>3, FlattenType
<1> QED
  BY <1>4 DEF Top, ss

\* The root and the options have questions, the questions options.
LEMMA KidsType ==
    /\ KidsOf = [n \in Nodes |-> KidsOf[n]]
    /\ \A n \in Nodes : KidsOf[n] \in Seq(Questions) \/ KidsOf[n] \in Seq(Options)
    /\ KidsOf[Root] \in Seq(Questions)
    /\ \A q \in Questions : KidsOf[q] = Kids[q] /\ KidsOf[q] \in Seq(Options)
    /\ \A o \in Options : KidsOf[o] = Kids[o] /\ KidsOf[o] \in Seq(Questions)
    /\ \A n \in Nodes : /\ Len(KidsOf[n]) \in Nat
                        /\ DOMAIN KidsOf[n] = 1..Len(KidsOf[n])
                        /\ \A i \in DOMAIN KidsOf[n] : KidsOf[n][i] \in Nodes \ {Root}
<1>1. Root \in Nodes /\ Questions \subseteq Nodes /\ Options \subseteq Nodes
  BY DEF Nodes
<1>2. KidsOf = [n \in Nodes |-> KidsOf[n]]
  BY DEF KidsOf
<1>3. KidsOf[Root] \in Seq(Questions)
  BY <1>1, TopType DEF KidsOf
<1>4. \A q \in Questions : KidsOf[q] = Kids[q] /\ KidsOf[q] \in Seq(Options)
  BY <1>1, RootAssumption, KidsAssumption DEF KidsOf
<1>5. \A o \in Options : KidsOf[o] = Kids[o] /\ KidsOf[o] \in Seq(Questions)
  BY <1>1, RootAssumption, KidsAssumption DEF KidsOf
<1>6. \A n \in Nodes : KidsOf[n] \in Seq(Questions) \/ KidsOf[n] \in Seq(Options)
  BY <1>3, <1>4, <1>5 DEF Nodes
<1>7. ASSUME NEW n \in Nodes
      PROVE  /\ Len(KidsOf[n]) \in Nat
             /\ DOMAIN KidsOf[n] = 1..Len(KidsOf[n])
             /\ \A i \in DOMAIN KidsOf[n] : KidsOf[n][i] \in Nodes \ {Root}
  <2>1. Questions \subseteq Nodes \ {Root} /\ Options \subseteq Nodes \ {Root}
    BY <1>1, RootAssumption
  <2>2. CASE KidsOf[n] \in Seq(Questions)
    BY <2>1, <2>2, ElementOfSeq, LenProperties
  <2>3. CASE KidsOf[n] \in Seq(Options)
    BY <2>1, <2>3, ElementOfSeq, LenProperties
  <2> QED
    BY <1>6, <2>2, <2>3
<1> QED
  BY <1>2, <1>3, <1>4, <1>5, <1>6, <1>7

\* k is a question of the option, or an option of the question, n.
KidOf(k, n) == n \in Nodes /\ k \in Range(KidsOf[n])

LEMMA KidType ==
    ASSUME NEW n, NEW k, KidOf(k, n)
    PROVE  /\ n \in Nodes /\ k \in Nodes \ {Root}
           /\ \E i \in DOMAIN KidsOf[n] : KidsOf[n][i] = k
BY KidsType DEF KidOf, Range

\* Parent is what its name says.
LEMMA ParentOfKid ==
    ASSUME NEW n, NEW k, KidOf(k, n)
    PROVE  k \in DOMAIN Parent /\ Parent[k] = n
<1> DEFINE P(p) == p \in Nodes /\ k \in Range(KidsOf[p])
           all == UNION { Range(KidsOf[p]) : p \in Nodes }
<1>1. \A p : P(p) => p = n
  BY KidType, TreeAssumption DEF KidOf, Range
<1>2. k \in all
  BY DEF KidOf
<1>3. Parent = [m \in all |-> CHOOSE p \in Nodes : m \in Range(KidsOf[p])]
  BY DEF Parent
<1>4. DOMAIN Parent = all /\ Parent[k] = CHOOSE p \in Nodes : k \in Range(KidsOf[p])
  <2> HIDE DEF all
  <2> QED
    BY <1>2, <1>3
<1>5. (CHOOSE p \in Nodes : k \in Range(KidsOf[p])) = n
  BY <1>1 DEF KidOf
<1> QED
  BY <1>2, <1>4, <1>5

LEMMA ParentType ==
    ASSUME NEW k \in DOMAIN Parent
    PROVE  KidOf(k, Parent[k])
<1>1. PICK n \in Nodes : k \in Range(KidsOf[n])
  BY DEF Parent
<1> QED
  BY <1>1, ParentOfKid DEF KidOf

\* Below, node by node.
LEMMA BelowSelf ==
    ASSUME NEW n \in Nodes
    PROVE  n \in Below[n] /\ Below[n] \subseteq Nodes
<1> DEFINE step == [m \in Nodes |-> Range(KidsOf[m])]
<1>1. Below[n] = Reach(step, n)
  BY DEF Below
<1>2. DOMAIN step = Nodes
  OBVIOUS
<1> HIDE DEF step
<1> QED
  BY <1>1, <1>2, ReachSelf DEF Reach

LEMMA BelowKid ==
    ASSUME NEW n \in Nodes, NEW m \in Below[n], NEW k, KidOf(k, m)
    PROVE  k \in Below[n]
<1> DEFINE step == [j \in Nodes |-> Range(KidsOf[j])]
<1>1. Below[n] = Reach(step, n)
  BY DEF Below
<1>2. m \in Nodes /\ k \in step[m]
  BY KidType DEF KidOf
<1>3. step[m] \subseteq DOMAIN step
  BY <1>2, KidType DEF KidOf
<1> HIDE DEF step
<1> QED
  BY <1>1, <1>2, <1>3, ReachStep

LEMMA BelowLeast ==
    ASSUME NEW n \in Nodes, NEW S, n \in S,
           \A m \in S \cap Below[n] : \A k : KidOf(k, m) => k \in S
    PROVE  Below[n] \subseteq S
<1> DEFINE step == [j \in Nodes |-> Range(KidsOf[j])]
<1>1. Below[n] = Reach(step, n)
  BY DEF Below
<1>2. DOMAIN step = Nodes
  OBVIOUS
<1>3. \A m \in Nodes : step[m] \subseteq Nodes
  BY KidType DEF KidOf
<1>4. Below[n] \subseteq Nodes
  BY BelowSelf
<1>5. \A m \in S \cap Below[n] : step[m] \subseteq S
  BY <1>4 DEF KidOf
<1> HIDE DEF step
<1>6. \A m \in S \cap Reach(step, n) : step[m] \subseteq S \cap DOMAIN step
  BY <1>1, <1>2, <1>3, <1>4, <1>5
<1> QED
  BY <1>1, <1>2, <1>6, ReachLeast

LEMMA BelowTrans ==
    ASSUME NEW n \in Nodes, NEW m \in Below[n]
    PROVE  m \in Nodes /\ Below[m] \subseteq Below[n]
<1>1. m \in Nodes
  BY BelowSelf
<1> QED
  BY <1>1, BelowLeast, BelowKid

\* A node below n is n or below one of its kids.
LEMMA BelowSplit ==
    ASSUME NEW n \in Nodes, NEW m \in Below[n], m # n
    PROVE  \E i \in DOMAIN KidsOf[n] : KidOf(KidsOf[n][i], n) /\ m \in Below[KidsOf[n][i]]
<1> DEFINE S == {n} \cup UNION { Below[k] : k \in Range(KidsOf[n]) }
<1>1. \A k : KidOf(k, n) => k \in S
  BY KidType, BelowSelf DEF KidOf
<1>2. \A k \in Range(KidsOf[n]) : \A j \in Below[k] : \A l : KidOf(l, j) => l \in Below[k]
  BY KidType, BelowKid DEF KidOf
<1>3. \A j \in S : \A l : KidOf(l, j) => l \in S
  BY <1>1, <1>2
<1>4. n \in S
  OBVIOUS
<1> HIDE DEF S
<1>5. m \in S
  BY <1>3, <1>4, BelowLeast
<1>6. PICK k \in Range(KidsOf[n]) : m \in Below[k]
  BY <1>5 DEF S
<1> QED
  BY <1>6, KidType DEF KidOf

\* Another node than n that is below n has its parent below n.
LEMMA BelowParent ==
    ASSUME NEW n \in Nodes, NEW m \in Below[n], m # n
    PROVE  /\ m \in DOMAIN Parent /\ KidOf(m, Parent[m])
           /\ Parent[m] \in Below[n]
<1> DEFINE S == {n} \cup { j \in DOMAIN Parent : Parent[j] \in Below[n] }
<1>1. \A j \in S \cap Below[n] : \A k : KidOf(k, j) => k \in S
  BY ParentOfKid
<1>2. n \in S
  OBVIOUS
<1> HIDE DEF S
<1>3. m \in S
  BY <1>1, <1>2, BelowLeast
<1>4. m \in DOMAIN Parent /\ Parent[m] \in Below[n]
  BY <1>3 DEF S
<1> QED
  BY <1>4, ParentType

\* No cycles.
LEMMA BelowOneWay ==
    ASSUME NEW n \in Nodes, NEW m \in Below[n], n \in Below[m]
    PROVE  m = n
<1> SUFFICES ASSUME m # n PROVE FALSE
  OBVIOUS
<1>1. PICK i \in DOMAIN KidsOf[n] : KidOf(KidsOf[n][i], n) /\ m \in Below[KidsOf[n][i]]
  BY BelowSplit
<1> DEFINE k == KidsOf[n][i]
<1>2. k \in Nodes /\ k \in Range(KidsOf[n])
  BY <1>1, KidType DEF KidOf
<1>3. n \in Below[k]
  BY <1>1, <1>2, BelowTrans
<1> QED
  BY <1>2, <1>3, TreeAssumption

\* A parent is not below its kid.
LEMMA ParentAbove ==
    ASSUME NEW n, NEW k, KidOf(k, n)
    PROVE  n \notin Below[k] /\ k \in Below[n] /\ k # n
<1>1. n \in Nodes /\ k \in Range(KidsOf[n]) /\ k \in Nodes
  BY KidType DEF KidOf
<1>2. n \notin Below[k]
  BY <1>1, TreeAssumption
<1>3. k \in Below[n]
  BY <1>1, BelowSelf, BelowKid
<1>4. k \in Below[k]
  BY <1>1, BelowSelf
<1> QED
  BY <1>2, <1>3, <1>4

\* Of two nodes above the same node one is above the other.
LEMMA BelowBoth ==
    ASSUME NEW m \in Nodes, NEW n \in Nodes, NEW k \in Below[m], k \in Below[n]
    PROVE  m \in Below[n] \/ n \in Below[m]
<1> DEFINE S == { j \in Below[m] : j \in Below[n] => m \in Below[n] \/ n \in Below[m] }
<1>1. m \in S
  BY BelowSelf
<1>2. ASSUME NEW j \in S \cap Below[m], NEW l, KidOf(l, j) PROVE l \in S
  <2>1. l \in Below[m]
    BY <1>2, BelowKid
  <2>2. CASE l = n
    BY <2>1, <2>2
  <2>3. CASE l \in Below[n] /\ l # n
    <3>1. j \in Below[n]
      BY <1>2, <2>3, BelowParent, ParentOfKid
    <3> QED
      BY <2>1, <3>1
  <2> QED
    BY <2>1, <2>2, <2>3
<1> HIDE DEF S
<1>3. k \in S
  BY <1>1, <1>2, BelowLeast
<1> QED
  BY <1>3 DEF S

\* Below different kids there are different nodes.
LEMMA KidsApart ==
    ASSUME NEW p \in Nodes, NEW i \in DOMAIN KidsOf[p], NEW j \in DOMAIN KidsOf[p],
           NEW n \in Below[KidsOf[p][i]], n \in Below[KidsOf[p][j]]
    PROVE  i = j
<1> DEFINE k == KidsOf[p][i]
           l == KidsOf[p][j]
<1>1. KidOf(k, p) /\ KidOf(l, p)
  BY DEF KidOf, Range
<1>2. k \in Nodes /\ l \in Nodes
  BY <1>1, KidType
<1>3. k \in Below[l] \/ l \in Below[k]
  BY <1>2, BelowBoth
<1>4. k = l
  <2>1. ASSUME k # l, k \in Below[l] PROVE FALSE
    BY <1>1, <1>2, <2>1, BelowParent, ParentOfKid, ParentAbove
  <2>2. ASSUME k # l, l \in Below[k] PROVE FALSE
    BY <1>1, <1>2, <2>2, BelowParent, ParentOfKid, ParentAbove
  <2> QED
    BY <1>3, <2>1, <2>2
<1> QED
  BY <1>4, TreeAssumption

-----------------------------------------------------------------------------
(* The order of the nodes *)

\* m is below an earlier kid of p than n.
Earlier(m, n, p) == \E i, j \in DOMAIN KidsOf[p] :
    i < j /\ m \in Below[KidsOf[p][i]] /\ n \in Below[KidsOf[p][j]]

LEMMA PrecedesDef ==
    ASSUME NEW m, NEW n
    PROVE  Precedes(m, n) <=> \/ m # n /\ n \in Below[m]
                              \/ \E p \in Nodes : Earlier(m, n, p)
BY DEF Precedes, Earlier

LEMMA EarlierNodes ==
    ASSUME NEW p \in Nodes, NEW m, NEW n, Earlier(m, n, p)
    PROVE  m \in Below[p] /\ n \in Below[p] /\ m # p /\ n # p
<1>1. PICK i, j \in DOMAIN KidsOf[p] :
          i < j /\ m \in Below[KidsOf[p][i]] /\ n \in Below[KidsOf[p][j]]
  BY DEF Earlier
<1>2. KidOf(KidsOf[p][i], p) /\ KidOf(KidsOf[p][j], p)
  BY DEF KidOf, Range
<1>3. KidsOf[p][i] \in Below[p] /\ p \notin Below[KidsOf[p][i]]
  BY <1>2, ParentAbove
<1>4. KidsOf[p][j] \in Below[p] /\ p \notin Below[KidsOf[p][j]]
  BY <1>2, ParentAbove
<1> QED
  BY <1>1, <1>3, <1>4, BelowTrans

LEMMA PrecedesIrreflexive ==
    ASSUME NEW n
    PROVE  ~Precedes(n, n)
<1> SUFFICES ASSUME NEW p \in Nodes, Earlier(n, n, p) PROVE FALSE
  BY PrecedesDef
<1>1. PICK i, j \in DOMAIN KidsOf[p] :
          i < j /\ n \in Below[KidsOf[p][i]] /\ n \in Below[KidsOf[p][j]]
  BY DEF Earlier
<1>2. i = j
  BY <1>1, KidsApart
<1> QED
  BY <1>1, <1>2, KidsType

\* What is below the nodes of an earlier pair is in the same order.
LEMMA EarlierBelow ==
    ASSUME NEW p \in Nodes, NEW i \in DOMAIN KidsOf[p], NEW j \in DOMAIN KidsOf[p], i < j,
           NEW m \in Below[KidsOf[p][i]], NEW n \in Below[KidsOf[p][j]]
    PROVE  Earlier(m, n, p) /\ Precedes(m, n)
<1>1. Earlier(m, n, p)
  BY DEF Earlier
<1> QED
  BY <1>1, PrecedesDef

LEMMA PrecedesTrans ==
    ASSUME NEW a \in Nodes, NEW b \in Nodes, NEW c \in Nodes,
           Precedes(a, b), Precedes(b, c)
    PROVE  Precedes(a, c)
<1>1. CASE a # b /\ b \in Below[a] /\ b # c /\ c \in Below[b]
  <2>1. c \in Below[a]
    BY <1>1, BelowTrans
  <2>2. c # a
    BY <1>1, BelowOneWay
  <2> QED
    BY <2>1, <2>2, PrecedesDef
<1>2. ASSUME a # b, b \in Below[a], NEW p \in Nodes, Earlier(b, c, p)
      PROVE  Precedes(a, c)
  <2>1. PICK i, j \in DOMAIN KidsOf[p] :
            i < j /\ b \in Below[KidsOf[p][i]] /\ c \in Below[KidsOf[p][j]]
    BY <1>2 DEF Earlier
  <2> DEFINE k == KidsOf[p][i]
             l == KidsOf[p][j]
  <2>2. KidOf(k, p) /\ KidOf(l, p) /\ k \in Nodes /\ l \in Nodes
    BY KidType DEF KidOf, Range
  <2>3. a \in Below[k] \/ k \in Below[a]
    BY <1>2, <2>1, <2>2, BelowBoth
  <2>4. CASE a \in Below[k]
    BY <2>1, <2>4, EarlierBelow
  <2>5. CASE k \in Below[a] /\ k # a
    <3>1. p \in Below[a]
      BY <2>2, <2>5, BelowParent, ParentOfKid
    <3>2. c \in Below[p] /\ c # p
      BY <1>2, EarlierNodes
    <3>3. c \in Below[a]
      BY <3>1, <3>2, BelowTrans
    <3>4. c # a
      BY <3>1, <3>2, BelowOneWay
    <3> QED
      BY <3>3, <3>4, PrecedesDef
  <2>6. k \in Below[k]
    BY <2>2, BelowSelf
  <2> QED
    BY <2>3, <2>4, <2>5, <2>6
<1>3. ASSUME NEW p \in Nodes, Earlier(a, b, p), c \in Below[b]
      PROVE  Precedes(a, c)
  <2>1. PICK i, j \in DOMAIN KidsOf[p] :
            i < j /\ a \in Below[KidsOf[p][i]] /\ b \in Below[KidsOf[p][j]]
    BY <1>3 DEF Earlier
  <2>2. KidsOf[p][j] \in Nodes
    BY KidsType
  <2>3. c \in Below[KidsOf[p][j]]
    BY <1>3, <2>1, <2>2, BelowTrans
  <2> QED
    BY <2>1, <2>3, EarlierBelow
<1>4. ASSUME NEW p \in Nodes, Earlier(a, b, p), NEW o \in Nodes, Earlier(b, c, o)
      PROVE  Precedes(a, c)
  <2>1. PICK i, j \in DOMAIN KidsOf[p] :
            i < j /\ a \in Below[KidsOf[p][i]] /\ b \in Below[KidsOf[p][j]]
    BY <1>4 DEF Earlier
  <2>2. PICK s, t \in DOMAIN KidsOf[o] :
            s < t /\ b \in Below[KidsOf[o][s]] /\ c \in Below[KidsOf[o][t]]
    BY <1>4 DEF Earlier
  <2> DEFINE k == KidsOf[p][j]
             l == KidsOf[o][s]
  <2>3. KidOf(k, p) /\ KidOf(l, o) /\ k \in Nodes /\ l \in Nodes
    BY KidType DEF KidOf, Range
  <2>4. k \in Below[l] \/ l \in Below[k]
    BY <2>1, <2>2, <2>3, BelowBoth
  <2>5. CASE k = l
    <3>1. p = o /\ j = s
      BY <2>5, TreeAssumption
    <3>2. i < t
      BY <2>1, <2>2, <3>1, KidsType
    <3> QED
      BY <2>1, <2>2, <3>1, <3>2, EarlierBelow
  <2>6. CASE k # l /\ k \in Below[l]
    <3>1. p \in Below[l]
      BY <2>3, <2>6, BelowParent, ParentOfKid
    <3>2. a \in Below[l]
      BY <1>4, <2>3, <3>1, EarlierNodes, BelowTrans
    <3> QED
      BY <2>2, <3>2, EarlierBelow
  <2>7. CASE k # l /\ l \in Below[k]
    <3>1. o \in Below[k]
      BY <2>3, <2>7, BelowParent, ParentOfKid
    <3>2. c \in Below[k]
      BY <1>4, <2>3, <3>1, EarlierNodes, BelowTrans
    <3> QED
      BY <2>1, <3>2, EarlierBelow
  <2> QED
    BY <2>4, <2>5, <2>6, <2>7
<1> QED
  BY <1>1, <1>2, <1>3, <1>4, PrecedesDef

\* A node precedes its kids.
LEMMA ParentFirst ==
    ASSUME NEW n, NEW k, KidOf(k, n)
    PROVE  Precedes(n, k)
BY ParentAbove, PrecedesDef

\* What precedes a kid precedes its parent, is it, or is below an earlier kid.
LEMMA BeforeKid ==
    ASSUME NEW n \in Nodes, NEW i \in DOMAIN KidsOf[n], NEW m \in Nodes
    PROVE  Precedes(m, KidsOf[n][i]) <=>
             \/ Precedes(m, n) \/ m = n
             \/ \E j \in DOMAIN KidsOf[n] : j < i /\ m \in Below[KidsOf[n][j]]
<1> DEFINE k == KidsOf[n][i]
<1>1. KidOf(k, n) /\ k \in Nodes /\ k \in Below[k]
  BY KidType, BelowSelf DEF KidOf, Range
<1>2. Precedes(n, k)
  BY <1>1, ParentFirst
<1>3. ASSUME Precedes(m, n) \/ m = n PROVE Precedes(m, k)
  BY <1>1, <1>2, <1>3, PrecedesTrans
<1>4. ASSUME NEW j \in DOMAIN KidsOf[n], j < i, m \in Below[KidsOf[n][j]]
      PROVE  Precedes(m, k)
  BY <1>1, <1>4, EarlierBelow
<1>5. ASSUME m # k, k \in Below[m] PROVE Precedes(m, n) \/ m = n
  <2>1. n \in Below[m]
    BY <1>1, <1>5, BelowParent, ParentOfKid
  <2> QED
    BY <2>1, PrecedesDef
<1>6. ASSUME NEW p \in Nodes, Earlier(m, k, p)
      PROVE  \/ Precedes(m, n)
             \/ \E j \in DOMAIN KidsOf[n] : j < i /\ m \in Below[KidsOf[n][j]]
  <2>1. PICK s, t \in DOMAIN KidsOf[p] :
            s < t /\ m \in Below[KidsOf[p][s]] /\ k \in Below[KidsOf[p][t]]
    BY <1>6 DEF Earlier
  <2>2. CASE k = KidsOf[p][t]
    <3>1. p = n /\ t = i
      BY <2>2, TreeAssumption
    <3> QED
      BY <2>1, <3>1
  <2>3. CASE k # KidsOf[p][t]
    <3>1. KidsOf[p][t] \in Nodes
      BY KidsType
    <3>2. n \in Below[KidsOf[p][t]]
      BY <1>1, <2>1, <2>3, <3>1, BelowParent, ParentOfKid
    <3> QED
      BY <2>1, <3>2, EarlierBelow
  <2> QED
    BY <2>2, <2>3
<1> QED
  BY <1>3, <1>4, <1>5, <1>6, PrecedesDef

-----------------------------------------------------------------------------
(* The links of the nodes *)

LEMMA KidKinds ==
    ASSUME NEW n, NEW k, KidOf(k, n)
    PROVE  /\ k \in Options => n \in Questions /\ k \in Range(Kids[n])
           /\ k \in Questions => n \notin Questions /\ KidsOf[n] \in Seq(Questions)
           /\ k \in Questions \cup Options
<1>1. PICK i \in DOMAIN KidsOf[n] : KidsOf[n][i] = k
  BY KidType
<1>2. n \in {Root} \cup Questions \cup Options
  BY KidType DEF Nodes
<1>3. CASE n \in Questions
  <2>1. KidsOf[n] = Kids[n] /\ KidsOf[n] \in Seq(Options)
    BY <1>3, KidsType
  <2>2. k \in Options
    BY <1>1, <2>1, ElementOfSeq, LenProperties
  <2> QED
    BY <1>3, <2>1, <2>2, RootAssumption DEF KidOf
<1>4. CASE n \notin Questions
  <2>1. KidsOf[n] \in Seq(Questions)
    BY <1>2, <1>4, KidsType
  <2>2. k \in Questions
    BY <1>1, <2>1, ElementOfSeq, LenProperties
  <2> QED
    BY <1>4, <2>1, <2>2, RootAssumption
<1> QED
  BY <1>3, <1>4

LEMMA ChildIs ==
    ASSUME NEW n \in Nodes
    PROVE  IF KidsOf[n] = <<>> THEN Child[n] = None
           ELSE /\ 1 \in DOMAIN KidsOf[n] /\ Child[n] = KidsOf[n][1]
                /\ KidOf(Child[n], n)
<1>1. Child[n] = IF KidsOf[n] = <<>> THEN None ELSE KidsOf[n][1]
  BY DEF Child
<1>2. KidsOf[n] # <<>> => 1 \in DOMAIN KidsOf[n]
  BY KidsType, EmptySeq
<1> QED
  BY <1>1, <1>2 DEF KidOf, Range

LEMMA NextIs ==
    ASSUME NEW p \in Nodes, NEW i \in DOMAIN KidsOf[p]
    PROVE  IF i = Len(KidsOf[p]) THEN NextOf[KidsOf[p][i]] = None
           ELSE i + 1 \in DOMAIN KidsOf[p] /\ NextOf[KidsOf[p][i]] = KidsOf[p][i + 1]
<1> DEFINE n == KidsOf[p][i]
<1>1. KidOf(n, p)
  BY DEF KidOf, Range
<1>2. n \in DOMAIN Parent /\ Parent[n] = p /\ n # Root
  BY <1>1, ParentOfKid, KidType
<1> DEFINE siblings == KidsOf[Parent[n]]
           place == CHOOSE k \in DOMAIN siblings : siblings[k] = n
<1>3. place = i
  BY <1>2, TreeAssumption
<1>4. NextOf[n] = IF i = Len(KidsOf[p]) THEN None ELSE KidsOf[p][i + 1]
  <2>1. NextOf[n] = IF n = Root THEN None
                    ELSE IF place = Len(siblings) THEN None ELSE siblings[place + 1]
    BY <1>2 DEF NextOf
  <2> HIDE DEF place
  <2> QED
    BY <1>2, <1>3, <2>1
<1>5. i # Len(KidsOf[p]) => i + 1 \in DOMAIN KidsOf[p]
  BY KidsType
<1> QED
  BY <1>4, <1>5

LEMMA RootHasNoNext == NextOf[Root] = None /\ Root \notin DOMAIN Parent
<1>1. Root \notin DOMAIN Parent
  BY ParentType, KidType
<1> QED
  BY <1>1 DEF NextOf

\* The root is below no other node, and before all.
LEMMA RootFirst ==
    ASSUME NEW n \in Nodes
    PROVE  (Root \in Below[n] => n = Root) /\ ~Precedes(n, Root)
<1>1. ASSUME NEW m \in Nodes, Root \in Below[m] PROVE m = Root
  BY <1>1, BelowParent, RootHasNoNext
<1> QED
  BY <1>1, EarlierNodes, PrecedesDef

-----------------------------------------------------------------------------
(* The questions that count *)

\* The value v of each question above n chooses the option that leads to it.
CountsBy(v, n) ==
    /\ n \in Below[Root]
    /\ \A p \in Questions : \A o \in Range(Kids[p]) : n \in Below[o] => v[p] = OptionValue[o]

CalledBy(v) == { q \in Questions : CountsBy(v, q) }

LEMMA CalledIs == Called = CalledBy(value)
BY DEF Called, CalledBy, CountsBy

LEMMA OptionOfQuestion ==
    ASSUME NEW p \in Questions, NEW o \in Range(Kids[p])
    PROVE  KidOf(o, p) /\ o \in Options /\ o \in Nodes /\ p \in Nodes
<1>1. p \in Nodes
  BY DEF Nodes
<1>2. KidOf(o, p)
  BY <1>1, KidsType DEF KidOf
<1> QED
  BY <1>1, <1>2, KidType, KidKinds, RootAssumption

LEMMA RootCounts == ASSUME NEW v PROVE CountsBy(v, Root)
<1>1. Root \in Below[Root]
  BY BelowSelf DEF Nodes
<1>2. \A p \in Questions : \A o \in Range(Kids[p]) : Root \notin Below[o]
  BY OptionOfQuestion, RootFirst, KidType
<1> QED
  BY <1>1, <1>2 DEF CountsBy

LEMMA ParentCounts ==
    ASSUME NEW v, NEW n, NEW k, KidOf(k, n), CountsBy(v, k)
    PROVE  CountsBy(v, n) /\ (k \in Options => v[n] = OptionValue[k])
<1>1. n \in Nodes /\ k \in Nodes /\ k # Root
  BY KidType
<1>2. n \in Below[Root]
  BY <1>1, BelowParent, ParentOfKid DEF CountsBy, Nodes
<1>3. ASSUME NEW p \in Questions, NEW o \in Range(Kids[p]), n \in Below[o]
      PROVE  v[p] = OptionValue[o]
  <2>1. k \in Below[o]
    BY <1>3, OptionOfQuestion, BelowKid
  <2> QED
    BY <2>1 DEF CountsBy
<1>4. ASSUME k \in Options PROVE v[n] = OptionValue[k]
  BY <1>1, <1>4, KidKinds, BelowSelf DEF CountsBy
<1> QED
  BY <1>2, <1>3, <1>4 DEF CountsBy

LEMMA KidCounts ==
    ASSUME NEW v, NEW n, NEW k, KidOf(k, n), CountsBy(v, n),
           k \in Options => v[n] = OptionValue[k]
    PROVE  CountsBy(v, k)
<1>1. n \in Nodes /\ k \in Nodes /\ Root \in Nodes
  BY KidType DEF Nodes
<1>2. k \in Below[Root]
  BY <1>1, BelowKid DEF CountsBy
<1>3. ASSUME NEW p \in Questions, NEW o \in Range(Kids[p]), k \in Below[o]
      PROVE  v[p] = OptionValue[o]
  <2>1. CASE k = o
    <3>1. n = p
      BY <2>1, OptionOfQuestion, ParentOfKid
    <3> QED
      BY <2>1, <3>1, OptionOfQuestion
  <2>2. CASE k # o
    <3>1. n \in Below[o]
      BY <1>3, <2>2, OptionOfQuestion, BelowParent, ParentOfKid
    <3> QED
      BY <3>1 DEF CountsBy
  <2> QED
    BY <2>1, <2>2
<1> QED
  BY <1>2, <1>3 DEF CountsBy

\* Another value of c matters only for what is nested within c.
LEMMA ChangeBelow ==
    ASSUME NEW v, NEW c \in Questions, NEW x, NEW n, n \notin Below[c] \/ n = c
    PROVE  CountsBy([v EXCEPT ![c] = x], n) <=> CountsBy(v, n)
<1> DEFINE w == [v EXCEPT ![c] = x]
<1>1. ASSUME NEW p \in Questions, NEW o \in Range(Kids[p]), n \in Below[o]
      PROVE  w[p] = v[p]
  <2>1. p # c
    <3>1. KidOf(o, p) /\ p \in Nodes
      BY OptionOfQuestion
    <3>2. p \notin Below[o] /\ o \in Below[p]
      BY <3>1, ParentAbove
    <3>3. n \in Below[p] /\ n # p
      BY <1>1, <3>1, <3>2, BelowTrans
    <3> QED
      BY <3>3
  <2> QED
    BY <2>1
<1> HIDE DEF w
<1> QED
  BY <1>1 DEF CountsBy, w

-----------------------------------------------------------------------------
(* From one question that counts to the next *)

\* The questions that count before n, and those and the ones nested within n.
Before(v, n) == { q \in CalledBy(v) : Precedes(q, n) }
Through(v, n) == { q \in CalledBy(v) : Precedes(q, n) \/ q \in Below[n] }

LEMMA CalledNodes ==
    ASSUME NEW v
    PROVE  CalledBy(v) \subseteq Nodes /\ Questions \subseteq Nodes
BY DEF CalledBy, Nodes

\* To the first question of all.
LEMMA FirstOfAll ==
    ASSUME NEW v
    PROVE  IF KidsOf[Root] = <<>> THEN CalledBy(v) = {}
           ELSE Child[Root] \in CalledBy(v) /\ Before(v, Child[Root]) = {}
<1>1. Root \in Nodes /\ Root \notin Questions
  BY RootAssumption DEF Nodes
<1>2. ASSUME KidsOf[Root] = <<>>, NEW q \in CalledBy(v) PROVE FALSE
  <2>1. q # Root /\ q \in Below[Root]
    BY <1>1 DEF CalledBy, CountsBy
  <2>2. PICK i \in DOMAIN KidsOf[Root] : q \in Below[KidsOf[Root][i]]
    BY <1>1, <2>1, BelowSplit
  <2> QED
    BY <1>2, <2>2
<1>3. ASSUME KidsOf[Root] # <<>>
      PROVE  Child[Root] \in CalledBy(v) /\ Before(v, Child[Root]) = {}
  <2>1. 1 \in DOMAIN KidsOf[Root] /\ Child[Root] = KidsOf[Root][1] /\ KidOf(Child[Root], Root)
    BY <1>1, <1>3, ChildIs
  <2>2. Child[Root] \in Questions
    BY <2>1, KidKinds, <1>1
  <2>3. CountsBy(v, Child[Root])
    BY <2>1, <2>2, RootCounts, KidCounts, RootAssumption
  <2>4. ASSUME NEW q \in CalledBy(v), Precedes(q, Child[Root]) PROVE FALSE
    <3>1. q \in Nodes /\ q # Root
      BY <1>1, CalledNodes DEF CalledBy
    <3>2. ~Precedes(q, Root)
      BY <3>1, RootFirst
    <3>3. PICK j \in DOMAIN KidsOf[Root] : j < 1
      BY <1>1, <2>1, <2>4, <3>1, <3>2, BeforeKid
    <3> QED
      BY <1>1, <3>3, KidsType
  <2> QED
    BY <2>2, <2>3, <2>4 DEF CalledBy, Before
<1> QED
  BY <1>2, <1>3

\* Into the option o that is chosen for c.
LEMMA IntoOption ==
    ASSUME NEW v, NEW c \in CalledBy(v), NEW o \in Range(Kids[c]),
           v[c] = OptionValue[o], Kids[o] # <<>>
    PROVE  Child[o] \in CalledBy(v) /\ Before(v, Child[o]) = Before(v, c) \cup {c}
<1>1. c \in Questions /\ c \in Nodes /\ CountsBy(v, c)
  BY CalledNodes DEF CalledBy
<1>2. KidOf(o, c) /\ o \in Options /\ o \in Nodes /\ KidsOf[o] = Kids[o] /\ KidsOf[c] = Kids[c]
  BY <1>1, OptionOfQuestion, KidsType
<1>3. 1 \in DOMAIN KidsOf[o] /\ Child[o] = KidsOf[o][1] /\ KidOf(Child[o], o)
  BY <1>2, ChildIs
<1>4. Child[o] \in Questions
  BY <1>2, <1>3, KidKinds, RootAssumption
<1>5. Child[o] \in CalledBy(v)
  <2>1. CountsBy(v, o)
    BY <1>1, <1>2, KidCounts
  <2> QED
    BY <1>3, <1>4, <2>1, KidCounts, RootAssumption DEF CalledBy
<1>6. PICK s \in DOMAIN KidsOf[c] : KidsOf[c][s] = o
  BY <1>2, KidType
<1>7. ASSUME NEW q \in CalledBy(v)
      PROVE  Precedes(q, Child[o]) <=> Precedes(q, c) \/ q = c
  <2>1. q \in Nodes /\ q # o
    BY <1>2, CalledNodes, RootAssumption DEF CalledBy
  <2>2. ~ \E j \in DOMAIN KidsOf[o] : j < 1
    BY <1>2, KidsType
  <2>3. Precedes(q, Child[o]) <=> Precedes(q, o)
    BY <1>2, <1>3, <2>1, <2>2, BeforeKid
  <2>4. ASSUME NEW j \in DOMAIN KidsOf[c], j < s, q \in Below[KidsOf[c][j]] PROVE FALSE
    <3>1. Kids[c][j] \in Range(Kids[c])
      BY <1>2 DEF Range
    <3>2. v[c] = OptionValue[Kids[c][j]]
      BY <1>1, <1>2, <2>4, <3>1 DEF CalledBy, CountsBy
    <3>3. j = s
      BY <1>1, <1>2, <1>6, <3>2, ValuesAssumption
    <3> QED
      BY <1>1, <2>4, <3>3, KidsType
  <2> QED
    BY <1>1, <1>6, <2>1, <2>3, <2>4, BeforeKid
<1> QED
  BY <1>5, <1>7 DEF Before

\* Nothing is asked within c if no option with questions is chosen.
LEMMA NothingWithin ==
    ASSUME NEW v, NEW c \in CalledBy(v),
           \A o \in Range(Kids[c]) : v[c] = OptionValue[o] => Kids[o] = <<>>
    PROVE  Through(v, c) = Before(v, c) \cup {c}
<1>1. c \in Questions /\ c \in Nodes /\ KidsOf[c] = Kids[c]
  BY CalledNodes, KidsType DEF CalledBy
<1>2. ASSUME NEW q \in CalledBy(v), q \in Below[c], q # c PROVE FALSE
  <2>1. PICK i \in DOMAIN KidsOf[c] : q \in Below[KidsOf[c][i]]
    BY <1>1, <1>2, BelowSplit
  <2> DEFINE o == KidsOf[c][i]
  <2>2. o \in Range(Kids[c]) /\ o \in Options /\ o \in Nodes
    BY <1>1, OptionOfQuestion DEF Range
  <2>3. v[c] = OptionValue[o]
    BY <1>1, <2>1, <2>2 DEF CalledBy, CountsBy
  <2>4. KidsOf[o] = <<>>
    BY <2>2, <2>3, KidsType
  <2>5. q # o
    BY <2>2, RootAssumption DEF CalledBy
  <2>6. PICK j \in DOMAIN KidsOf[o] : q \in Below[KidsOf[o][j]]
    BY <2>1, <2>2, <2>5, BelowSplit
  <2> QED
    BY <2>4, <2>6
<1>3. c \in Below[c]
  BY <1>1, BelowSelf
<1> QED
  BY <1>2, <1>3 DEF Before, Through

\* On to the next question.
LEMMA OnToNext ==
    ASSUME NEW v, NEW n \in Questions, CountsBy(v, n), NextOf[n] # None
    PROVE  NextOf[n] \in CalledBy(v) /\ Before(v, NextOf[n]) = Through(v, n)
<1>1. n \in Nodes /\ n # Root /\ Root \in Nodes
  BY RootAssumption DEF Nodes
<1> DEFINE p == Parent[n]
<1>2. KidOf(n, p)
  BY <1>1, BelowParent DEF CountsBy
<1>3. PICK i \in DOMAIN KidsOf[p] : KidsOf[p][i] = n
  BY <1>2, KidType
<1>4. p \in Nodes
  BY <1>2, KidType
<1>5. i + 1 \in DOMAIN KidsOf[p] /\ NextOf[n] = KidsOf[p][i + 1]
  BY <1>3, <1>4, NextIs
<1>6. KidOf(NextOf[n], p)
  BY <1>4, <1>5 DEF KidOf, Range
<1>7. NextOf[n] \in Questions
  BY <1>2, <1>5, KidKinds, ElementOfSeq, LenProperties
<1>8. NextOf[n] \in CalledBy(v)
  <2>1. CountsBy(v, p)
    BY <1>2, ParentCounts
  <2> QED
    BY <1>6, <1>7, <2>1, KidCounts, RootAssumption DEF CalledBy
<1>9. ASSUME NEW q \in CalledBy(v)
      PROVE  Precedes(q, NextOf[n]) <=> Precedes(q, n) \/ q \in Below[n]
  <2>1. q \in Nodes
    BY CalledNodes
  <2>2. \A j \in DOMAIN KidsOf[p] : j < i + 1 <=> j < i \/ j = i
    BY <1>4, KidsType
  <2>3. Precedes(q, NextOf[n]) <=>
          \/ Precedes(q, p) \/ q = p
          \/ \E j \in DOMAIN KidsOf[p] : j < i + 1 /\ q \in Below[KidsOf[p][j]]
    BY <1>4, <1>5, <2>1, BeforeKid
  <2>4. Precedes(q, n) <=>
          \/ Precedes(q, p) \/ q = p
          \/ \E j \in DOMAIN KidsOf[p] : j < i /\ q \in Below[KidsOf[p][j]]
    BY <1>3, <1>4, <2>1, BeforeKid
  <2> QED
    BY <1>3, <2>2, <2>3, <2>4
<1> QED
  BY <1>8, <1>9 DEF Before, Through

\* Up from an option, or from the last question.
LEMMA UpToParent ==
    ASSUME NEW v, NEW n \in Nodes, n # Root, CountsBy(v, n),
           n \in Options \/ NextOf[n] = None
    PROVE  /\ Parent[n] \in Nodes /\ CountsBy(v, Parent[n])
           /\ Through(v, Parent[n]) = Through(v, n)
<1> DEFINE p == Parent[n]
<1>1. KidOf(n, p)
  BY BelowParent DEF CountsBy, Nodes
<1>2. p \in Nodes /\ CountsBy(v, p) /\ n \in Below[p]
  BY <1>1, KidType, ParentCounts, ParentAbove
<1>3. PICK i \in DOMAIN KidsOf[p] : KidsOf[p][i] = n
  BY <1>1, KidType
<1>4. ASSUME NEW q \in CalledBy(v)
      PROVE  (Precedes(q, p) \/ q \in Below[p]) <=> (Precedes(q, n) \/ q \in Below[n])
  <2>1. q \in Nodes
    BY CalledNodes
  <2>2. Precedes(q, n) <=>
          \/ Precedes(q, p) \/ q = p
          \/ \E j \in DOMAIN KidsOf[p] : j < i /\ q \in Below[KidsOf[p][j]]
    BY <1>2, <1>3, <2>1, BeforeKid
  <2>3. q \in Below[p] <=>
          q = p \/ \E j \in DOMAIN KidsOf[p] : q \in Below[KidsOf[p][j]]
    <3>1. ASSUME NEW j \in DOMAIN KidsOf[p], q \in Below[KidsOf[p][j]] PROVE q \in Below[p]
      <4>1. KidsOf[p][j] \in Below[p]
        BY <1>2, ParentAbove DEF KidOf, Range
      <4> QED
        BY <1>2, <3>1, <4>1, BelowTrans
    <3> QED
      BY <1>2, <3>1, BelowSelf, BelowSplit
  <2>4. ASSUME NEW j \in DOMAIN KidsOf[p], q \in Below[KidsOf[p][j]] PROVE j <= i
    <3>1. CASE n \in Options
      <4>1. p \in Questions /\ KidsOf[p] = Kids[p] /\ v[p] = OptionValue[n]
        BY <1>1, <1>2, <3>1, KidKinds, KidsType, ParentCounts
      <4>2. v[p] = OptionValue[Kids[p][j]]
        BY <2>4, <4>1 DEF CalledBy, CountsBy, Range
      <4>3. i = j
        <5>1. i \in DOMAIN Kids[p] /\ j \in DOMAIN Kids[p] /\ Kids[p][i] = n
          BY <1>3, <4>1
        <5>2. OptionValue[Kids[p][i]] = OptionValue[Kids[p][j]]
          BY <4>1, <4>2, <5>1
        <5> HIDE DEF p
        <5> QED
          BY <4>1, <5>1, <5>2, ValuesAssumption
      <4> QED
        BY <1>2, <4>3, KidsType
    <3>2. CASE n \notin Options
      <4>1. i = Len(KidsOf[p])
        <5>1. ASSUME i # Len(KidsOf[p]) PROVE FALSE
          <6>1. KidsOf[p][i + 1] \in Nodes /\ NextOf[n] = KidsOf[p][i + 1]
            BY <1>2, <1>3, <5>1, NextIs, KidsType
          <6> QED
            BY <3>2, <6>1, RootAssumption
        <5> QED
          BY <5>1
      <4> QED
        BY <1>2, <4>1, KidsType
    <3> QED
      BY <3>1, <3>2
  <2>5. \A j \in DOMAIN KidsOf[p] : j <= i <=> j < i \/ j = i
    BY <1>2, KidsType
  <2> QED
    BY <1>3, <2>2, <2>3, <2>4, <2>5
<1> QED
  BY <1>2, <1>4 DEF Through

\* At the root nothing is left.
LEMMA AllThrough == ASSUME NEW v PROVE Through(v, Root) = CalledBy(v)
BY DEF Through, CalledBy, CountsBy

-----------------------------------------------------------------------------
(* The invariant *)

\* The questions answered before the i-th of the path.
Prior(i) == { paths[j] : j \in 1..(i - 1) }

\* Each question of the path counts, and the ones before it on the path are those that
\* count and come before it: so it was when it was asked, and so it will be after .back.
Listed == \A i \in 1..Len(paths) :
    paths[i] \in CalledBy(value) /\ Prior(i) = Before(value, paths[i])

\* The same of the question that is asked now; in the menu nothing is left.
AtQuestion == phase = "ask" =>
    IF current = None THEN Range(paths) = CalledBy(value)
    ELSE current \in CalledBy(value) /\ Range(paths) = Before(value, current)

\* On the way up from an answer, nothing that counts is left within the node.
AtClimb == phase = "climb" =>
    /\ current \in Nodes /\ CountsBy(value, current)
    /\ Range(paths) = Through(value, current)

\* What the answer q opens: an option that has questions.
Opens(q) == { o \in Chosen(q, value[q]) : Kids[o] # <<>> }

\* activeChild of an answered question is what its value opens.
Agree ==
    /\ active[Root] = Child[Root]
    /\ \A q \in Range(paths) :
          IF Opens(q) = {} THEN active[q] = None ELSE active[q] \in Opens(q)

Handed ==
    /\ phase \in {"ask", "climb"} => cfg = None
    /\ cfg # None => cfg = Answers

IInv == TypeOK /\ Listed /\ AtQuestion /\ AtClimb /\ Agree /\ Handed

\* An answer changes nothing for the questions before it.
LEMMA AnswerKeeps ==
    ASSUME NEW v, NEW c \in CalledBy(v), NEW x, NEW n \in Nodes, n = c \/ Precedes(n, c)
    PROVE  LET w == [v EXCEPT ![c] = x] IN
           (n \in CalledBy(w) <=> n \in CalledBy(v)) /\ Before(w, n) = Before(v, n)
<1> DEFINE w == [v EXCEPT ![c] = x]
<1>1. c \in Questions /\ c \in Nodes
  BY CalledNodes DEF CalledBy
<1>2. ASSUME NEW q \in Nodes, q = c \/ Precedes(q, c)
      PROVE  q \in CalledBy(w) <=> q \in CalledBy(v)
  <2>1. q \notin Below[c] \/ q = c
    <3>1. ASSUME q \in Below[c], q # c PROVE FALSE
      <4>1. Precedes(c, q)
        BY <3>1, PrecedesDef
      <4>2. Precedes(c, c)
        BY <1>1, <1>2, <3>1, <4>1, PrecedesTrans
      <4> QED
        BY <4>2, PrecedesIrreflexive
    <3> QED
      BY <3>1
  <2>2. CountsBy(w, q) <=> CountsBy(v, q)
    BY <1>1, <2>1, ChangeBelow
  <2> QED
    BY <2>2 DEF CalledBy
<1>3. ASSUME NEW q \in Nodes, Precedes(q, n) PROVE Precedes(q, c)
  BY <1>1, <1>3, PrecedesTrans
<1> HIDE DEF w
<1>4. CalledBy(w) \subseteq Nodes /\ CalledBy(v) \subseteq Nodes
  BY CalledNodes
<1>5. Before(w, n) = Before(v, n)
  BY <1>2, <1>3, <1>4 DEF Before
<1> QED
  BY <1>2, <1>5 DEF w

-----------------------------------------------------------------------------
(* The dump *)

LEMMA OnwardDomain ==
    /\ DOMAIN Onward = {Root} \cup (DOMAIN Parent \ Options)
    /\ DOMAIN Onward \subseteq {Root} \cup Questions
    /\ {Root} \cup CalledBy(value) \subseteq DOMAIN Onward
<1>1. DOMAIN NextOf = DOMAIN Parent \cup {Root}
  BY DEF NextOf
<1>2. DOMAIN Onward = DOMAIN NextOf \ Options
  BY DEF Onward
<1>3. DOMAIN Onward = {Root} \cup (DOMAIN Parent \ Options)
  BY <1>1, <1>2, RootAssumption
<1>4. DOMAIN Parent \subseteq Questions \cup Options
  BY ParentType, KidKinds
<1>5. CalledBy(value) \subseteq DOMAIN Parent \ Options
  BY BelowParent, RootAssumption DEF CalledBy, CountsBy, Nodes
<1> QED
  BY <1>3, <1>4, <1>5

LEMMA DumpType ==
    ASSUME TypeOK
    PROVE  Dump \in SUBSET (Nodes \X (Values \cup {Unset}))
<1>1. Reach(Onward, Root) \ {Root} \subseteq Questions
  BY OnwardDomain DEF Reach
<1>2. \A q \in Questions : q \in Nodes /\ value[q] \in Values \cup {Unset}
  BY DEF TypeOK, Nodes
<1> QED
  BY <1>1, <1>2 DEF Dump

\* From the root and from questions that count dumpTree comes to questions that count.
LEMMA OnwardCalled ==
    ASSUME Agree, CalledBy(value) \subseteq Range(paths), NEW n \in {Root} \cup CalledBy(value)
    PROVE  /\ Onward[n] \subseteq CalledBy(value)
           /\ NextOf[n] # None => NextOf[n] \in Onward[n]
           /\ n = Root /\ KidsOf[Root] # <<>> => KidsOf[Root][1] \in Onward[n]
           /\ n # Root => \A o \in Opens(n) : KidsOf[o][1] \in Onward[n]
<1>1. n \in DOMAIN Onward
  BY OnwardDomain
<1> DEFINE to == IF active[n] # None /\ n # Root /\ IsOption(n) THEN Child[active[n]]
                 ELSE active[n]
<1>2. Onward[n] = {to, NextOf[n]} \ {None}
  BY <1>1 DEF Onward
<1>3. CASE n = Root
  <2>1. to = Child[Root] /\ NextOf[n] = None
    BY <1>3, RootHasNoNext DEF Agree
  <2>2. IF KidsOf[Root] = <<>> THEN Child[Root] = None
        ELSE Child[Root] = KidsOf[Root][1] /\ Child[Root] \in Nodes
    BY ChildIs, KidType DEF Nodes
  <2>3. Child[Root] # None => Child[Root] \in CalledBy(value)
    BY <2>2, FirstOfAll
  <2> QED
    BY <1>2, <1>3, <2>1, <2>2, <2>3, RootAssumption
<1>4. CASE n # Root
  <2>1. n \in CalledBy(value) /\ n \in Questions /\ n \in Range(paths) /\ CountsBy(value, n)
    BY <1>4 DEF CalledBy
  <2>2. NextOf[n] # None => NextOf[n] \in CalledBy(value)
    BY <2>1, OnToNext
  <2>3. CASE Opens(n) = {}
    <3>1. to = None
      BY <2>1, <2>3 DEF Agree
    <3> QED
      BY <1>2, <1>4, <2>2, <2>3, <3>1
  <2>4. CASE Opens(n) # {}
    <3>1. active[n] \in Opens(n)
      BY <2>1, <2>4 DEF Agree
    <3> DEFINE o == active[n]
    <3>2. o \in Range(Kids[n]) /\ value[n] = OptionValue[o] /\ Kids[o] # <<>>
      BY <3>1 DEF Opens, Chosen
    <3>3. o \in Options /\ o \in Nodes /\ KidsOf[o] = Kids[o]
      BY <2>1, <3>2, OptionOfQuestion, KidsType
    <3>4. Child[o] = KidsOf[o][1] /\ Child[o] \in CalledBy(value) /\ Child[o] \in Nodes
      BY <2>1, <3>2, <3>3, IntoOption, ChildIs, CalledNodes
    <3>5. IsOption(n)
      BY <2>1, <3>2, KidsAssumption DEF IsOption, Range
    <3>6. to = Child[o]
      BY <1>4, <3>3, <3>5, RootAssumption
    <3>7. \A p \in Opens(n) : p = o
      <4>1. \A p \in Opens(n) : p \in Range(Kids[n]) /\ value[n] = OptionValue[p]
        BY DEF Opens, Chosen
      <4> QED
        BY <2>1, <3>2, <4>1, ValuesAssumption DEF Range
    <3> QED
      BY <1>2, <1>4, <2>2, <3>4, <3>6, <3>7, RootAssumption
  <2> QED
    BY <2>3, <2>4
<1> QED
  BY <1>3, <1>4

\* If the first of the questions of a node is dumped, all are.
LEMMA SiblingsDumped ==
    ASSUME NEW m \in Nodes, KidsOf[m] \in Seq(Questions), NEW D,
           KidsOf[m] # <<>> => KidsOf[m][1] \in D,
           \A i \in DOMAIN KidsOf[m] : KidsOf[m][i] \in D /\ NextOf[KidsOf[m][i]] # None =>
                                         NextOf[KidsOf[m][i]] \in D
    PROVE  \A i \in DOMAIN KidsOf[m] : KidsOf[m][i] \in D
<1> DEFINE n == Len(KidsOf[m])
           P == { i \in 0..n : i = 0 \/ KidsOf[m][i] \in D }
<1>1. n \in Nat /\ DOMAIN KidsOf[m] = 1..n
  BY KidsType
<1>2. 0 \in P
  BY <1>1
<1>3. ASSUME NEW i \in 1..n, i - 1 \in P PROVE i \in P
  <2>1. CASE i = 1
    <3>1. KidsOf[m] # <<>>
      BY <1>1, <1>3
    <3> QED
      BY <1>1, <1>3, <2>1, <3>1
  <2>2. CASE i # 1
    <3>1. i - 1 \in DOMAIN KidsOf[m] /\ i - 1 # n /\ KidsOf[m][i - 1] \in D
      BY <1>1, <1>3, <2>2
    <3>2. NextOf[KidsOf[m][i - 1]] = KidsOf[m][i]
      BY <1>1, <1>3, <3>1, NextIs
    <3>3. KidsOf[m][i] # None
      BY <1>1, <1>3, KidsType, RootAssumption
    <3> QED
      BY <1>3, <3>1, <3>2, <3>3
  <2> QED
    BY <2>1, <2>2
<1>4. \A i \in 0..n : i \in P
  <2> HIDE DEF P, n
  <2> QED
    BY <1>1, <1>2, <1>3, PositionInduction
<1> QED
  BY <1>1, <1>4

LEMMA DumpCorrect ==
    ASSUME Agree, CalledBy(value) = Range(paths)
    PROVE  Dump = Answers
<1> DEFINE D == Reach(Onward, Root)
           V == {Root} \cup CalledBy(value)
<1>1. Root \in DOMAIN Onward /\ V \subseteq DOMAIN Onward
  BY OnwardDomain
<1>2. \A n \in V : Onward[n] \subseteq CalledBy(value)
  BY OnwardCalled
<1>3. D \subseteq V
  <2>1. \A n \in V \cap D : Onward[n] \subseteq V \cap DOMAIN Onward
    BY <1>1, <1>2
  <2>2. Root \in V
    OBVIOUS
  <2> HIDE DEF V
  <2> QED
    BY <1>1, <2>1, <2>2, ReachLeast
<1>4. Root \in D /\ \A n \in V \cap D : Onward[n] \subseteq D
  BY <1>1, <1>2, ReachSelf, ReachStep
<1> DEFINE Z == { n \in Nodes : CountsBy(value, n) =>
                                  IF n \in Options THEN Parent[n] \in D ELSE n \in D }
<1>5. ASSUME NEW n \in Z \cap Below[Root], NEW k, KidOf(k, n) PROVE k \in Z
  <2> SUFFICES ASSUME CountsBy(value, k)
               PROVE  IF k \in Options THEN Parent[k] \in D ELSE k \in D
    <3>1. k \in Nodes
      BY <1>5, KidType
    <3> HIDE DEF D
    <3> QED
      BY <3>1
  <2>1. /\ CountsBy(value, n) /\ (k \in Options => value[n] = OptionValue[k])
        /\ n \in Nodes /\ Parent[k] = n
    BY <1>5, KidType, ParentCounts, ParentOfKid
  <2>2. CASE k \in Options
    BY <1>5, <2>1, <2>2, KidKinds, RootAssumption
  <2>3. CASE k \notin Options
    <3>1. k \in Questions /\ n \notin Questions /\ KidsOf[n] \in Seq(Questions)
      BY <1>5, <2>3, KidKinds
    <3>2. \A i \in DOMAIN KidsOf[n] : KidsOf[n][i] \in CalledBy(value)
      <4>1. ASSUME NEW i \in DOMAIN KidsOf[n] PROVE KidsOf[n][i] \in CalledBy(value)
        <5>1. KidOf(KidsOf[n][i], n) /\ KidsOf[n][i] \in Questions
          BY <2>1, <3>1, ElementOfSeq, LenProperties DEF KidOf, Range
        <5> QED
          BY <2>1, <5>1, KidCounts, RootAssumption DEF CalledBy
      <4> QED
        BY <4>1
    <3>3. KidsOf[n] # <<>> => KidsOf[n][1] \in D
      <4>1. CASE n = Root
        BY <1>4, <4>1, OnwardCalled
      <4>2. CASE n # Root
        <5>1. n \in Options
          BY <2>1, <3>1, <4>2 DEF Nodes
        <5> DEFINE p == Parent[n]
        <5>2. p \in D /\ KidOf(n, p)
          BY <1>5, <2>1, <4>2, <5>1, BelowParent DEF Nodes
        <5>3. p \in Questions /\ n \in Range(Kids[p]) /\ CountsBy(value, p)
              /\ value[p] = OptionValue[n]
          BY <2>1, <5>1, <5>2, KidKinds, ParentCounts
        <5>4. Kids[n] # <<>> => n \in Opens(p)
          BY <5>3 DEF Opens, Chosen
        <5>5. p \in CalledBy(value) /\ p # Root
          BY <5>3, RootAssumption DEF CalledBy
        <5>6. KidsOf[n] = Kids[n]
          BY <5>1, KidsType
        <5> QED
          BY <1>4, <5>2, <5>4, <5>5, <5>6, OnwardCalled
      <4> QED
        BY <4>1, <4>2
    <3>4. \A i \in DOMAIN KidsOf[n] : KidsOf[n][i] \in D /\ NextOf[KidsOf[n][i]] # None =>
                                        NextOf[KidsOf[n][i]] \in D
      BY <1>4, <3>2, OnwardCalled
    <3> HIDE DEF D
    <3>5. \A i \in DOMAIN KidsOf[n] : KidsOf[n][i] \in D
      BY <2>1, <3>1, <3>3, <3>4, SiblingsDumped
    <3> QED
      BY <1>5, <2>3, <3>5, KidType
  <2> QED
    BY <2>2, <2>3
<1>6. Root \in Z /\ Root \in Nodes
  BY <1>4, RootAssumption DEF Nodes
<1>7. Below[Root] \subseteq Z
  <2> HIDE DEF Z
  <2> QED
    BY <1>5, <1>6, BelowLeast
<1>8. CalledBy(value) \subseteq D
  BY <1>7, RootAssumption DEF CalledBy, CountsBy
<1>9. D \ {Root} = CalledBy(value)
  BY <1>3, <1>8, RootAssumption DEF CalledBy
<1> QED
  BY <1>9, CalledIs DEF Dump, Answers

-----------------------------------------------------------------------------
(* The invariant is kept *)

LEMMA PathRange ==
    ASSUME paths \in Seq(Questions)
    PROVE  /\ Range(paths) = Prior(Len(paths) + 1)
           /\ Len(paths) \in Nat /\ DOMAIN paths = 1..Len(paths)
BY DEF Range, Prior

LEMMA InitHolds == Init => IInv
<1> SUFFICES ASSUME Init PROVE IInv
  OBVIOUS
<1> USE DEF Init
<1>1. Root \in Nodes /\ (Child[Root] = None \/ Child[Root] \in Nodes)
  BY ChildIs, KidType DEF Nodes
<1>2. TypeOK
  <2>1. active \in [Nodes -> Nodes \cup {None}]
    BY <1>1
  <2>2. paths \in Seq(Questions) /\ current \in Nodes \cup {None}
    BY <1>1
  <2>3. value \in [Questions -> Values \cup {Unset}]
    BY DefaultAssumption
  <2> QED
    BY <2>1, <2>2, <2>3 DEF TypeOK
<1>3. Listed
  BY DEF Listed
<1>4. AtQuestion
  <2>1. Range(paths) = {}
    BY DEF Range
  <2>2. Child[Root] = None <=> KidsOf[Root] = <<>>
    BY <1>1, ChildIs, KidType, RootAssumption
  <2> QED
    BY <2>1, <2>2, FirstOfAll DEF AtQuestion
<1>5. AtClimb /\ Agree /\ Handed
  BY <1>1 DEF AtClimb, Agree, Handed, Range
<1> QED
  BY <1>2, <1>3, <1>4, <1>5 DEF IInv

LEMMA EnteredType ==
    ASSUME TypeOK, NEW q \in Questions, NEW v \in Typed(q) \cup {Entered(q)}
    PROVE  v \in Values \cup {Unset}
<1>1. Typed(q) \subseteq Values
  <2>1. IsOption(q) => Range(Kids[q]) \subseteq Options
    BY OptionOfQuestion
  <2> QED
    BY <2>1 DEF Typed, Values
<1>2. Entered(q) \in Values \cup {Unset}
  BY DEF Entered, TypeOK, Values
<1> QED
  BY <1>1, <1>2

LEMMA AnswerHolds == ASSUME IInv, Answer PROVE IInv'
<1> USE DEF IInv
<1> DEFINE c == current
<1>1. c \in CalledBy(value) /\ Range(paths) = Before(value, c) /\ phase = "ask"
  BY DEF Answer, AtQuestion
<1>2. c \in Questions /\ c \in Nodes /\ c # Root /\ c # None
  BY <1>1, CalledNodes, RootAssumption DEF CalledBy
<1>3. PICK v \in Typed(c) \cup {Entered(c)} : value' = [value EXCEPT ![c] = v] /\ NextStep(v)
  BY DEF Answer
<1> DEFINE w == [value EXCEPT ![c] = v]
           opened == { o \in Chosen(c, v) : Kids[o] # <<>> }
<1>4. w \in [Questions -> Values \cup {Unset}] /\ w[c] = v
  BY <1>2, EnteredType DEF TypeOK
<1>5. paths \in Seq(Questions) /\ paths' = Append(paths, c)
  BY <1>3 DEF NextStep, TypeOK
<1>6. /\ paths' \in Seq(Questions) /\ Len(paths) \in Nat /\ Len(paths') = Len(paths) + 1
      /\ \A i \in 1..Len(paths) : paths'[i] = paths[i]
      /\ paths'[Len(paths) + 1] = c
  BY <1>2, <1>5
<1>7. Range(paths') = Range(paths) \cup {c}
  BY <1>5, <1>6 DEF Range
<1>8. c \in CalledBy(w) /\ Before(w, c) = Before(value, c)
  BY <1>1, <1>2, AnswerKeeps
<1>9. \/ \E o \in opened : /\ active' = [active EXCEPT ![c] = o]
                           /\ current' = Child[o] /\ phase' = "ask"
      \/ /\ opened = {} /\ active' = [active EXCEPT ![c] = None]
         /\ current' = c /\ phase' = "climb"
  BY <1>1, <1>3 DEF NextStep
<1>10. \A o \in opened : /\ o \in Range(Kids[c]) /\ w[c] = OptionValue[o] /\ Kids[o] # <<>>
                         /\ o \in Options /\ o \in Nodes
  BY <1>2, <1>4, OptionOfQuestion DEF Chosen
<1>11. \A o \in opened : /\ Child[o] \in CalledBy(w) /\ Child[o] \in Nodes /\ Child[o] # None
                         /\ Before(w, Child[o]) = Before(w, c) \cup {c}
  <2> SUFFICES ASSUME NEW o \in opened
               PROVE  /\ Child[o] \in CalledBy(w) /\ Child[o] \in Nodes /\ Child[o] # None
                      /\ Before(w, Child[o]) = Before(w, c) \cup {c}
    OBVIOUS
  <2>1. o \in Range(Kids[c]) /\ w[c] = OptionValue[o] /\ Kids[o] # <<>>
    BY <1>10
  <2> HIDE DEF w, opened, c
  <2>2. Child[o] \in CalledBy(w) /\ Before(w, Child[o]) = Before(w, c) \cup {c}
    BY <1>8, <2>1, IntoOption
  <2>3. Child[o] \in Nodes /\ Child[o] # None
    BY <2>2, CalledNodes, RootAssumption
  <2> QED
    BY <2>2, <2>3
<1> HIDE DEF w, opened
<1>12. value' = w
  BY <1>3 DEF w
<1>13. TypeOK'
  <2>1. phase' \in {"ask", "climb"} /\ current' \in Nodes
    BY <1>2, <1>9, <1>11
  <2>2. active' \in [Nodes -> Nodes \cup {None}]
    BY <1>2, <1>9, <1>10 DEF TypeOK
  <2>3. UNCHANGED <<cfg, todo, failed, statfile>>
    BY DEF Answer, result
  <2> QED
    BY <1>4, <1>6, <1>12, <2>1, <2>2, <2>3 DEF TypeOK
<1>14. Listed'
  <2> SUFFICES ASSUME NEW i \in 1..Len(paths')
               PROVE  paths'[i] \in CalledBy(w) /\ Prior(i)' = Before(w, paths'[i])
    BY <1>12 DEF Listed
  <2>1. Prior(i)' = Prior(i)
    BY <1>6 DEF Prior
  <2>2. CASE i \in 1..Len(paths)
    <3>1. paths[i] \in CalledBy(value) /\ Prior(i) = Before(value, paths[i])
      BY <2>2 DEF Listed
    <3>2. paths[i] \in Range(paths)
      BY <1>5, <2>2 DEF Range
    <3>3. paths[i] \in Nodes /\ Precedes(paths[i], c)
      BY <1>1, <3>1, <3>2, CalledNodes DEF Before
    <3>4. paths[i] \in CalledBy(w) /\ Before(w, paths[i]) = Before(value, paths[i])
      BY <1>1, <3>1, <3>3, AnswerKeeps DEF w
    <3> QED
      BY <1>6, <2>1, <2>2, <3>1, <3>4
  <2>3. CASE i = Len(paths) + 1
    BY <1>1, <1>5, <1>6, <1>8, <2>1, <2>3, PathRange
  <2> QED
    BY <1>6, <2>2, <2>3
<1>15. AtQuestion'
  <2> SUFFICES ASSUME phase' = "ask"
               PROVE  /\ current' # None /\ current' \in CalledBy(w)
                      /\ Range(paths') = Before(w, current')
    BY <1>12 DEF AtQuestion
  <2> QED
    BY <1>1, <1>7, <1>8, <1>9, <1>11
<1>16. AtClimb'
  <2> SUFFICES ASSUME phase' = "climb"
               PROVE  /\ current' \in Nodes /\ CountsBy(w, current')
                      /\ Range(paths') = Through(w, current')
    BY <1>12 DEF AtClimb
  <2>1. current' = c /\ opened = {}
    BY <1>9
  <2>2. \A o \in Range(Kids[c]) : w[c] = OptionValue[o] => Kids[o] = <<>>
    BY <1>4, <2>1 DEF opened, Chosen
  <2>3. Through(w, c) = Before(w, c) \cup {c}
    BY <1>8, <2>2, NothingWithin
  <2>4. CountsBy(w, c)
    BY <1>8 DEF CalledBy
  <2> QED
    BY <1>1, <1>2, <1>7, <1>8, <2>1, <2>3, <2>4
<1>17. Agree'
  <2>1. active \in [Nodes -> Nodes \cup {None}] /\ Root \in Nodes
    BY DEF TypeOK, Nodes
  <2>2. active'[Root] = active[Root]
    BY <1>2, <1>9, <2>1
  <2>3. ASSUME NEW q \in Range(paths')
        PROVE  IF Opens(q)' = {} THEN active'[q] = None ELSE active'[q] \in Opens(q)'
    <3>1. CASE q = c
      <4>1. Opens(q)' = opened
        BY <1>4, <1>12, <3>1 DEF Opens, opened
      <4> QED
        BY <1>2, <1>9, <2>1, <3>1, <4>1
    <3>2. CASE q # c
      <4>1. q \in Range(paths) /\ q \in Nodes /\ q \in Questions
        BY <1>1, <1>7, <3>2, CalledNodes DEF Before, CalledBy
      <4>2. Opens(q)' = Opens(q)
        BY <1>3, <3>2, <4>1 DEF Opens, TypeOK
      <4>3. active'[q] = active[q]
        BY <1>2, <1>9, <2>1, <3>2, <4>1
      <4> QED
        BY <4>1, <4>2, <4>3 DEF Agree
    <3> QED
      BY <3>1, <3>2
  <2> QED
    BY <2>2, <2>3 DEF Agree
<1>18. Handed'
  BY <1>1, <1>9 DEF Handed, Answer, result
<1> QED
  BY <1>13, <1>14, <1>15, <1>16, <1>17, <1>18

LEMMA ClimbHolds == ASSUME IInv, Climb PROVE IInv'
<1> USE DEF IInv
<1> DEFINE n == current
           next == IF n \in Options THEN None ELSE NextOf[n]
<1>1. /\ phase = "climb" /\ n \in Nodes /\ CountsBy(value, n)
      /\ Range(paths) = Through(value, n)
  BY DEF Climb, AtClimb
<1>2. UNCHANGED <<paths, value, active, cfg, todo, failed, statfile>>
  BY DEF Climb, result
<1>3. /\ next # None \/ n = Root => current' = next /\ phase' = "ask"
      /\ ~(next # None \/ n = Root) => current' = Parent[n] /\ phase' = "climb"
  BY <1>1 DEF Climb
<1>4. CASE n = Root
  <2>1. current' = None /\ phase' = "ask"
    BY <1>3, <1>4, RootHasNoNext
  <2>2. Range(paths) = CalledBy(value)
    BY <1>1, <1>4, AllThrough
  <2>3. TypeOK' /\ Handed'
    BY <1>1, <1>2, <2>1 DEF TypeOK, Handed, Answers, Called
  <2>4. AtQuestion' /\ AtClimb'
    BY <1>2, <2>1, <2>2 DEF AtQuestion, AtClimb
  <2> QED
    BY <1>2, <2>3, <2>4 DEF Listed, Prior, Agree, Opens
<1>5. CASE n # Root /\ next # None
  <2>1. n \in Questions /\ NextOf[n] # None /\ current' = NextOf[n] /\ phase' = "ask"
    BY <1>1, <1>3, <1>5 DEF Nodes
  <2>2. current' \in CalledBy(value) /\ Range(paths) = Before(value, current')
    BY <1>1, <2>1, OnToNext
  <2>3. current' \in Nodes
    BY <2>2, CalledNodes
  <2> QED
    BY <1>1, <1>2, <2>1, <2>2, <2>3
    DEF TypeOK, Listed, Prior, AtQuestion, AtClimb, Agree, Opens, Handed, Answers, Called
<1>6. CASE n # Root /\ next = None
  <2>1. n \in Options \/ NextOf[n] = None
    BY <1>6
  <2>2. current' = Parent[n] /\ phase' = "climb"
    BY <1>3, <1>6
  <2>3. /\ current' \in Nodes /\ CountsBy(value, current')
        /\ Range(paths) = Through(value, current')
    BY <1>1, <1>6, <2>1, <2>2, UpToParent
  <2>4. TypeOK' /\ Handed'
    BY <1>1, <1>2, <2>2, <2>3 DEF TypeOK, Handed, Answers, Called
  <2>5. AtQuestion' /\ AtClimb'
    BY <1>2, <2>2, <2>3 DEF AtQuestion, AtClimb
  <2> QED
    BY <1>2, <2>4, <2>5 DEF Listed, Prior, Agree, Opens
<1> QED
  BY <1>4, <1>5, <1>6

LEMMA PrevHolds == ASSUME IInv, PrevStep PROVE IInv'
<1> USE DEF IInv
<1> DEFINE n == Len(paths)
<1>1. paths \in Seq(Questions) /\ paths # <<>> /\ phase = "ask" /\ phase' = "ask"
  BY DEF PrevStep, TypeOK
<1>2. n \in Nat \ {0} /\ n \in 1..n
  BY <1>1, EmptySeq
<1>3. current' = paths[n] /\ paths' = SubSeq(paths, 1, n - 1)
  BY DEF PrevStep, Last, Front
<1>4. /\ paths' \in Seq(Questions) /\ Len(paths') = n - 1
      /\ \A i \in 1..(n - 1) : paths'[i] = paths[i]
  <2>1. 1 \in Int /\ n - 1 \in Int /\ \A i \in 1..(n - 1) : paths[i] \in Questions
    BY <1>1, <1>2
  <2> HIDE DEF n
  <2> DEFINE s == SubSeq(paths, 1, n - 1)
  <2>2. /\ s \in Seq(Questions)
        /\ Len(s) = IF 1 <= n - 1 THEN n - 1 - 1 + 1 ELSE 0
        /\ \A i \in 1..(n - 1 - 1 + 1) : s[i] = paths[1 + i - 1]
    BY <2>1, SubSeqProperties
  <2> HIDE DEF s
  <2>3. Len(s) = n - 1 /\ \A i \in 1..(n - 1) : s[i] = paths[i]
    BY <1>2, <2>2
  <2> QED
    BY <1>3, <2>2, <2>3 DEF s
<1>5. UNCHANGED <<value, active, cfg, todo, failed, statfile>>
  BY DEF PrevStep, result
<1>6. \A i \in 1..n : Prior(i)' = Prior(i)
  BY <1>2, <1>4 DEF Prior
<1>7. Range(paths') = Prior(n)
  BY <1>2, <1>4 DEF Range, Prior
<1>8. current' \in CalledBy(value) /\ Range(paths') = Before(value, current')
  BY <1>2, <1>3, <1>7 DEF Listed
<1>9. current' \in Nodes /\ current' # None
  BY <1>8, CalledNodes, RootAssumption
<1>10. Range(paths') \subseteq Range(paths)
  BY <1>1, <1>2, <1>7 DEF Range, Prior
<1>11. Listed'
  BY <1>2, <1>4, <1>5, <1>6 DEF Listed
<1>12. TypeOK'
  BY <1>1, <1>4, <1>5, <1>9 DEF TypeOK
<1>13. AtQuestion' /\ AtClimb'
  BY <1>1, <1>5, <1>8, <1>9 DEF AtQuestion, AtClimb
<1>14. Agree'
  BY <1>5, <1>10 DEF Agree, Opens
<1>15. Handed'
  BY <1>1, <1>5 DEF Handed
<1> QED
  BY <1>11, <1>12, <1>13, <1>14, <1>15

LEMMA ProceedHolds == ASSUME IInv, Proceed PROVE IInv'
<1> USE DEF IInv
<1>1. /\ phase = "ask" /\ current = None /\ phase' = "setup" /\ cfg' = Dump
      /\ todo' \in SUBSET Handlers
      /\ UNCHANGED <<current, paths, value, active, failed, statfile>>
  BY DEF Proceed, wizard
<1>2. Dump = Answers
  BY <1>1, DumpCorrect DEF AtQuestion
<1>3. TypeOK'
  BY <1>1, DumpType DEF TypeOK
<1>4. Handed'
  BY <1>1, <1>2 DEF Handed, Answers, Called
<1> QED
  BY <1>1, <1>3, <1>4 DEF Listed, Prior, AtQuestion, AtClimb, Agree, Opens

\* The other steps leave the wizard and the configuration alone.
LEMMA OthersHold ==
    ASSUME IInv, Quit \/ (\E m \in Handlers : Setup(m)) \/ Finish \/ UNCHANGED vars
    PROVE  IInv'
<1> USE DEF IInv
<1>1. /\ UNCHANGED <<current, paths, value, active, cfg>>
      /\ phase' \in {"setup", "done", "aborted"} \/ phase' = phase
      /\ phase \in {"setup", "done", "aborted"} =>
           phase' \in {"setup", "done", "aborted"}
  BY DEF Quit, Setup, Finish, vars, wizard, result, TypeOK
<1>2. TypeOK'
  BY <1>1 DEF TypeOK, Quit, Setup, Finish, vars, wizard, result
<1>3. Listed' /\ Agree'
  BY <1>1 DEF Listed, Prior, Agree, Opens
<1>4. AtQuestion' /\ AtClimb'
  BY <1>1 DEF AtQuestion, AtClimb
<1>5. Handed'
  BY <1>1 DEF Handed, Answers, Called
<1> QED
  BY <1>2, <1>3, <1>4, <1>5

LEMMA StepHolds == IInv /\ [Next]_vars => IInv'
BY AnswerHolds, ClimbHolds, PrevHolds, ProceedHolds, OthersHold DEF Next, Goes

\* Types of the wizard, of the configuration and of the handlers still to be called,
\* for any descriptions and any defaults.
THEOREM WizardTypeOK == Spec => []TypeOK
<1>1. IInv => TypeOK
  BY DEF IInv
<1> QED
  BY <1>1, InitHolds, StepHolds, PTL DEF Spec

\* Every question that counts is asked, in the order of the descriptions, and no other,
\* however often the user goes back and answers differently.
THEOREM AskedInOrderAlways == Spec => []AskedInOrder
<1>1. ASSUME IInv PROVE AskedInOrder
  <2> USE <1>1 DEF IInv
  <2> SUFFICES ASSUME phase = "ask" PROVE AskedInOrder
    BY DEF AskedInOrder
  <2>1. paths \in Seq(Questions)
    BY DEF TypeOK
  <2>2. CASE current = None
    <3>1. Asked = paths /\ Range(paths) = Called
      BY <2>2, CalledIs DEF Asked, AtQuestion
    <3>2. \A i \in DOMAIN paths :
              /\ paths[i] \in Called
              /\ { paths[j] : j \in 1..(i - 1) } = { q \in Called : Precedes(q, paths[i]) }
      BY <2>1, CalledIs DEF Listed, Prior, Before
    <3> QED
      BY <3>1, <3>2 DEF AskedInOrder
  <2>3. CASE current # None
    <3>1. current \in CalledBy(value) /\ Range(paths) = Before(value, current)
      BY <2>3 DEF AtQuestion
    <3>2. current \in Questions
      BY <3>1 DEF CalledBy
    <3>3. /\ Asked = Append(paths, current) /\ Asked \in Seq(Questions)
          /\ Len(paths) \in Nat /\ Len(Asked) = Len(paths) + 1
          /\ \A i \in 1..Len(paths) : Asked[i] = paths[i]
          /\ Asked[Len(paths) + 1] = current
      BY <2>1, <2>3, <3>2 DEF Asked
    <3>4. ASSUME NEW i \in DOMAIN Asked
          PROVE  /\ Asked[i] \in CalledBy(value)
                 /\ { Asked[j] : j \in 1..(i - 1) } = Before(value, Asked[i])
      <4>1. i \in 1..(Len(paths) + 1)
        BY <3>3
      <4>2. { Asked[j] : j \in 1..(i - 1) } = Prior(i)
        BY <3>3, <4>1 DEF Prior
      <4>3. CASE i \in 1..Len(paths)
        <5>1. paths[i] \in CalledBy(value) /\ Prior(i) = Before(value, paths[i])
          BY <4>3 DEF Listed
        <5> QED
          BY <3>3, <4>2, <4>3, <5>1
      <4>4. CASE i = Len(paths) + 1
        BY <2>1, <3>1, <3>3, <4>2, <4>4, PathRange
      <4>5. i \in 1..Len(paths) \/ i = Len(paths) + 1
        BY <2>1, <4>1
      <4> QED
        BY <4>3, <4>4, <4>5, Zenon
    <3> QED
      BY <2>3, <3>4, CalledIs DEF AskedInOrder, Before
  <2> QED
    BY <2>2, <2>3
<1> QED
  BY <1>1, InitHolds, StepHolds, PTL DEF Spec

\* The configuration holds the last answer to each question that counts, and nothing of
\* options that were given up.
THEOREM DumpedAlways == Spec => []DumpedAsAnswered
<1>1. ASSUME IInv PROVE DumpedAsAnswered
  BY <1>1, DumpCorrect DEF IInv, AtQuestion, Handed, DumpedAsAnswered
<1> QED
  BY <1>1, InitHolds, StepHolds, PTL DEF Spec
================================================================================
