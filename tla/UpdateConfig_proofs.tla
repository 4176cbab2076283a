-------------------------- MODULE UpdateConfig_proofs --------------------------
(***************************************************************************)
(* What update-config configures: everything that was asked for and all    *)
(* proxies, nothing else, and nothing twice.                               *)
(***************************************************************************)
EXTENDS UpdateConfig, TLAPS

(* Elements of sequences *)

LEMMA HeadAndTail ==
    ASSUME NEW S, NEW s \in Seq(S), s # <<>>
    PROVE  /\ Head(s) \in S /\ Tail(s) \in Seq(S)
           /\ Elements(s) = {Head(s)} \cup Elements(Tail(s))
<1>1. Len(s) \in Nat \ {0} /\ DOMAIN s = 1..Len(s) /\ Head(s) = s[1]
  OBVIOUS
<1>2. Tail(s) \in Seq(S) /\ Len(Tail(s)) = Len(s) - 1
  OBVIOUS
<1>3. \A i \in 1..(Len(s) - 1) : Tail(s)[i] = s[i + 1]
  OBVIOUS
<1>4. Elements(s) \subseteq {Head(s)} \cup Elements(Tail(s))
  <2> SUFFICES ASSUME NEW i \in 1..Len(s), i # 1
               PROVE  s[i] \in Elements(Tail(s))
    BY <1>1 DEF Elements
  <2>1. i - 1 \in DOMAIN Tail(s) /\ Tail(s)[i - 1] = s[i]
    BY <1>1, <1>2, <1>3
  <2> QED
    BY <2>1 DEF Elements
<1>5. Elements(Tail(s)) \subseteq Elements(s)
  <2> SUFFICES ASSUME NEW i \in 1..(Len(s) - 1)
               PROVE  Tail(s)[i] \in Elements(s)
    BY <1>2 DEF Elements
  <2>1. i + 1 \in DOMAIN s
    BY <1>1
  <2> QED
    BY <1>3, <2>1 DEF Elements
<1>6. Head(s) \in S /\ Head(s) \in Elements(s)
  BY <1>1 DEF Elements
<1> QED
  BY <1>2, <1>4, <1>5, <1>6

LEMMA ElementsOfAppend ==
    ASSUME NEW S, NEW s \in Seq(S), NEW e \in S
    PROVE  /\ Append(s, e) \in Seq(S)
           /\ Elements(Append(s, e)) = Elements(s) \cup {e}
<1>1. Append(s, e) \in Seq(S) /\ Len(Append(s, e)) = Len(s) + 1 /\ Len(s) \in Nat
  OBVIOUS
<1>2. \A i \in 1..Len(s) : Append(s, e)[i] = s[i]
  OBVIOUS
<1>3. Append(s, e)[Len(s) + 1] = e
  OBVIOUS
<1>4. DOMAIN Append(s, e) = DOMAIN s \cup {Len(s) + 1} /\ DOMAIN s = 1..Len(s)
  BY <1>1
<1> QED
  BY <1>1, <1>2, <1>3, <1>4 DEF Elements

LEMMA WithProxyElements ==
    ASSUME NEW m \in Modules, NEW rest \in Seq(Names),
           Proxy[m] \in Modules \cup {NoProxy}
    PROVE  /\ WithProxy(m, rest) \in Seq(Names)
           /\ Elements(rest) \subseteq Elements(WithProxy(m, rest))
           /\ Elements(WithProxy(m, rest)) \subseteq Elements(rest) \cup {Proxy[m]}
           /\ Proxy[m] # NoProxy =>
                Proxy[m] \in configured \cup Elements(WithProxy(m, rest))
           /\ Elements(WithProxy(m, rest)) \subseteq
                Elements(rest) \cup ({Proxy[m]} \ {NoProxy})
<1>1. Proxy[m] # NoProxy => Proxy[m] \in Names
  BY NamesAssumption
<1> QED
  BY <1>1, ElementsOfAppend DEF WithProxy

-----------------------------------------------------------------------------
(* The inductive invariant *)

\* What was asked for and not yet configured is still in the list, and so are
\* the proxies of what was configured.
Pending ==
    result # "error" =>
        /\ requested \cap Modules \subseteq configured \cup Elements(selected)
        /\ \A m \in configured :
             Proxy[m] # NoProxy =>
               Proxy[m] \in Modules /\ Proxy[m] \in configured \cup Elements(selected)

\* While the loop runs the modules updated are the modules configured.
InStep == result = "running" => Elements(updated) = configured

\* What is in the list was asked for or is a proxy of what was configured.
Justified ==
    \A n \in Elements(selected) :
        n \in requested \/ \E j \in DOMAIN updated : Proxy[updated[j]] = n

EmptyAtEnd == result = "ok" => selected = <<>>

IInv == /\ TypeOK /\ Pending /\ InStep /\ Justified /\ EmptyAtEnd
        /\ UpdatedOnce /\ NothingElse

LEMMA InitIInv == Init => IInv
<1> SUFFICES ASSUME Init PROVE IInv
  OBVIOUS
<1>1. PICK n \in 1..MaxArgs : selected \in [1..n -> Names]
  BY DEF Init
<1>2. selected \in Seq(Names)
  BY <1>1, MaxArgsAssumption
<1>3. Elements(selected) \subseteq Names
  BY <1>1 DEF Elements
<1>4. updated = <<>> /\ updated \in Seq(Modules) /\ Elements(updated) = {} /\ DOMAIN updated = {}
  BY DEF Init, Elements
<1> QED
  BY <1>2, <1>3, <1>4 DEF Init, IInv, TypeOK, Pending, InStep, Justified, EmptyAtEnd,
                          UpdatedOnce, NothingElse

\* A name that is dropped is configured already, or no module at all.
LEMMA SkipKeeps == IInv /\ Skip => IInv'
<1> SUFFICES ASSUME IInv, Skip PROVE IInv'
  OBVIOUS
<1>1. /\ Head(selected) \in Names /\ Tail(selected) \in Seq(Names)
      /\ Elements(selected) = {Head(selected)} \cup Elements(Tail(selected))
  <2>1. selected \in Seq(Names) /\ selected # <<>>
    BY DEF IInv, TypeOK, Skip
  <2> QED
    BY <2>1, HeadAndTail
<1>2. selected' = Tail(selected) /\ Elements(selected)' = Elements(Tail(selected))
  BY DEF Skip, Elements
<1>3. TypeOK'
  BY <1>1, <1>2 DEF IInv, TypeOK, Skip
<1>4. Pending'
  BY <1>1, <1>2 DEF IInv, Pending, Skip, TypeOK
<1>5. Justified'
  BY <1>1, <1>2 DEF IInv, Justified, Skip
<1> QED
  BY <1>3, <1>4, <1>5 DEF IInv, InStep, EmptyAtEnd, UpdatedOnce, NothingElse, Skip, Elements

\* An entry is appended to updated that is not there yet.
LEMMA AppendUpdated ==
    ASSUME IInv, NEW m \in Modules \ configured, result = "running",
           m \in requested \/ \E j \in DOMAIN updated : Proxy[updated[j]] = m,
           UNCHANGED requested, updated' = Append(updated, m)
    PROVE  /\ updated' \in Seq(Modules)
           /\ Elements(updated)' = Elements(updated) \cup {m}
           /\ \A j \in DOMAIN updated : j \in DOMAIN updated' /\ updated'[j] = updated[j]
           /\ \E j \in DOMAIN updated' : updated'[j] = m
           /\ UpdatedOnce' /\ NothingElse'
<1>1. updated \in Seq(Modules) /\ Elements(updated) = configured /\ m \notin Elements(updated)
  BY DEF IInv, TypeOK, InStep
<1> DEFINE n == Len(updated)
<1>2. n \in Nat /\ DOMAIN updated = 1..n /\ DOMAIN updated' = 1..(n + 1)
  BY <1>1
<1>3. \A j \in 1..n : updated'[j] = updated[j]
  BY <1>1
<1>4. updated'[n + 1] = m
  BY <1>1
<1>5. updated' \in Seq(Modules) /\ Elements(updated)' = Elements(updated) \cup {m}
  BY <1>1, ElementsOfAppend DEF Elements
<1>6. \A j \in 1..n : updated[j] # m
  BY <1>1, <1>2 DEF Elements
<1>7. UpdatedOnce'
  <2> SUFFICES ASSUME NEW i \in 1..(n + 1), NEW j \in 1..(n + 1), updated'[i] = updated'[j]
               PROVE  i = j
    BY <1>2 DEF UpdatedOnce
  <2>1. CASE i \in 1..n /\ j \in 1..n
    BY <2>1, <1>2, <1>3 DEF IInv, UpdatedOnce
  <2>2. CASE i = n + 1 /\ j \in 1..n
    BY <2>2, <1>3, <1>4, <1>6
  <2>3. CASE i \in 1..n /\ j = n + 1
    BY <2>3, <1>3, <1>4, <1>6
  <2> QED
    BY <2>1, <2>2, <2>3, <1>2
<1>8. NothingElse'
  <2> SUFFICES ASSUME NEW i \in 1..(n + 1)
               PROVE  \/ updated'[i] \in requested
                      \/ \E j \in 1..(i - 1) : Proxy[updated'[j]] = updated'[i]
    BY <1>2 DEF NothingElse
  <2>1. CASE i \in 1..n
    <3>1. \/ updated[i] \in requested
          \/ \E j \in 1..(i - 1) : Proxy[updated[j]] = updated[i]
      BY <2>1, <1>2 DEF IInv, NothingElse
    <3>2. \A j \in 1..(i - 1) : j \in 1..n
      BY <1>2
    <3> QED
      BY <2>1, <3>1, <3>2, <1>3
  <2>2. CASE i = n + 1
    <3>1. (n + 1) - 1 = n
      BY <1>2
    <3> QED
      BY <2>2, <3>1, <1>2, <1>3, <1>4
  <2> QED
    BY <2>1, <2>2, <1>2
<1> QED
  BY <1>2, <1>3, <1>4, <1>5, <1>7, <1>8

LEMMA ConfigureKeeps == IInv /\ Configure => IInv'
<1> SUFFICES ASSUME IInv, Configure PROVE IInv'
  OBVIOUS
<1> DEFINE m == Head(selected)
           rest == Tail(selected)
<1>1. /\ rest \in Seq(Names)
      /\ Elements(selected) = {m} \cup Elements(rest)
  <2>1. selected \in Seq(Names) /\ selected # <<>>
    BY DEF IInv, TypeOK, Configure
  <2> QED
    BY <2>1, HeadAndTail
<1>2. m \in Modules \ configured /\ result = "running" /\ requested' = requested
  BY DEF Configure
<1>3. m \in requested \/ \E j \in DOMAIN updated : Proxy[updated[j]] = m
  BY <1>1 DEF IInv, Justified
<1>4. kernel' \in BOOLEAN
  BY DEF IInv, TypeOK, Configure
<1>5. CASE Proxy[m] \notin Modules \cup {NoProxy}
  <2>1. result' = "error" /\ selected' = rest /\ UNCHANGED <<configured, updated>>
    BY <1>5 DEF Configure
  <2>2. TypeOK'
    BY <2>1, <1>1, <1>2, <1>4 DEF IInv, TypeOK
  <2>3. Elements(selected)' = Elements(rest)
    BY <2>1 DEF Elements
  <2>4. Justified'
    BY <2>1, <2>3, <1>1, <1>2 DEF IInv, Justified
  <2> QED
    BY <2>1, <2>2, <2>4, <1>2 DEF IInv, Pending, InStep, EmptyAtEnd, UpdatedOnce, NothingElse
<1>6. CASE Proxy[m] \in Modules \cup {NoProxy}
  <2>1. /\ selected' = WithProxy(m, rest)
        /\ updated' = Append(updated, m)
        /\ \/ configured' = configured \cup {m} /\ result' = result
           \/ configured' = configured /\ result' = "error"
    BY <1>6 DEF Configure
  <2>2. Elements(selected)' = Elements(WithProxy(m, rest))
    BY <2>1 DEF Elements
  <2>3. /\ WithProxy(m, rest) \in Seq(Names)
        /\ Elements(rest) \subseteq Elements(selected)'
        /\ Elements(selected)' \subseteq Elements(rest) \cup ({Proxy[m]} \ {NoProxy})
        /\ Proxy[m] # NoProxy => Proxy[m] \in configured \cup Elements(selected)'
    BY <1>1, <1>2, <1>6, <2>2, WithProxyElements
  <2>4. /\ updated' \in Seq(Modules)
        /\ Elements(updated)' = Elements(updated) \cup {m}
        /\ \A j \in DOMAIN updated : j \in DOMAIN updated' /\ updated'[j] = updated[j]
        /\ \E j \in DOMAIN updated' : updated'[j] = m
        /\ UpdatedOnce' /\ NothingElse'
    BY <1>2, <1>3, <2>1, AppendUpdated
  <2>5. TypeOK'
    BY <2>1, <2>3, <2>4, <1>2, <1>4 DEF IInv, TypeOK
  <2>6. Pending'
    <3> SUFFICES ASSUME result' # "error" PROVE Pending'
      BY DEF Pending
    <3>1. configured' = configured \cup {m}
      BY <2>1
    <3>2. requested \cap Modules \subseteq configured' \cup Elements(selected)'
      BY <3>1, <2>3, <1>1, <1>2 DEF IInv, Pending
    <3>3. ASSUME NEW p \in configured', Proxy[p] # NoProxy
          PROVE  Proxy[p] \in Modules /\ Proxy[p] \in configured' \cup Elements(selected)'
      <4>1. CASE p = m
        BY <4>1, <3>1, <3>3, <2>3, <1>6
      <4>2. CASE p \in configured
        BY <4>2, <3>1, <3>3, <2>3, <1>1, <1>2 DEF IInv, Pending
      <4> QED
        BY <4>1, <4>2, <3>1
    <3> QED
      BY <3>2, <3>3, <1>2 DEF Pending
  <2>7. InStep'
    BY <2>1, <2>4, <1>2 DEF IInv, InStep
  <2>8. Justified'
    BY <2>3, <2>4, <1>1, <1>2 DEF IInv, Justified
  <2>9. EmptyAtEnd'
    BY <2>1, <1>2 DEF EmptyAtEnd
  <2> QED
    BY <2>4, <2>5, <2>6, <2>7, <2>8, <2>9 DEF IInv
<1> QED
  BY <1>5, <1>6

\* The inductive invariant of update-config: the list holds what is missing.
THEOREM WorklistInvariant == Spec => []IInv
<1>1. IInv /\ [Next]_vars => IInv'
  <2> SUFFICES ASSUME IInv, [Next]_vars PROVE IInv'
    OBVIOUS
  <2>1. CASE Skip
    BY <2>1, SkipKeeps
  <2>2. CASE Configure
    BY <2>2, ConfigureKeeps
  <2>3. CASE Return
    BY <2>3 DEF Return, IInv, TypeOK, Pending, InStep, Justified, EmptyAtEnd,
                UpdatedOnce, NothingElse, Elements
  <2>4. CASE UNCHANGED vars
    BY <2>4 DEF vars, IInv, TypeOK, Pending, InStep, Justified, EmptyAtEnd,
                UpdatedOnce, NothingElse, Elements
  <2> QED
    BY <2>1, <2>2, <2>3, <2>4 DEF Next
<1> QED
  BY <1>1, InitIInv, PTL DEF Spec

\* The variables of the command keep their types, for any modules and proxies.
THEOREM TypeCorrectness == Spec => []TypeOK
<1>1. IInv => TypeOK
  BY DEF IInv
<1> QED
  BY <1>1, WorklistInvariant, PTL

\* A successful update-config has configured all that was asked for and every
\* proxy, whatever the graph of proxies looks like.
THEOREM AllProxiesConfigured == Spec => []ProxiesConfigured
<1>1. IInv => ProxiesConfigured
  <2> SUFFICES ASSUME IInv, result = "ok" PROVE ProxiesConfigured
    BY DEF ProxiesConfigured
  <2>1. Elements(selected) = {}
    BY DEF IInv, EmptyAtEnd, Elements
  <2> QED
    BY <2>1 DEF IInv, Pending, ProxiesConfigured
<1> QED
  BY <1>1, WorklistInvariant, PTL

\* No module is configured twice, and only requested modules and proxies of
\* modules configured before them are configured.
THEOREM OnceAndOnlyIfNeeded == Spec => []NeededOnce
<1>1. IInv => NeededOnce
  BY DEF IInv, NeededOnce
<1> QED
  BY <1>1, WorklistInvariant, PTL
=============================================================================
