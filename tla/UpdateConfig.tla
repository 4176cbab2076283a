----------------------------- MODULE UpdateConfig -----------------------------
(***************************************************************************)
(* `seiscomp update-config': a worklist of module names, to which the      *)
(* modules met on the way add their proxies.  One step is one turn of the  *)
(* loop of on_update_config, with the handlers of the module it takes:     *)
(* requiresKernelModules, updateConfigProxy and updateConfig.              *)
(***************************************************************************)
EXTENDS Naturals, Sequences

CONSTANTS
    Modules,     \* availableMods
    Names,       \* what arguments and proxies can name
    Proxy,       \* updateConfigProxy() of each module; NoProxy for None
    NoProxy,
    Requires,    \* modules whose requiresKernelModules() is True, the default
    Failing,     \* modules whose updateConfig() may return an error
    MaxArgs      \* bound: number of arguments

ASSUME NamesAssumption == Modules \subseteq Names /\ NoProxy \notin Names
ASSUME ProxyAssumption == Proxy \in [Modules -> Names \cup {NoProxy}]
ASSUME MaxArgsAssumption == MaxArgs \in Nat

VARIABLES
    selected,    \* selectedMods, the worklist
    requested,   \* the names it began with
    configured,  \* configuredMods
    updated,     \* the modules whose updateConfig() was called, in order
    kernel,      \* kernelModsStarted
    result       \* "running", or what the command returned: "ok", "error"

vars == <<selected, requested, configured, updated, kernel, result>>

Elements(s) == { s[i] : i \in DOMAIN s }

TypeOK ==
    /\ selected \in Seq(Names)
    /\ requested \subseteq Names
    /\ configured \subseteq Modules
    /\ updated \in Seq(Modules)
    /\ kernel \in BOOLEAN
    /\ result \in {"running", "ok", "error"}

\* Without arguments all modules are selected, one of these lists; otherwise
\* the names the user typed, possibly repeated or unknown.
Init ==
    /\ selected \in UNION { [1..n -> Names] : n \in 1..MaxArgs }
    /\ requested = Elements(selected)
    /\ configured = {}
    /\ updated = <<>>
    /\ kernel = FALSE
    /\ result = "running"

-----------------------------------------------------------------------------
\* Mutant: the name is looked at but not taken from the list.
Mut_Skip ==
    /\ result = "running" /\ selected # <<>>
    /\ Head(selected) \notin Modules \/ Head(selected) \in configured
    /\ UNCHANGED vars

\* A name that is not available or has been dealt with is dropped.
Skip ==
    /\ result = "running" /\ selected # <<>>
    /\ Head(selected) \notin Modules \/ Head(selected) \in configured
    /\ selected' = Tail(selected)
    /\ UNCHANGED <<requested, configured, updated, kernel, result>>

\* Mutant: the proxy is not appended.
Mut_WithProxy(m, rest) == rest

\* The worklist after m was taken: its proxy is appended, unless it is there.
WithProxy(m, rest) ==
    IF Proxy[m] = NoProxy \/ Proxy[m] \in configured \cup Elements(rest)
        THEN rest ELSE Append(rest, Proxy[m])

\* Mutant: configuredMods.add(name) is missing.
Mut_Configure ==
    /\ result = "running" /\ selected # <<>>
    /\ Head(selected) \in Modules \ configured
    /\ LET m == Head(selected) IN
         /\ Proxy[m] \in Modules \cup {NoProxy}
         /\ kernel' = (kernel \/ m \in Requires)
         /\ selected' = WithProxy(m, Tail(selected))
         /\ updated' = Append(updated, m)
    /\ UNCHANGED <<requested, configured, result>>

\* m is taken; the kernel modules are started before the first one needs them.
\* A proxy that is not available, or an error of updateConfig, ends the command.
Configure ==
    /\ result = "running" /\ selected # <<>>
    /\ Head(selected) \in Modules \ configured
    /\ LET m == Head(selected) IN
         /\ kernel' = (kernel \/ m \in Requires)
         /\ \/ /\ Proxy[m] \notin Modules \cup {NoProxy}
               /\ result' = "error"
               /\ selected' = Tail(selected)
               /\ UNCHANGED <<configured, updated>>
            \/ /\ Proxy[m] \in Modules \cup {NoProxy}
               /\ selected' = WithProxy(m, Tail(selected))
               /\ updated' = Append(updated, m)
               /\ \/ configured' = configured \cup {m} /\ UNCHANGED result
                  \/ m \in Failing /\ UNCHANGED configured /\ result' = "error"
    /\ UNCHANGED requested

\* The worklist is empty.
Return ==
    /\ result = "running" /\ selected = <<>>
    /\ result' = "ok"
    /\ UNCHANGED <<selected, requested, configured, updated, kernel>>

Next == Skip \/ Configure \/ Return

Spec == Init /\ [][Next]_vars

\* The loop goes on.
FairSpec == Spec /\ WF_vars(Next)

-----------------------------------------------------------------------------
(* Properties *)

\* Success means that everything is configured that was asked for, and every
\* proxy of what was configured, transitively.
ProxiesConfigured ==
    result = "ok" =>
        /\ requested \cap Modules \subseteq configured
        /\ \A m \in configured : Proxy[m] # NoProxy => Proxy[m] \in configured

\* No module is configured twice, though it may be selected repeatedly, be the
\* proxy of several modules, or of one of its own proxies.
UpdatedOnce ==
    \A i, j \in DOMAIN updated : updated[i] = updated[j] => i = j

\* Only what was asked for, or is the proxy of a module that was configured
\* before it, is configured.
NothingElse ==
    \A i \in DOMAIN updated :
        \/ updated[i] \in requested
        \/ \E j \in 1..(i - 1) : Proxy[updated[j]] = updated[i]

\* update-config does everything it has to do once, and nothing else.
NeededOnce == UpdatedOnce /\ NothingElse

\* The command ends, also when proxies refer to each other.
Ends == <>(result # "running")
=============================================================================
