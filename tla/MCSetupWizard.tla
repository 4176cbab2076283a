---------------------------- MODULE MCSetupWizard ----------------------------
(* Instance of SetupWizard for TLC: options within options, a boolean with *)
(* options, options without questions at the end of their question, a      *)
(* question of a plugin.                                                   *)
EXTENDS SetupWizard

MCQuestions == {"db", "type", "host", "port", "dir", "org", "feed", "rate"}
MCOptions == {"on", "my", "lite", "none"}
MCKids == [ db |-> <<"on">>, on |-> <<"type">>,
            type |-> <<"my", "lite", "none">>, my |-> <<"host", "port">>, lite |-> <<"dir">>,
            none |-> <<>>, host |-> <<>>, port |-> <<>>, dir |-> <<>>, org |-> <<>>,
            feed |-> <<>>, rate |-> <<>> ]
MCBoolean == {"db", "feed"}
MCOptionValue == [on |-> "true", my |-> "mysql", lite |-> "sqlite", none |-> "other"]
MCTexts == {"a", "b"}
MCDefault == [ q \in MCQuestions |->
    CASE q = "db" -> "true" [] q = "dir" -> "a" [] OTHER -> Unset ]
MCNames == <<"kernel", "master", "seedlink">>
MCOwnInputs == [kernel |-> <<"org">>, master |-> <<"db">>, seedlink |-> <<"rate">>]
MCPluginInputs == [kernel |-> <<>>, master |-> <<>>, seedlink |-> <<"feed">>]
==============================================================================
