------------------------------ MODULE AppSets ------------------------------
(***************************************************************************)
(* The data the Launcher keeps about apps (app_details.h, account.cc and   *)
(* the serialisation half of app_handler.cc).                              *)
(*                                                                         *)
(* A std::set<AppDetails> is ordered, and two elements are the same one,   *)
(* by 'name' alone, so it is a function from names to the other fields,    *)
(* with NoApp where the set has no element of that name.  Names are        *)
(* numbers because AppHandler::Initialise depends on their order.          *)
(*                                                                         *)
(* 'settings' stands for the fields that live only on this machine (path,  *)
(* args and auto_start: the code treats the three alike everywhere), 'dirs'*)
(* for permitted_dirs and 'icon' for the icon.                             *)
(***************************************************************************)
EXTENDS Integers, FiniteSetsExt

CONSTANTS
    Names,       \* the app names the callers use
    Settings,    \* values of path/args/auto_start that callers pass
    Icons,       \* icons that callers pass
    NoSettings,  \* default-constructed path, args and auto_start
    NoIcon,      \* an empty icon
    NoApp        \* no element of that name

Dirs == {"appDir", "safeDrive"}

AppDetails == [settings : Settings \cup {NoSettings},
               dirs     : SUBSET Dirs,
               icon     : Icons \cup {NoIcon}]

ASSUME NamesAreOrdered == Names \subseteq Int
ASSUME NoAppIsNoDetails == NoApp \notin AppDetails
ASSUME NoAppIsNoSetting == NoApp \notin Settings \cup {NoSettings}

AppSet == [Names -> AppDetails \cup {NoApp}]

EmptySet == [n \in Names |-> NoApp]

NamesIn(set) == {n \in Names : set[n] # NoApp}

-----------------------------------------------------------------------------
(* The std::set operations.  insert leaves an element that is already there
   as it is, and set_union takes the element of the first range when both
   ranges hold one of that name. *)

Insert(set, n, app) ==
    IF n \in NamesIn(set) THEN set ELSE [set EXCEPT ![n] = app]

Erase(set, n) == [set EXCEPT ![n] = NoApp]

SetUnion(first, second) ==
    [n \in Names |-> IF n \in NamesIn(first) THEN first[n] ELSE second[n]]

-----------------------------------------------------------------------------
(* Serialisation.  The account keeps name, permitted_dirs and icon; the
   config file keeps name, path, args and auto_start.  Each is modelled by
   what a later parse gives back. *)

Persisted(set) ==
    [n \in Names |-> IF n \in NamesIn(set)
                     THEN [set[n] EXCEPT !.settings = NoSettings]
                     ELSE NoApp]

ConfigApps == [Names -> Settings \cup {NoSettings, NoApp}]

\* "torn": a write that began and did not complete; decrypting,
\* uncompressing or parsing such a file throws.
ConfigFile == [status : {"missing", "whole", "torn"}, apps : ConfigApps]

NoFile   == [status |-> "missing", apps |-> [n \in Names |-> NoApp]]
TornFile == [status |-> "torn", apps |-> [n \in Names |-> NoApp]]

ConfigOf(locals) ==
    [status |-> "whole",
     apps   |-> [n \in Names |-> IF n \in NamesIn(locals)
                                 THEN locals[n].settings ELSE NoApp]]

ParseConfig(file) ==
    [n \in Names |-> IF file.apps[n] = NoApp THEN NoApp
                     ELSE [settings |-> file.apps[n], dirs |-> {}, icon |-> NoIcon]]

-----------------------------------------------------------------------------
(* The merge loop of AppHandler::Initialise.  An iterator is the set of names that
   it has not passed; erase moves it to the next one.  A local copy takes over
   permitted_dirs only. *)

MergeBegin(locals, nonLocals) ==
    [locals |-> locals, nonLocals |-> nonLocals,
     localItr |-> NamesIn(locals), nonLocalItr |-> NamesIn(nonLocals)]

MergeEnded(state) == state.localItr = {} \/ state.nonLocalItr = {}

MergeTurn(state) ==
    LET l == Min(state.localItr)
        n == Min(state.nonLocalItr)
        merged == [state.locals[l] EXCEPT !.dirs = state.nonLocals[n].dirs]
    IN  CASE l < n -> [state EXCEPT !.locals = Erase(@, l), !.localItr = @ \ {l}]
          [] n < l -> [state EXCEPT !.nonLocalItr = @ \ {n}]
          [] n = l -> [locals |-> Insert(Erase(state.locals, l), l, merged),
                       nonLocals |-> Erase(state.nonLocals, n),
                       localItr |-> state.localItr \ {l},
                       nonLocalItr |-> state.nonLocalItr \ {n}]

(* Each turn moves an iterator on, so that this many turns are enough. *)
MergeLoop(locals, nonLocals) ==
    LET after[turns \in Nat] ==
            IF turns = 0 THEN MergeBegin(locals, nonLocals)
            ELSE IF MergeEnded(after[turns - 1]) THEN after[turns - 1]
            ELSE MergeTurn(after[turns - 1])
    IN  after[Cardinality(NamesIn(locals)) + Cardinality(NamesIn(nonLocals))]

(* What the loop leaves.  An app in both sets keeps its local copy.  A local-only
   app is erased when the loop meets it while the non-local iterator still points at
   an element, which is then a greater one: the local-only apps after the last
   non-local one are never reached. *)

MergedLocalAsRead(locals, nonLocals) ==       \* slip: permitted_dirs not taken over
    [n \in Names |->
        IF n \notin NamesIn(nonLocals) /\ \E m \in NamesIn(nonLocals) : n < m
        THEN NoApp ELSE locals[n]]

MergedLocalFromAccount(locals, nonLocals) ==  \* slip: the whole account copy taken over
    [n \in Names |->
        IF n \in NamesIn(locals) \cap NamesIn(nonLocals) THEN nonLocals[n]
        ELSE IF \E m \in NamesIn(nonLocals) : n < m THEN NoApp ELSE locals[n]]

MergedLocal(locals, nonLocals) ==
    [n \in Names |->
        IF n \in NamesIn(locals) \cap NamesIn(nonLocals)
        THEN [locals[n] EXCEPT !.dirs = nonLocals[n].dirs]
        ELSE IF \E m \in NamesIn(nonLocals) : n < m THEN NoApp ELSE locals[n]]

MergedNonLocalUnerased(locals, nonLocals) == nonLocals   \* slip: no erase

MergedNonLocal(locals, nonLocals) ==
    [n \in Names |-> IF n \in NamesIn(locals) THEN NoApp ELSE nonLocals[n]]
=============================================================================
