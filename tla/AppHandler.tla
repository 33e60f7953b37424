----------------------------- MODULE AppHandler -----------------------------
(***************************************************************************)
(* class AppHandler (app_handler.cc): the sets of local and non-local apps,*)
(* the account's own set of apps, which it changes through a pointer, and  *)
(* the config file.                                                        *)
(*                                                                         *)
(* Each operator below is what one public function does while it holds its *)
(* mutexes.  'outcome' says whether it returned ("ok") or threw ("threw"); *)
(* a function that throws may have changed state before ("basic exception  *)
(* safety", app_handler.h:47).  The locking itself, and what a caller does *)
(* after a throw, are the Launcher's: module Launcher composes the two.    *)
(***************************************************************************)
EXTENDS AppSets

CONSTANT Env   \* which of EnvEvents may happen

EnvEvents == {"writeFails",   \* WriteFile fails
              "writeTears",   \* a write that stops half way leaves a torn file
              "renameFails",  \* fs::rename or fs::remove of the config file throws
              "saveFails",    \* AccountHandler::Save throws
              "crash",        \* the process dies
              "elsewhere"}    \* another machine saves the account between two sessions

ASSUME EnvIsKnown == Env \subseteq EnvEvents

VARIABLES
    apps,           \* account_->apps
    localApps,      \* local_apps_
    nonLocalApps,   \* non_local_apps_
    configFile      \* the file at config_file_path_

handlerVars == <<apps, localApps, nonLocalApps, configFile>>

Outcomes == {"ok", "threw"}

Snapshots == [local : AppSet, nonLocal : AppSet, config : ConfigFile]

HandlerTypeOK ==
    /\ apps \in AppSet
    /\ localApps \in AppSet
    /\ nonLocalApps \in AppSet
    /\ configFile \in ConfigFile

-----------------------------------------------------------------------------
(* A failed write leaves the file as it was or torn. *)
WriteConfigFile(locals, outcome) ==
    \/ outcome = "ok" /\ configFile' = ConfigOf(locals)
    \/ /\ outcome = "threw"
       /\ "writeFails" \in Env
       /\ \/ configFile' = configFile
          \/ "writeTears" \in Env /\ configFile' = TornFile

(* Called once, after the account was read.  A config file that cannot be
   read makes it throw, and the Launcher under construction goes. *)
ConfigIsReadable == configFile.status # "torn"

Initialise(accountApps) ==
    LET locals == ParseConfig(configFile)
    IN  /\ ConfigIsReadable
        /\ apps' = accountApps
        /\ localApps' = MergedLocal(locals, accountApps)
        /\ nonLocalApps' = MergedNonLocal(locals, accountApps)
        /\ UNCHANGED configFile

CurrentSnapshot == [local |-> localApps, nonLocal |-> nonLocalApps, config |-> configFile]

(* The two sets and the account are put back before the config file is, so
   a rename that throws leaves the file behind.  The Snapshot holds no copy
   of the account's set: it is rebuilt from the other two. *)
ApplySnapshotSetsOnly(snapshot, outcome) ==   \* slip: the account not put back
    /\ UNCHANGED apps
    /\ localApps' = snapshot.local
    /\ nonLocalApps' = snapshot.nonLocal
    /\ outcome = "ok" /\ configFile' = snapshot.config

ApplySnapshotLocalAccount(snapshot, outcome) ==   \* slip: only the local apps merged
    /\ apps' = snapshot.local
    /\ localApps' = snapshot.local
    /\ nonLocalApps' = snapshot.nonLocal
    /\ outcome = "ok" /\ configFile' = snapshot.config

ApplySnapshot(snapshot, outcome) ==
    /\ apps' = SetUnion(snapshot.local, snapshot.nonLocal)
    /\ localApps' = snapshot.local
    /\ nonLocalApps' = snapshot.nonLocal
    /\ \/ outcome = "ok" /\ configFile' = snapshot.config
       \/ outcome = "threw" /\ "renameFails" \in Env /\ UNCHANGED configFile

-----------------------------------------------------------------------------
(* AddOrLinkApp with an icon.  The new app gets its own directory. *)
AddUnchecked(n, settings, icon, outcome) ==   \* slip: the account not searched first
    LET app == [settings |-> settings, dirs |-> {"appDir"}, icon |-> icon]
    IN  /\ apps' = Insert(apps, n, app)
        /\ localApps' = Insert(localApps, n, app)
        /\ UNCHANGED nonLocalApps
        /\ WriteConfigFile(Insert(localApps, n, app), outcome)

Add(n, settings, icon, outcome) ==
    LET app == [settings |-> settings, dirs |-> {"appDir"}, icon |-> icon]
    IN  \/ /\ n \in NamesIn(apps)
           /\ outcome = "threw"
           /\ UNCHANGED handlerVars
        \/ /\ n \notin NamesIn(apps)
           /\ apps' = Insert(apps, n, app)
           /\ localApps' = Insert(localApps, n, app)
           /\ UNCHANGED nonLocalApps
           /\ WriteConfigFile(Insert(localApps, n, app), outcome)

(* AddOrLinkApp without an icon.  The condition throws for every app that is
   in the non-local set; past it, non_local_itr is end(), and erasing end()
   is undefined: LinkIsUndefined says when the code gets there. *)
LinkIsUndefined(n) == n \notin NamesIn(localApps) \cup NamesIn(nonLocalApps)

Link(n, outcome) ==
    /\ n \in NamesIn(localApps) \cup NamesIn(nonLocalApps)
    /\ outcome = "threw"
    /\ UNCHANGED handlerVars

(* All Update... functions: replace app n of whichever set holds it by
   'updated' under the name m, then the account's copy, then write the file. *)
Replace(set, n, m, updated) == Insert(Erase(set, n), m, updated)

Found(n) == IF n \in NamesIn(localApps) THEN localApps[n] ELSE nonLocalApps[n]

Update(n, m, updated, outcome) ==
    LET isLocal == n \in NamesIn(localApps)
    IN  \/ /\ n \notin NamesIn(localApps) \cup NamesIn(nonLocalApps)
           /\ outcome = "threw"
           /\ UNCHANGED handlerVars
        \/ /\ n \in NamesIn(localApps) \cup NamesIn(nonLocalApps)
           /\ localApps' = IF isLocal THEN Replace(localApps, n, m, updated) ELSE localApps
           /\ nonLocalApps' =
                  IF isLocal THEN nonLocalApps ELSE Replace(nonLocalApps, n, m, updated)
           /\ \/ /\ n \notin NamesIn(apps)
                 /\ outcome = "threw"
                 /\ UNCHANGED <<apps, configFile>>
              \/ /\ n \in NamesIn(apps)
                 /\ apps' = Replace(apps, n, m, updated)
                 /\ WriteConfigFile(IF isLocal THEN Replace(localApps, n, m, updated)
                                               ELSE localApps, outcome)

(* UpdateAppDetails: which field each Update... function changes. *)
WithSettings(app, settings) == [app EXCEPT !.settings = settings]
WithIcon(app, icon) == [app EXCEPT !.icon = icon]
WithSafeDrive(app, granted) ==
    [app EXCEPT !.dirs = IF granted THEN @ \cup {"safeDrive"} ELSE @ \ {"safeDrive"}]

(* The account, and so the non-local set, are left alone: the app is in
   neither set until the next login. *)
RemoveLocallyAfterWrite(n, outcome) ==   \* slip: the file written before the erase
    /\ n \in NamesIn(localApps)
    /\ localApps' = Erase(localApps, n)
    /\ UNCHANGED <<apps, nonLocalApps>>
    /\ WriteConfigFile(localApps, outcome)

RemoveLocally(n, outcome) ==
    \/ /\ n \notin NamesIn(localApps)
       /\ outcome = "threw"
       /\ UNCHANGED handlerVars
    \/ /\ n \in NamesIn(localApps)
       /\ localApps' = Erase(localApps, n)
       /\ UNCHANGED <<apps, nonLocalApps>>
       /\ WriteConfigFile(Erase(localApps, n), outcome)

RemoveFromNonLocalOnly(n, outcome) ==   \* slip: the app left in the account
    /\ n \in NamesIn(nonLocalApps)
    /\ nonLocalApps' = Erase(nonLocalApps, n)
    /\ UNCHANGED <<apps, localApps>>
    /\ WriteConfigFile(localApps, outcome)

RemoveFromNetwork(n, outcome) ==
    \/ /\ n \notin NamesIn(nonLocalApps)
       /\ outcome = "threw"
       /\ UNCHANGED handlerVars
    \/ /\ n \in NamesIn(nonLocalApps)
       /\ nonLocalApps' = Erase(nonLocalApps, n)
       /\ UNCHANGED localApps
       /\ \/ /\ n \notin NamesIn(apps)
             /\ outcome = "threw"
             /\ UNCHANGED <<apps, configFile>>
          \/ /\ n \in NamesIn(apps)
             /\ apps' = Erase(apps, n)
             /\ WriteConfigFile(localApps, outcome)
=============================================================================
