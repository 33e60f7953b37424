-------------------------- MODULE OneCallerProofs --------------------------
(* What one caller gets from the Launcher, for any apps, details and failures:
   from one session the strong guarantee, a rollback snapshot that is true to what
   was saved, and nothing but what LauncherService promises; and, over any number
   of sessions, crashes, saves of other machines and writes and undos that fail, a
   config file that is right. *)
EXTENDS LauncherProofs

(* No RemoveAppLocally, no second session, and nothing undefined. *)
OneSession(caller) ==
    /\ Threads = {caller}
    /\ Env \cap {"crash", "elsewhere"} = {}
    /\ Ops \cap {"removeLocally", "link", "logout"} = {}
    /\ ~CollidingRenames

-----------------------------------------------------------------------------
(* The inductive invariant. *)

ShownBy(snapshot) == SetUnion(snapshot.local, snapshot.nonLocal)

(* The apps that the account on the network was saved with. *)
LastSaved(caller) ==
    IF rollback # NoSnapshot THEN ShownBy(rollback)
    ELSE IF pc[caller] \in InCall THEN ShownBy(snap[caller])
    ELSE apps

(* Before the login. *)
Fresh(caller) ==
    /\ configFile = NoFile
    /\ localApps = EmptySet
    /\ nonLocalApps = EmptySet
    /\ rollback = NoSnapshot
    /\ pc[caller] = "idle"
    /\ Persisted(saved) = saved

InCallInv(caller) ==
    /\ pc[caller] # "stuck"
    /\ pc[caller] = "apply" => snap[caller] = CurrentSnapshot
    /\ pc[caller] = "record" => rollback = NoSnapshot

OneSessionInv(caller) ==
    /\ ShownOnceInv
    /\ ~running => Fresh(caller)
    /\ running => Coherent /\ Persisted(LastSaved(caller)) = saved
    /\ InCallInv(caller)

-----------------------------------------------------------------------------
(* What is in the account of a session. *)

LEMMA FoundInAccount ==
    ASSUME HandlerTypeOK, Coherent, NEW n \in NamesIn(localApps) \cup NamesIn(nonLocalApps)
    PROVE  n \in NamesIn(apps) /\ Found(n) = apps[n]
  BY NamesOfUnion DEF Coherent, Found, SetUnion, NamesIn, Disjoint, HandlerTypeOK

(* The account as it is saved has no path, args and auto_start. *)
LEMMA SettingsAreNotSaved ==
    ASSUME NEW set \in AppSet, NEW n \in NamesIn(set), NEW settings \in Settings
    PROVE  Persisted(Replace(set, n, n, WithSettings(set[n], settings))) = Persisted(set)
  <1> DEFINE app == WithSettings(set[n], settings)
  <1>1. n \in Names /\ set[n] \in AppDetails /\ app \in AppDetails
    BY InSetHasDetails, UpdatedType
  <1>2. Replace(set, n, n, app) = [k \in Names |-> IF k = n THEN app ELSE set[k]]
    BY <1>1, ReplaceValue
  <1>3. [app EXCEPT !.settings = NoSettings] = [set[n] EXCEPT !.settings = NoSettings]
    BY <1>1 DEF WithSettings, AppDetails
  <1>4. app # NoApp /\ set[n] # NoApp
    BY <1>1, NoAppIsNoDetails
  <1> HIDE DEF app
  <1>5. NamesIn(Replace(set, n, n, app)) = NamesIn(set)
    BY <1>1, <1>2, <1>4 DEF NamesIn
  <1>6. ASSUME NEW k \in Names
        PROVE  (IF k \in NamesIn(Replace(set, n, n, app))
                THEN [Replace(set, n, n, app)[k] EXCEPT !.settings = NoSettings] ELSE NoApp)
               = (IF k \in NamesIn(set) THEN [set[k] EXCEPT !.settings = NoSettings] ELSE NoApp)
    <2>1. CASE k = n
      BY <1>1, <1>2, <1>3, <1>5, <2>1
    <2>2. CASE k # n
      BY <1>1, <1>2, <1>5, <2>2
    <2> QED
      BY <2>1, <2>2
  <1> QED
    BY <1>6 DEF Persisted, app

-----------------------------------------------------------------------------
(* An AppHandler function leaves the call with its snapshot, or done with and
   nothing to save. *)
LEMMA ApplyLeaves ==
    ASSUME NEW caller, OneSession(caller), TypeOK, Coherent, Apply(caller)
    PROVE  /\ pc[caller] = "apply"
           /\ UNCHANGED <<running, saved, rollback>>
           /\ \/ pc' = [pc EXCEPT ![caller] = "mark"] /\ UNCHANGED snap
              \/ pc' = [pc EXCEPT ![caller] = "undo"] /\ UNCHANGED snap
              \/ pc' = [pc EXCEPT ![caller] = "idle"] /\ Persisted(apps') = Persisted(apps)
  <1> USE DEF OneSession
  <1>1. CASE AddApp(caller)
    BY <1>1 DEF AddApp, Calls, Unsaved, GoTo, sessionVars
  <1>2. CASE UpdateAppName(caller)
    BY <1>2 DEF UpdateAppName, Calls, Unsaved, GoTo, sessionVars
  <1>3. CASE UpdateAppSettings(caller)
    <2>1. PICK n \in Names, settings \in Settings, outcome \in Outcomes :
              /\ Update(n, n, WithSettings(Found(n), settings), outcome)
              /\ LocalOnly(caller, outcome)
      BY <1>3 DEF UpdateAppSettings
    <2>2. CASE outcome = "ok"
      <3>1. /\ n \in NamesIn(localApps) \cup NamesIn(nonLocalApps)
            /\ apps' = Replace(apps, n, n, WithSettings(Found(n), settings))
        BY <2>1, <2>2 DEF Update
      <3>2. Persisted(apps') = Persisted(apps)
        BY <3>1, FoundInAccount, SettingsAreNotSaved DEF TypeOK, HandlerTypeOK
      <3> QED
        BY <1>3, <2>1, <2>2, <3>2
        DEF UpdateAppSettings, LocalOnly, Return, Calls, GoTo, sessionVars
    <2>3. CASE outcome = "threw"
      BY <1>3, <2>1, <2>3 DEF UpdateAppSettings, LocalOnly, Return, Calls, GoTo, sessionVars
    <2> QED
      BY <2>2, <2>3 DEF Outcomes
  <1>4. CASE UpdateAppSafeDriveAccess(caller)
    BY <1>4 DEF UpdateAppSafeDriveAccess, Calls, Unsaved, GoTo, sessionVars
  <1>5. CASE UpdateAppIcon(caller)
    BY <1>5 DEF UpdateAppIcon, Calls, Unsaved, GoTo, sessionVars
  <1>6. CASE RemoveAppFromNetwork(caller)
    BY <1>6 DEF RemoveAppFromNetwork, Calls, Unsaved, GoTo, sessionVars
  <1> QED
    BY <1>1, <1>2, <1>3, <1>4, <1>5, <1>6
    DEF Apply, LinkApp, LinkAppIsUndefined, Calls, RemoveAppLocally

-----------------------------------------------------------------------------
(* The invariant is kept. *)

LEMMA PersistedAgain ==
    ASSUME NEW set \in AppSet, \A n \in NamesIn(set) : set[n].settings = NoSettings
    PROVE  Persisted(set) = set
  <1>1. ASSUME NEW n \in NamesIn(set)
        PROVE  [set[n] EXCEPT !.settings = NoSettings] = set[n]
    BY <1>1, InSetHasDetails DEF AppDetails
  <1> QED
    BY <1>1 DEF Persisted, AppSet, NamesIn

LEMMA InitIsFresh ==
    ASSUME NEW caller, OneSession(caller), Init
    PROVE  OneSessionInv(caller)
  <1>1. ShownOnceInv
    BY InitType, NamesOfEmptySet DEF Init, ShownOnceInv, ShownOnce, Disjoint, SnapshotsDisjoint
  <1>2. PICK there \in SUBSET Names, icon \in Icons :
            saved = [n \in Names |-> IF n \in there THEN AppAddedElsewhere(icon) ELSE NoApp]
    BY DEF Init
  <1>3. \A n \in NamesIn(saved) : saved[n].settings = NoSettings
    BY <1>2 DEF NamesIn, AppAddedElsewhere
  <1>4. Persisted(saved) = saved
    BY <1>1, <1>3, PersistedAgain DEF ShownOnceInv, TypeOK
  <1> QED
    BY <1>1, <1>4 DEF Init, OneSession, OneSessionInv, Fresh, InCallInv

(* Without a config file the first login shows the account as it is. *)
LEMMA LoginShowsAll ==
    ASSUME NEW caller, Fresh(caller), TypeOK, Login
    PROVE  /\ localApps' = EmptySet
           /\ nonLocalApps' = saved
           /\ apps' = saved
           /\ Coherent'
  <1>1. ParseConfig(configFile) = EmptySet
    BY DEF Fresh, NoFile, ParseConfig, EmptySet
  <1>2. MergedLocal(EmptySet, saved) = EmptySet
    BY DEF MergedLocal, EmptySet, NamesIn
  <1>3. MergedNonLocal(EmptySet, saved) = saved
    BY DEF MergedNonLocal, EmptySet, NamesIn, TypeOK, AppSet
  <1>4. SetUnion(EmptySet, saved) = saved
    BY DEF SetUnion, EmptySet, NamesIn, TypeOK, AppSet
  <1> QED
    BY <1>1, <1>2, <1>3, <1>4, NamesOfEmptySet DEF Login, Initialise, Coherent, Disjoint

(* Only a login gets a session going, and nothing ends it. *)
LEMMA OutsideSession ==
    ASSUME NEW caller, OneSession(caller), OneSessionInv(caller), Outside
    PROVE  ~running /\ Login
  <1> USE DEF OneSession, OneSessionInv
  <1>1. ~LoginThrows
    BY DEF LoginThrows, ConfigIsReadable, Fresh, NoFile
  <1>2. ~Crash
    BY DEF Crash, MutexFree, InCallInv
  <1>3. ~SavedElsewhere /\ ~LogoutAndStop
    BY DEF SavedElsewhere, LogoutAndStop
  <1> QED
    BY <1>1, <1>2, <1>3 DEF Outside, Login

LEMMA LoginKeepsInv ==
    ASSUME NEW caller, OneSession(caller), OneSessionInv(caller), ShownOnceInv', ~running, Login
    PROVE  OneSessionInv(caller)'
  <1>1. /\ apps' = saved
        /\ Coherent'
    BY LoginShowsAll DEF OneSessionInv, ShownOnceInv
  <1>2. running' /\ UNCHANGED <<saved, rollback, pc, snap>>
    BY DEF Login, callVars
  <1> QED
    BY <1>1, <1>2 DEF OneSessionInv, Fresh, InCallInv, LastSaved, InCall

(* Before its login a session has no call. *)
LEMMA StepInSession ==
    ASSUME NEW caller, OneSession(caller), OneSessionInv(caller),
           Start(caller) \/ Continue(caller) \/ RevertThrows(caller)
    PROVE  running /\ running'
  <1>1. pc[caller] = "idle" => Start(caller)
    BY DEF Continue, Apply, AddApp, LinkApp, LinkAppIsUndefined, UpdateAppName,
           UpdateAppSettings, UpdateAppSafeDriveAccess, UpdateAppIcon, RemoveAppLocally,
           RemoveAppFromNetwork, Calls, Mark, Record, Undo, SaveSucceeds, SaveThrows,
           RevertThrows
  <1>2. running
    BY <1>1 DEF Start, Begin, SaveSession, RevertToLastSavedSession, OneSessionInv, Fresh
  <1> QED
    BY <1>2
    DEF Start, Continue, Apply, AddApp, LinkApp, LinkAppIsUndefined, UpdateAppName,
        UpdateAppSettings, UpdateAppSafeDriveAccess, UpdateAppIcon, RemoveAppLocally,
        RemoveAppFromNetwork, Calls, Mark, Record, Undo, SaveSucceeds, SaveThrows, RevertThrows,
        Begin, SaveSession, RevertToLastSavedSession, sessionVars

(* A session stays coherent. *)
LEMMA StaysCoherentInSession ==
    ASSUME NEW caller, OneSession(caller), OneSessionInv(caller),
           Start(caller) \/ Continue(caller) \/ RevertThrows(caller)
    PROVE  Coherent'
  <1>1. SessionStep(caller)
    BY CallIsSessionStep DEF OneSession, OneSessionInv
  <1>2. ~RemoveAppLocally(caller)
    BY DEF RemoveAppLocally, OneSession
  <1>3. Coherent /\ ShownOnce
    BY StepInSession DEF OneSessionInv, ShownOnceInv
  <1> QED
    BY <1>1, <1>2, <1>3 DEF SessionStep, SteadyAndCoherent

LEMMA CallKeepsInv ==
    ASSUME NEW caller, OneSession(caller), OneSessionInv(caller), ShownOnceInv',
           Start(caller) \/ Continue(caller) \/ RevertThrows(caller)
    PROVE  OneSessionInv(caller)'
  <1>1. running /\ running' /\ Coherent'
    BY StepInSession, StaysCoherentInSession
  <1>2. /\ TypeOK
        /\ Coherent
        /\ Persisted(LastSaved(caller)) = saved
        /\ InCallInv(caller)
        /\ caller \in Threads
        /\ pc \in [Threads -> PCs]
        /\ snap \in [Threads -> SnapshotOrNone]
    BY <1>1 DEF OneSessionInv, ShownOnceInv, TypeOK, OneSession
  <1> DEFINE Goal == Persisted(LastSaved(caller)') = saved' /\ InCallInv(caller)'
  <1> SUFFICES Goal
    BY <1>1 DEF OneSessionInv
  <1>3. apps = ShownBy(CurrentSnapshot)
    BY <1>2 DEF Coherent, ShownBy, CurrentSnapshot
  <1>4. CASE Begin(caller)
    BY <1>2, <1>3, <1>4
    DEF Begin, GoTo, sessionVars, handlerVars, LastSaved, InCall, InCallInv, CurrentSnapshot
  <1>5. CASE Apply(caller)
    <2>1. /\ pc[caller] = "apply"
          /\ UNCHANGED <<running, saved, rollback>>
          /\ \/ pc' = [pc EXCEPT ![caller] = "mark"] /\ UNCHANGED snap
             \/ pc' = [pc EXCEPT ![caller] = "undo"] /\ UNCHANGED snap
             \/ pc' = [pc EXCEPT ![caller] = "idle"] /\ Persisted(apps') = Persisted(apps)
      BY <1>2, <1>5, ApplyLeaves
    <2>2. apps = ShownBy(snap[caller])
      BY <1>2, <1>3, <2>1 DEF InCallInv
    <2>3. InCallInv(caller)'
      BY <1>2, <2>1 DEF InCallInv
    <2>4. CASE UNCHANGED snap /\ (pc' = [pc EXCEPT ![caller] = "mark"]
                                   \/ pc' = [pc EXCEPT ![caller] = "undo"])
      BY <1>2, <2>1, <2>3, <2>4 DEF LastSaved, InCall, ShownBy
    <2>5. CASE pc' = [pc EXCEPT ![caller] = "idle"] /\ Persisted(apps') = Persisted(apps)
      BY <1>2, <2>1, <2>2, <2>3, <2>5 DEF LastSaved, InCall
    <2> QED
      BY <2>1, <2>4, <2>5
  <1>6. CASE Mark(caller)
    BY <1>2, <1>6 DEF Mark, GoTo, Return, sessionVars, handlerVars, LastSaved, InCall, InCallInv
  <1>7. CASE Record(caller)
    <2>1. snap[caller] # NoSnapshot
      BY <1>2, <1>7 DEF Record, TypeOK
    <2> QED
      BY <1>2, <1>7, <2>1
      DEF Record, GoTo, Return, sessionVars, handlerVars, LastSaved, InCall, InCallInv
  <1>8. CASE Undo(caller)
    <2>1. apps' = ShownBy(snap[caller])
      BY <1>8 DEF Undo, ApplySnapshot, ShownBy
    <2> QED
      BY <1>2, <1>8, <2>1 DEF Undo, GoTo, Return, sessionVars, LastSaved, InCall, InCallInv
  <1>9. CASE SaveSession(caller) \/ RevertToLastSavedSession(caller)
    BY <1>2, <1>9
    DEF SaveSession, RevertToLastSavedSession, GoTo, sessionVars, handlerVars, LastSaved, InCall,
        InCallInv
  <1>10. CASE SaveThrows(caller) \/ RevertThrows(caller)
    BY <1>2, <1>10
    DEF SaveThrows, RevertThrows, Return, GoTo, sessionVars, handlerVars, LastSaved, InCall,
        InCallInv
  <1>11. CASE SaveSucceeds(caller)
    BY <1>2, <1>11
    DEF SaveSucceeds, Return, GoTo, handlerVars, LastSaved, InCall, InCallInv
  <1> QED
    BY <1>4, <1>5, <1>6, <1>7, <1>8, <1>9, <1>10, <1>11 DEF Start, Continue

LEMMA UnchangedKeepsInv ==
    ASSUME NEW caller, OneSessionInv(caller), ShownOnceInv', UNCHANGED vars
    PROVE  OneSessionInv(caller)'
  BY DEF vars, OneSessionInv, Fresh, InCallInv, LastSaved, Coherent, Disjoint, CurrentSnapshot,
         ShownBy

THEOREM OneSessionInvHolds ==
    ASSUME NEW caller, OneSession(caller)
    PROVE  Spec => []OneSessionInv(caller)
  <1>1. Init => OneSessionInv(caller)
    BY InitIsFresh
  <1>2. OneSessionInv(caller) /\ ShownOnceInv' /\ [Next]_vars => OneSessionInv(caller)'
    <2> SUFFICES ASSUME OneSessionInv(caller), ShownOnceInv', [Next]_vars
                 PROVE  OneSessionInv(caller)'
      OBVIOUS
    <2>1. CASE Outside
      BY <2>1, OutsideSession, LoginKeepsInv
    <2>2. ASSUME NEW t \in Threads, Start(t) \/ Continue(t) \/ RevertThrows(t)
          PROVE  OneSessionInv(caller)'
      <3>1. t = caller
        BY DEF OneSession
      <3> QED
        BY <2>2, <3>1, CallKeepsInv
    <2>3. CASE UNCHANGED vars
      BY <2>3, UnchangedKeepsInv
    <2> QED
      BY <2>1, <2>2, <2>3 DEF Next
  <1>3. Spec => []ShownOnceInv
    BY InvariantHolds DEF OneSession
  <1> QED
    BY <1>1, <1>2, <1>3, PTL DEF Spec

(* The strong guarantee: before the AppHandler function of a call runs, its
   snapshot is all that it could change. *)
THEOREM UndoRestores ==
    ASSUME NEW caller, OneSession(caller)
    PROVE  Spec => []UndoWouldRestore
  <1>1. OneSessionInv(caller) => UndoWouldRestore
    <2> SUFFICES ASSUME OneSessionInv(caller), pc[caller] = "apply"
                 PROVE  /\ snap[caller] = CurrentSnapshot
                        /\ apps = SetUnion(snap[caller].local, snap[caller].nonLocal)
      BY DEF UndoWouldRestore, OneSession
    <2>1. running
      BY DEF OneSessionInv, Fresh
    <2> QED
      BY <2>1 DEF OneSessionInv, InCallInv, Coherent, CurrentSnapshot
  <1> QED
    BY <1>1, OneSessionInvHolds, PTL

(* SaveSession returns early only when there is nothing to save. *)
THEOREM ChangesAreFlagged ==
    ASSUME NEW caller, OneSession(caller)
    PROVE  Spec => []UnsavedIsFlagged
  <1>1. OneSessionInv(caller) => UnsavedIsFlagged
    BY DEF OneSessionInv, UnsavedIsFlagged, LastSaved, AllIdle, OneSession, InCall
  <1> QED
    BY <1>1, OneSessionInvHolds, PTL

(* What a rollback would bring back is what was saved last. *)
THEOREM RollbackIsTrue ==
    ASSUME NEW caller, OneSession(caller)
    PROVE  Spec => []RollbackIsLastSaved
  <1>1. OneSessionInv(caller) => RollbackIsLastSaved
    BY DEF OneSessionInv, RollbackIsLastSaved, LastSaved, ShownBy
  <1> QED
    BY <1>1, OneSessionInvHolds, PTL

-----------------------------------------------------------------------------
(* The Launcher implements LauncherService.  While a throw is being undone, the
   sets of the caller are those of the snapshot. *)

LEMMA PromisedSets ==
    ASSUME NEW caller, OneSession(caller)
    PROVE  /\ PromisedLocal =
                  IF pc[caller] = "undo" THEN snap[caller].local ELSE localApps
           /\ PromisedNonLocal =
                  IF pc[caller] = "undo" THEN snap[caller].nonLocal ELSE nonLocalApps
           /\ PromisedLocal' =
                  IF pc'[caller] = "undo" THEN snap'[caller].local ELSE localApps'
           /\ PromisedNonLocal' =
                  IF pc'[caller] = "undo" THEN snap'[caller].nonLocal ELSE nonLocalApps'
  <1>1. /\ pc[caller] = "undo" => Undoing = {caller}
        /\ pc[caller] # "undo" => Undoing = {}
        /\ pc'[caller] = "undo" => Undoing' = {caller}
        /\ pc'[caller] # "undo" => Undoing' = {}
    BY DEF Undoing, OneSession
  <1>2. (CHOOSE t \in {caller} : TRUE) = caller
    OBVIOUS
  <1> QED
    BY <1>1, <1>2 DEF PromisedLocal, PromisedNonLocal

(* The apps shown are the account's. *)
LEMMA PromisedShown ==
    ASSUME NEW caller, OneSession(caller), OneSessionInv(caller), running, pc[caller] # "undo"
    PROVE  Promised!Shown = apps
  BY PromisedSets DEF OneSessionInv, Coherent, Promised!Shown, Promised!SetUnion,
     Promised!NamesIn, SetUnion, NamesIn

(* The functions that succeed do what LauncherService says. *)

LEMMA AddIsPromised ==
    ASSUME NEW caller, OneSession(caller), OneSessionInv(caller), running,
           pc[caller] # "undo", pc'[caller] # "undo",
           NEW n \in Names, NEW settings \in Settings, NEW icon \in Icons,
           Add(n, settings, icon, "ok")
    PROVE  Promised!Add
  <1>1. /\ PromisedLocal = localApps /\ PromisedLocal' = localApps'
        /\ PromisedNonLocal = nonLocalApps /\ PromisedNonLocal' = nonLocalApps'
    BY PromisedSets
  <1>2. /\ n \notin NamesIn(apps)
        /\ UNCHANGED nonLocalApps
        /\ localApps' = Insert(localApps, n, [settings |-> settings, dirs |-> {"appDir"},
                                              icon |-> icon])
    BY DEF Add
  <1>3. n \in Names \ Promised!NamesIn(Promised!Shown)
    BY <1>2, PromisedShown DEF NamesIn, Promised!NamesIn
  <1> QED
    BY <1>1, <1>2, <1>3 DEF Promised!Add, Insert, NamesIn, Promised!Insert, Promised!NamesIn

LEMMA RemoveFromNetworkIsPromised ==
    ASSUME NEW caller, OneSession(caller), pc[caller] # "undo", pc'[caller] # "undo",
           NEW n \in Names, RemoveFromNetwork(n, "ok")
    PROVE  Promised!RemoveFromNetwork
  <1>1. /\ PromisedLocal = localApps /\ PromisedLocal' = localApps'
        /\ PromisedNonLocal = nonLocalApps /\ PromisedNonLocal' = nonLocalApps'
    BY PromisedSets
  <1> QED
    BY <1>1 DEF RemoveFromNetwork, Promised!RemoveFromNetwork, NamesIn, Promised!NamesIn,
       Erase, Promised!Erase

(* An update that gives the app the same name replaces one field. *)
LEMMA UpdatedIsPromised ==
    ASSUME NEW set \in AppSet, NEW n \in NamesIn(set)
    PROVE  /\ \A settings \in Settings :
                  Promised!Replaces(set, Replace(set, n, n, WithSettings(set[n], settings)))
           /\ \A icon \in Icons :
                  Promised!Replaces(set, Replace(set, n, n, WithIcon(set[n], icon)))
           /\ \A granted \in BOOLEAN :
                  Promised!Replaces(set, Replace(set, n, n, WithSafeDrive(set[n], granted)))
           /\ Replace(set, n, n, set[n]) = set
  <1>1. n \in Names /\ set[n] \in AppDetails
    BY InSetHasDetails
  <1>2. ASSUME NEW app \in AppDetails
        PROVE  Replace(set, n, n, app) = [set EXCEPT ![n] = app]
    BY <1>1, ReplaceValue DEF AppSet
  <1>3. n \in Promised!NamesIn(set)
    BY DEF NamesIn, Promised!NamesIn
  <1>4. ASSUME NEW settings \in Settings
        PROVE  Promised!Replaces(set, Replace(set, n, n, WithSettings(set[n], settings)))
    <2>1. Replace(set, n, n, WithSettings(set[n], settings))
              = [set EXCEPT ![n].settings = settings]
      BY <1>1, <1>2, UpdatedType DEF WithSettings
    <2> QED
      BY <1>3, <2>1 DEF Promised!Replaces
  <1>5. ASSUME NEW icon \in Icons
        PROVE  Promised!Replaces(set, Replace(set, n, n, WithIcon(set[n], icon)))
    <2>1. Replace(set, n, n, WithIcon(set[n], icon)) = [set EXCEPT ![n].icon = icon]
      BY <1>1, <1>2, UpdatedType DEF WithIcon
    <2> QED
      BY <1>3, <2>1 DEF Promised!Replaces
  <1>6. ASSUME NEW granted \in BOOLEAN
        PROVE  Promised!Replaces(set, Replace(set, n, n, WithSafeDrive(set[n], granted)))
    <2>1. Replace(set, n, n, WithSafeDrive(set[n], granted))
              = [set EXCEPT ![n] = WithSafeDrive(set[n], granted)]
      BY <1>1, <1>2, UpdatedType
    <2>2. CASE granted
      <3>1. WithSafeDrive(set[n], granted)
                = [set[n] EXCEPT !.dirs = set[n].dirs \cup {"safeDrive"}]
        BY <1>1, <2>2 DEF WithSafeDrive, AppDetails
      <3> QED
        BY <1>3, <2>1, <3>1 DEF Promised!Replaces
    <2>3. CASE ~granted
      <3>1. WithSafeDrive(set[n], granted)
                = [set[n] EXCEPT !.dirs = set[n].dirs \ {"safeDrive"}]
        BY <1>1, <2>3 DEF WithSafeDrive, AppDetails
      <3> QED
        BY <1>3, <2>1, <3>1 DEF Promised!Replaces
    <2> QED
      BY <2>2, <2>3
  <1>7. Replace(set, n, n, set[n]) = set
    BY <1>1, <1>2 DEF AppSet
  <1> QED
    BY <1>4, <1>5, <1>6, <1>7

LEMMA RenamedIsPromised ==
    ASSUME NEW caller, OneSession(caller), OneSessionInv(caller), running, pc[caller] # "undo",
           NEW set \in AppSet, NEW n \in NamesIn(set), NEW m \in Names, ~InUse(m)
    PROVE  Promised!Renames(set, Replace(set, n, m, set[n]))
  <1>1. m \in Names \ Promised!NamesIn(Promised!Shown)
    BY PromisedShown DEF InUse, NamesIn, Promised!NamesIn
  <1>2. n \in Promised!NamesIn(set)
    BY DEF NamesIn, Promised!NamesIn
  <1>3. Replace(set, n, m, set[n]) = Promised!Insert(Promised!Erase(set, n), m, set[n])
    BY DEF Replace, Insert, Erase, NamesIn, Promised!Insert, Promised!Erase, Promised!NamesIn
  <1> QED
    BY <1>1, <1>2, <1>3 DEF Promised!Renames

LEMMA UpdateIsPromised ==
    ASSUME NEW caller, OneSession(caller), OneSessionInv(caller), running,
           pc[caller] # "undo", pc'[caller] # "undo",
           NEW n \in Names, NEW m \in Names, NEW updated,
           \A set \in AppSet : n \in NamesIn(set) /\ Found(n) = set[n] =>
               \/ Promised!Renames(set, Replace(set, n, m, updated))
               \/ Promised!Replaces(set, Replace(set, n, m, updated))
               \/ Replace(set, n, m, updated) = set,
           Update(n, m, updated, "ok")
    PROVE  Promised!Update \/ UNCHANGED <<PromisedLocal, PromisedNonLocal>>
  <1>1. /\ PromisedLocal = localApps /\ PromisedLocal' = localApps'
        /\ PromisedNonLocal = nonLocalApps /\ PromisedNonLocal' = nonLocalApps'
    BY PromisedSets
  <1>2. localApps \in AppSet /\ nonLocalApps \in AppSet
    BY DEF OneSessionInv, ShownOnceInv, TypeOK, HandlerTypeOK
  <1>3. CASE n \in NamesIn(localApps)
    <2>1. localApps' = Replace(localApps, n, m, updated) /\ nonLocalApps' = nonLocalApps
      BY <1>3 DEF Update
    <2> QED
      BY <1>1, <1>2, <1>3, <2>1 DEF Found, Promised!Update
  <1>4. CASE n \notin NamesIn(localApps)
    <2>1. /\ n \in NamesIn(nonLocalApps)
          /\ nonLocalApps' = Replace(nonLocalApps, n, m, updated)
          /\ localApps' = localApps
      BY <1>4 DEF Update
    <2> QED
      BY <1>1, <1>2, <1>4, <2>1 DEF Found, Promised!Update
  <1> QED
    BY <1>3, <1>4

(* A function that throws has, to the caller, not been called. *)
LEMMA ThrowIsPromised ==
    ASSUME NEW caller, OneSession(caller), OneSessionInv(caller),
           pc[caller] = "apply", pc'[caller] = "undo", UNCHANGED <<running, saved, snap>>
    PROVE  UNCHANGED Promised!vars
  BY PromisedSets DEF OneSessionInv, InCallInv, CurrentSnapshot, Promised!vars

LEMMA ApplyIsPromised ==
    ASSUME NEW caller, OneSession(caller), OneSessionInv(caller), running, Apply(caller)
    PROVE  [Promised!Next]_(Promised!vars)
  <1>1. /\ pc[caller] = "apply"
        /\ UNCHANGED <<running, saved, rollback>>
        /\ \/ pc' = [pc EXCEPT ![caller] = "mark"] /\ UNCHANGED snap
           \/ pc' = [pc EXCEPT ![caller] = "undo"] /\ UNCHANGED snap
           \/ pc' = [pc EXCEPT ![caller] = "idle"]
    BY ApplyLeaves DEF OneSessionInv, ShownOnceInv
  <1>2. pc'[caller] \in {"mark", "undo", "idle"}
    BY <1>1 DEF OneSessionInv, ShownOnceInv, TypeOK, OneSession
  <1>3. CASE pc'[caller] = "undo"
    <2>1. UNCHANGED snap
      BY <1>1, <1>3 DEF OneSessionInv, ShownOnceInv, TypeOK, OneSession
    <2> QED
      BY <1>1, <1>3, <2>1, ThrowIsPromised
  <1>4. CASE pc'[caller] # "undo"
    <2> DEFINE Kept == UNCHANGED <<PromisedLocal, PromisedNonLocal>>
    <2> SUFFICES Promised!Add \/ Promised!Update \/ Promised!RemoveFromNetwork \/ Kept
      BY <1>1 DEF Promised!Next, Promised!Call, Promised!vars
    <2>0. ASSUME NEW outcome \in Outcomes, Unsaved(caller, outcome) \/ LocalOnly(caller, outcome)
          PROVE  outcome = "ok"
      BY <1>4, <2>0
      DEF Unsaved, LocalOnly, GoTo, Outcomes, OneSessionInv, ShownOnceInv, TypeOK, OneSession
    <2>1. CASE AddApp(caller)
      BY <1>1, <1>4, <2>0, <2>1, AddIsPromised DEF AddApp
    <2>2. CASE RemoveAppFromNetwork(caller)
      BY <1>1, <1>4, <2>0, <2>2, RemoveFromNetworkIsPromised DEF RemoveAppFromNetwork
    <2>3. CASE UpdateAppName(caller)
      <3>1. PICK n \in Names, m \in Names :
                (n = m \/ ~InUse(m)) /\ Update(n, m, Found(n), "ok")
        BY <2>0, <2>3 DEF UpdateAppName, OneSession
      <3>2. ASSUME NEW set \in AppSet, n \in NamesIn(set), Found(n) = set[n]
            PROVE  \/ Promised!Renames(set, Replace(set, n, m, Found(n)))
                   \/ Replace(set, n, m, Found(n)) = set
        BY <1>1, <3>1, <3>2, RenamedIsPromised, UpdatedIsPromised
      <3> QED
        BY <1>1, <1>4, <3>1, <3>2, UpdateIsPromised
    <2>4. CASE UpdateAppSettings(caller)
      <3>1. PICK n \in Names, settings \in Settings :
                Update(n, n, WithSettings(Found(n), settings), "ok")
        BY <2>0, <2>4 DEF UpdateAppSettings
      <3> QED
        BY <1>1, <1>4, <3>1, UpdatedIsPromised, UpdateIsPromised
    <2>5. CASE UpdateAppSafeDriveAccess(caller)
      <3>1. PICK n \in Names, granted \in BOOLEAN :
                Update(n, n, WithSafeDrive(Found(n), granted), "ok")
        BY <2>0, <2>5 DEF UpdateAppSafeDriveAccess
      <3> QED
        BY <1>1, <1>4, <3>1, UpdatedIsPromised, UpdateIsPromised
    <2>6. CASE UpdateAppIcon(caller)
      <3>1. PICK n \in Names, icon \in Icons :
                Update(n, n, WithIcon(Found(n), icon), "ok")
        BY <2>0, <2>6 DEF UpdateAppIcon
      <3> QED
        BY <1>1, <1>4, <3>1, UpdatedIsPromised, UpdateIsPromised
    <2> QED
      BY <2>1, <2>2, <2>3, <2>4, <2>5, <2>6
      DEF Apply, LinkApp, LinkAppIsUndefined, RemoveAppLocally, Calls, OneSession
  <1> QED
    BY <1>3, <1>4

(* So does the undoing of a throw, and each other step of a call but the end of a
   save. *)
LEMMA OtherStepIsPromised ==
    ASSUME NEW caller, OneSession(caller), OneSessionInv(caller), running,
           Start(caller) \/ Continue(caller) \/ RevertThrows(caller), ~Apply(caller)
    PROVE  [Promised!Next]_(Promised!vars)
  <1>1. pc \in [Threads -> PCs] /\ caller \in Threads
    BY DEF OneSessionInv, ShownOnceInv, TypeOK, OneSession
  <1>2. CASE Undo(caller)
    BY <1>1, <1>2, PromisedSets
    DEF Undo, ApplySnapshot, Return, GoTo, sessionVars, Promised!vars
  <1>3. CASE SaveSucceeds(caller)
    <2>1. UNCHANGED <<PromisedLocal, PromisedNonLocal, running>> /\ pc[caller] # "undo"
      BY <1>1, <1>3, PromisedSets DEF SaveSucceeds, Return, GoTo, handlerVars
    <2>2. saved' = Promised!Persisted(Promised!Shown)
      BY <1>3, <2>1, PromisedShown
      DEF SaveSucceeds, Persisted, NamesIn, Promised!Persisted, Promised!NamesIn
    <2> QED
      BY <2>1, <2>2 DEF Promised!Next, Promised!Save
  <1>4. CASE ~Undo(caller) /\ ~SaveSucceeds(caller)
    <2>1. /\ UNCHANGED <<running, saved, localApps, nonLocalApps>>
          /\ pc[caller] # "undo" /\ pc'[caller] # "undo"
      BY <1>1, <1>4
      DEF Start, Continue, Begin, SaveSession, RevertToLastSavedSession, Mark, Record,
          SaveThrows, RevertThrows, Return, GoTo, sessionVars, handlerVars
    <2> QED
      BY <2>1, PromisedSets DEF Promised!vars
  <1> QED
    BY <1>2, <1>3, <1>4

LEMMA LoginIsPromised ==
    ASSUME NEW caller, OneSession(caller), OneSessionInv(caller), ~running, Login
    PROVE  Promised!Next
  <1>1. /\ pc[caller] = "idle" /\ UNCHANGED <<pc, saved>> /\ running'
        /\ localApps' = EmptySet
        /\ nonLocalApps' = saved
    BY LoginShowsAll DEF OneSessionInv, ShownOnceInv, Fresh, Login, callVars
  <1>2. PromisedLocal' = EmptySet /\ PromisedNonLocal' = saved
    BY <1>1, PromisedSets
  <1>3. NamesIn(EmptySet) = {}
    BY NamesOfEmptySet
  <1> QED
    BY <1>1, <1>2, <1>3 DEF Promised!Next, Promised!Login, NamesIn, Promised!NamesIn

(* To its caller, the Launcher is LauncherService. *)
THEOREM PromisesAreKept ==
    ASSUME NEW caller, OneSession(caller)
    PROVE  Spec => KeepsPromises
  <1>1. Init => Promised!Init
    <2> SUFFICES ASSUME Init PROVE Promised!Init
      OBVIOUS
    <2>1. pc[caller] = "idle" /\ saved \in AppSet
      BY InitType DEF Init, TypeOK, OneSession
    <2>2. PromisedLocal = EmptySet /\ PromisedNonLocal = EmptySet
      BY <2>1, PromisedSets DEF Init
    <2> QED
      BY <2>1, <2>2
      DEF Init, Promised!Init, EmptySet, Promised!EmptySet, AppSet, Promised!AppSet, AppDetails,
          Promised!AppDetails, Dirs, Promised!Dirs
  <1>2. OneSessionInv(caller) /\ [Next]_vars => [Promised!Next]_(Promised!vars)
    <2> SUFFICES ASSUME OneSessionInv(caller), [Next]_vars
                 PROVE  [Promised!Next]_(Promised!vars)
      OBVIOUS
    <2>1. CASE Outside
      BY <2>1, OutsideSession, LoginIsPromised
    <2>2. ASSUME NEW t \in Threads, Start(t) \/ Continue(t) \/ RevertThrows(t)
          PROVE  [Promised!Next]_(Promised!vars)
      <3>1. t = caller
        BY DEF OneSession
      <3> QED
        BY <2>2, <3>1, StepInSession, ApplyIsPromised, OtherStepIsPromised
    <2>3. CASE UNCHANGED vars
      BY <2>3, PromisedSets DEF vars, Promised!vars
    <2> QED
      BY <2>1, <2>2, <2>3 DEF Next
  <1> QED
    BY <1>1, <1>2, OneSessionInvHolds, PTL DEF Spec, KeepsPromises, Promised!Spec

-----------------------------------------------------------------------------
(* The config file, over any number of sessions. *)

(* What a login makes of the file is what is shown: all local apps with their
   settings, and none of 'others'. *)
FileShows(file, locals, others) ==
    file.status # "torn" =>
        /\ \A n \in NamesIn(locals) : file.apps[n] = locals[n].settings
        /\ \A n \in others \ NamesIn(locals) : file.apps[n] = NoApp

(* The inductive invariant.  From a throw to its undo the file need not show what
   the sets hold, but it is the snapshot's, or torn: so it is right even if the
   undo fails to put it back. *)
ConfigInv(caller) ==
    /\ ShownOnceInv
    /\ (running /\ pc[caller] # "undo") => FileShows(configFile, localApps, NamesIn(apps))
    /\ pc[caller] \in {"apply", "undo"} =>
           FileShows(snap[caller].config, snap[caller].local, NamesIn(snap[caller].nonLocal))
    /\ pc[caller] = "apply" => configFile = snap[caller].config
    /\ pc[caller] = "undo" => configFile \in {snap[caller].config, TornFile}

-----------------------------------------------------------------------------
(* A function that succeeds has written the file; one that throws may have torn
   it, and has not changed it otherwise. *)
FileStep(outcome) ==
    \/ outcome = "ok" /\ configFile' = ConfigOf(localApps')
    \/ outcome = "threw" /\ configFile' \in {configFile, TornFile}

LEMMA WriteIsFileStep ==
    ASSUME NEW locals, NEW outcome, WriteConfigFile(locals, outcome), localApps' = locals
    PROVE  FileStep(outcome)
  BY DEF WriteConfigFile, FileStep

LEMMA ApplyIsFileStep ==
    ASSUME NEW t \in Threads, Apply(t), ~LinkAppIsUndefined(t)
    PROVE  \E outcome \in Outcomes :
               FileStep(outcome) /\ (Unsaved(t, outcome) \/ LocalOnly(t, outcome))
  <1> USE DEF FileStep, handlerVars
  <1>1. CASE AddApp(t)
    BY <1>1, WriteIsFileStep DEF AddApp, Add
  <1>2. CASE LinkApp(t)
    BY <1>2 DEF LinkApp, Link
  <1>3. ASSUME NEW n, NEW m, NEW updated, NEW outcome, Update(n, m, updated, outcome)
        PROVE  FileStep(outcome)
    BY <1>3, WriteIsFileStep DEF Update
  <1>4. CASE UpdateAppName(t)
    BY <1>3, <1>4 DEF UpdateAppName
  <1>5. CASE UpdateAppSettings(t)
    BY <1>3, <1>5 DEF UpdateAppSettings
  <1>6. CASE UpdateAppSafeDriveAccess(t)
    BY <1>3, <1>6 DEF UpdateAppSafeDriveAccess
  <1>7. CASE UpdateAppIcon(t)
    BY <1>3, <1>7 DEF UpdateAppIcon
  <1>8. CASE RemoveAppLocally(t)
    BY <1>8, WriteIsFileStep DEF RemoveAppLocally, RemoveLocally
  <1>9. CASE RemoveAppFromNetwork(t)
    BY <1>9, WriteIsFileStep DEF RemoveAppFromNetwork, RemoveFromNetwork
  <1> QED
    BY <1>1, <1>2, <1>4, <1>5, <1>6, <1>7, <1>8, <1>9 DEF Apply

LEMMA WrittenFileShows ==
    ASSUME NEW locals, NEW others \in SUBSET Names
    PROVE  FileShows(ConfigOf(locals), locals, others)
  BY DEF FileShows, ConfigOf, NamesIn

LEMMA TornFileShows ==
    ASSUME NEW locals, NEW others
    PROVE  FileShows(TornFile, locals, others)
  BY DEF FileShows, TornFile

-----------------------------------------------------------------------------
(* The invariant is kept. *)

(* A login shows an app of the account as local if it is in the file, and takes its
   settings from there. *)
LEMMA LoginShowsFile ==
    ASSUME TypeOK, Login
    PROVE  FileShows(configFile', localApps', NamesIn(apps'))
  <1> DEFINE locals == ParseConfig(configFile)
  <1>1. /\ locals \in AppSet /\ saved \in AppSet
        /\ configFile \in ConfigFile
    BY ParseConfigType DEF TypeOK, HandlerTypeOK
  <1>2. /\ localApps' = MergedLocal(locals, saved)
        /\ apps' = saved
        /\ configFile' = configFile
    BY DEF Login, Initialise
  <1>3. ASSUME NEW n \in Names, configFile.apps[n] # NoApp
        PROVE  n \in NamesIn(locals) /\ locals[n].settings = configFile.apps[n]
    <2>1. locals[n] = [settings |-> configFile.apps[n], dirs |-> {}, icon |-> NoIcon]
      BY <1>3 DEF ParseConfig
    <2>2. configFile.apps[n] \in Settings \cup {NoSettings}
      BY <1>1, <1>3 DEF ConfigFile, ConfigApps
    <2>3. locals[n] \in AppDetails
      BY <2>1, <2>2 DEF AppDetails
    <2> QED
      BY <2>1, <2>3, NoAppIsNoDetails DEF NamesIn
  <1>4. ASSUME NEW n \in Names, configFile.apps[n] = NoApp
        PROVE  n \notin NamesIn(locals)
    BY <1>4 DEF ParseConfig, NamesIn
  <1>5. ASSUME NEW n \in NamesIn(localApps')
        PROVE  configFile.apps[n] = localApps'[n].settings
    <2>1. n \in NamesIn(locals)
      BY <1>1, <1>2, NamesOfMerged
    <2>2. configFile.apps[n] = locals[n].settings
      BY <1>3, <1>4, <2>1 DEF NamesIn
    <2>3. localApps'[n].settings = locals[n].settings
      <3>1. locals[n] \in AppDetails
        BY <1>1, <2>1, InSetHasDetails
      <3>2. CASE n \in NamesIn(saved)
        <4>1. localApps'[n] = [locals[n] EXCEPT !.dirs = saved[n].dirs]
          BY <1>2, <2>1, <3>2 DEF MergedLocal, NamesIn
        <4> QED
          BY <3>1, <4>1 DEF AppDetails
      <3>3. CASE n \notin NamesIn(saved)
        BY <1>2, <3>3 DEF MergedLocal, NamesIn
      <3> QED
        BY <3>2, <3>3
    <2> QED
      BY <2>2, <2>3
  <1>6. ASSUME NEW n \in NamesIn(saved) \ NamesIn(localApps')
        PROVE  configFile.apps[n] = NoApp
    <2> SUFFICES ASSUME configFile.apps[n] # NoApp PROVE FALSE
      OBVIOUS
    <2>1. n \in Names /\ n \in NamesIn(locals)
      BY <1>3 DEF NamesIn
    <2>2. MergedLocal(locals, saved)[n] = [locals[n] EXCEPT !.dirs = saved[n].dirs]
      BY <2>1 DEF MergedLocal, NamesIn
    <2>3. [locals[n] EXCEPT !.dirs = saved[n].dirs] \in AppDetails
      BY <1>1, <2>1, InSetHasDetails DEF AppDetails, NamesIn
    <2> QED
      BY <1>2, <2>1, <2>2, <2>3, NoAppIsNoDetails DEF NamesIn
  <1> QED
    BY <1>2, <1>5, <1>6 DEF FileShows

LEMMA OutsideKeepsConfig ==
    ASSUME NEW caller, Threads = {caller}, ConfigInv(caller), ShownOnceInv', Outside
    PROVE  ConfigInv(caller)'
  <1>1. CASE Login
    <2>1. FileShows(configFile', localApps', NamesIn(apps'))
      BY <1>1, LoginShowsFile DEF ConfigInv, ShownOnceInv
    <2>2. UNCHANGED <<pc, snap, configFile>>
      BY <1>1 DEF Login, Initialise, callVars
    <2> QED
      BY <2>1, <2>2 DEF ConfigInv
  <1>2. CASE LoginThrows
    BY <1>2 DEF LoginThrows, vars, ConfigInv
  <1>3. CASE Crash \/ LogoutAndStop
    BY <1>3 DEF Crash, LogoutAndStop, Destroyed, ConfigInv
  <1>4. CASE SavedElsewhere
    BY <1>4 DEF SavedElsewhere, handlerVars, callVars, ConfigInv
  <1> QED
    BY <1>1, <1>2, <1>3, <1>4 DEF Outside

LEMMA CallKeepsConfig ==
    ASSUME NEW caller, Threads = {caller}, ConfigInv(caller), ShownOnceInv',
           Start(caller) \/ Continue(caller) \/ RevertThrows(caller)
    PROVE  ConfigInv(caller)'
  <1>1. pc \in [Threads -> PCs] /\ snap \in [Threads -> SnapshotOrNone] /\ caller \in Threads
    BY DEF ConfigInv, ShownOnceInv, TypeOK
  <1>2. CASE Begin(caller)
    <2>1. /\ pc' = [pc EXCEPT ![caller] = "apply"] /\ snap' = [snap EXCEPT ![caller] = CurrentSnapshot]
          /\ running /\ pc[caller] = "idle" /\ UNCHANGED <<running, handlerVars>>
      BY <1>2 DEF Begin, GoTo, sessionVars
    <2>2. FileShows(configFile, localApps, NamesIn(apps))
      BY <2>1 DEF ConfigInv
    <2>3. FileShows(configFile, localApps, NamesIn(nonLocalApps))
      BY <2>2 DEF FileShows, ConfigInv, ShownOnceInv, ShownOnce
    <2> QED
      BY <1>1, <2>1, <2>2, <2>3 DEF ConfigInv, CurrentSnapshot, handlerVars
  <1>3. CASE Apply(caller) /\ ~LinkAppIsUndefined(caller)
    <2>1. PICK outcome \in Outcomes :
              FileStep(outcome) /\ (Unsaved(caller, outcome) \/ LocalOnly(caller, outcome))
      BY <1>1, <1>3, ApplyIsFileStep
    <2>2. pc[caller] = "apply"
      BY <1>3 DEF Apply, AddApp, LinkApp, UpdateAppName, UpdateAppSettings,
         UpdateAppSafeDriveAccess, UpdateAppIcon, RemoveAppLocally, RemoveAppFromNetwork, Calls
    <2>3. CASE outcome = "ok"
      <3>1. pc'[caller] \in {"mark", "idle"}
        BY <1>1, <2>1, <2>3 DEF Unsaved, LocalOnly, Return, GoTo
      <3>2. FileShows(configFile', localApps', NamesIn(apps'))
        <4>1. configFile' = ConfigOf(localApps') /\ NamesIn(apps') \in SUBSET Names
          BY <2>1, <2>3 DEF FileStep, NamesIn
        <4> QED
          BY <4>1, WrittenFileShows
      <3> QED
        BY <3>1, <3>2 DEF ConfigInv
    <2>4. CASE outcome = "threw"
      <3>1. pc'[caller] = "undo" /\ UNCHANGED snap
        BY <1>1, <2>1, <2>4 DEF Unsaved, LocalOnly, GoTo
      <3> QED
        BY <2>1, <2>2, <2>4, <3>1 DEF ConfigInv, FileStep
    <2> QED
      BY <2>3, <2>4 DEF Outcomes
  <1>4. CASE LinkAppIsUndefined(caller)
    BY <1>1, <1>4 DEF LinkAppIsUndefined, Calls, GoTo, handlerVars, sessionVars, ConfigInv
  <1>5. CASE Undo(caller)
    <2>1. PICK outcome \in Outcomes : ApplySnapshot(snap[caller], outcome)
      BY <1>5 DEF Undo
    <2>2. /\ localApps' = snap[caller].local
          /\ apps' = SetUnion(snap[caller].local, snap[caller].nonLocal)
          /\ configFile' \in {snap[caller].config, configFile}
      BY <2>1 DEF ApplySnapshot
    <2>3. pc[caller] = "undo" /\ pc'[caller] = "idle" /\ snap[caller] \in Snapshots
      BY <1>1, <1>5, SnapInCall DEF Undo, Return, GoTo, InCall, ConfigInv, ShownOnceInv
    <2>4. NamesIn(apps') = NamesIn(localApps') \cup NamesIn(snap[caller].nonLocal)
      BY <2>2, <2>3, NamesOfUnion DEF Snapshots
    <2>5. configFile' \in {snap[caller].config, TornFile}
      BY <2>2, <2>3 DEF ConfigInv
    <2>6. FileShows(snap[caller].config, localApps', NamesIn(apps'))
      BY <2>2, <2>3, <2>4 DEF ConfigInv, FileShows
    <2>7. FileShows(configFile', localApps', NamesIn(apps'))
      BY <2>5, <2>6, TornFileShows
    <2> QED
      BY <2>3, <2>7 DEF ConfigInv
  <1>6. CASE ~Begin(caller) /\ ~Apply(caller) /\ ~Undo(caller)
    <2>1. /\ UNCHANGED <<running, apps, localApps, nonLocalApps, configFile>>
          /\ pc[caller] # "undo" /\ pc'[caller] \notin {"apply", "undo"}
      BY <1>1, <1>6
      DEF Start, Continue, SaveSession, RevertToLastSavedSession, Mark, Record, SaveSucceeds,
          SaveThrows, RevertThrows, Return, GoTo, sessionVars, handlerVars
    <2> QED
      BY <2>1 DEF ConfigInv
  <1> QED
    BY <1>2, <1>3, <1>4, <1>5, <1>6 DEF Start, Continue

THEOREM ConfigInvHolds ==
    ASSUME NEW caller, Threads = {caller}, ~CollidingRenames
    PROVE  Spec => []ConfigInv(caller)
  <1>1. ShownOnceInv /\ Init => ConfigInv(caller)
    BY DEF Init, ConfigInv
  <1>2. ConfigInv(caller) /\ ShownOnceInv' /\ [Next]_vars => ConfigInv(caller)'
    <2> SUFFICES ASSUME ConfigInv(caller), ShownOnceInv', [Next]_vars
                 PROVE  ConfigInv(caller)'
      OBVIOUS
    <2>1. CASE Outside
      BY <2>1, OutsideKeepsConfig
    <2>2. ASSUME NEW t \in Threads, Start(t) \/ Continue(t) \/ RevertThrows(t)
          PROVE  ConfigInv(caller)'
      BY <2>2, CallKeepsConfig
    <2>3. CASE UNCHANGED vars
      BY <2>3 DEF vars, ConfigInv
    <2> QED
      BY <2>1, <2>2, <2>3 DEF Next
  <1>3. Spec => []ShownOnceInv
    BY InvariantHolds
  <1> QED
    BY <1>1, <1>2, <1>3, PTL DEF Spec

(* Whatever was added, changed or failed, and however often the process died: the
   file brings back each local app with its path, args and auto_start, unless it
   is torn. *)
THEOREM ConfigKeepsLocalApps ==
    ASSUME NEW caller, Threads = {caller}, ~CollidingRenames
    PROVE  Spec => []ConfigHasLocalApps
  <1>1. ConfigInv(caller) => ConfigHasLocalApps
    BY DEF ConfigInv, ConfigHasLocalApps, FileShows, AllIdle
  <1> QED
    BY <1>1, ConfigInvHolds, PTL

(* And it brings back no app that was removed from this machine. *)
THEOREM ConfigKeepsNoOtherApps ==
    ASSUME NEW caller, Threads = {caller}, ~CollidingRenames
    PROVE  Spec => []ConfigHasNoOtherApps
  <1>1. ConfigInv(caller) => ConfigHasNoOtherApps
    BY DEF ConfigInv, ConfigHasNoOtherApps, FileShows, AllIdle
  <1> QED
    BY <1>1, ConfigInvHolds, PTL
=============================================================================
