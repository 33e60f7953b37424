------------------------------ MODULE Launcher ------------------------------
(***************************************************************************)
(* class Launcher (launcher.cc), the API the UI calls, from one or several *)
(* threads.  A call that changes apps takes a snapshot, runs the AppHandler*)
(* function under its mutexes, and then either records the snapshot as the *)
(* one to roll back to (if there is none) or, when the function threw,     *)
(* applies the snapshot again: none of which is one critical section.      *)
(*                                                                         *)
(* pc[t] says where thread t is in its call:                               *)
(*   "idle"       not in a call                                            *)
(*   "apply"      has its snapshot; next is the AppHandler function        *)
(*   "undo"       the function threw; next is the scope guard              *)
(*   "mark"       it returned; next is 'if (!rollback_snapshot_)'          *)
(*   "record"     that was true; next is the assignment                    *)
(*   "saving"     in SaveSession, holding account_mutex_                   *)
(*   "reverting"  in RevertToLastSavedSession, holding account_mutex_      *)
(*   "stuck"      past an undefined operation, holding both mutexes        *)
(***************************************************************************)
EXTENDS AppHandler

CONSTANTS
    Threads,            \* the threads that call the API
    Ops,                \* which of OpKinds they call
    CollidingRenames,   \* whether they rename an app to a name in use
    NoSnapshot          \* an empty boost::optional<Snapshot>

OpKinds == {"add", "link", "rename", "settings", "dirs", "icon", "removeLocally",
            "removeFromNetwork", "save", "forceSave", "revert", "logout"}

ASSUME OpsAreKnown == Ops \subseteq OpKinds
ASSUME CollidingRenamesIsBoolean == CollidingRenames \in BOOLEAN
ASSUME NoSnapshotIsNone == NoSnapshot \notin Snapshots

VARIABLES
    running,    \* a Launcher exists
    saved,      \* the account on the network, as a login reads it
    rollback,   \* rollback_snapshot_
    pc,
    snap        \* snap[t]: 'snapshot' in the call thread t is in

sessionVars == <<running, saved>>
callVars == <<rollback, pc, snap>>
vars == <<apps, localApps, nonLocalApps, configFile, running, saved, rollback, pc, snap>>

PCs == {"idle", "apply", "undo", "mark", "record", "saving", "reverting", "stuck"}

AllIdle == \A t \in Threads : pc[t] = "idle"

MutexFree == \A t \in Threads : pc[t] # "stuck"
AccountMutexFree == \A t \in Threads : pc[t] \notin {"saving", "reverting", "stuck"}

GoTo(t, label) == pc' = [pc EXCEPT ![t] = label]
Return(t) == GoTo(t, "idle") /\ snap' = [snap EXCEPT ![t] = NoSnapshot]

-----------------------------------------------------------------------------
(* Before a login the account holds what other machines saved; this machine
   has no config file. *)
AppAddedElsewhere(icon) == [settings |-> NoSettings, dirs |-> {"appDir"}, icon |-> icon]

Init ==
    /\ running = FALSE
    /\ \E there \in SUBSET Names, icon \in Icons :
           saved = [n \in Names |-> IF n \in there THEN AppAddedElsewhere(icon) ELSE NoApp]
    /\ apps = EmptySet
    /\ localApps = EmptySet
    /\ nonLocalApps = EmptySet
    /\ configFile = NoFile
    /\ rollback = NoSnapshot
    /\ pc = [t \in Threads |-> "idle"]
    /\ snap = [t \in Threads |-> NoSnapshot]

Login ==
    /\ ~running
    /\ Initialise(saved)
    /\ running' = TRUE
    /\ UNCHANGED <<saved, callVars>>

(* Initialise throws, the constructor with it: no Launcher. *)
LoginThrows ==
    /\ ~running
    /\ ~ConfigIsReadable
    /\ UNCHANGED vars

(* The Launcher object goes; the file and the network stay. *)
Destroyed ==
    /\ running' = FALSE
    /\ apps' = EmptySet
    /\ localApps' = EmptySet
    /\ nonLocalApps' = EmptySet
    /\ rollback' = NoSnapshot
    /\ pc' = [t \in Threads |-> "idle"]
    /\ snap' = [t \in Threads |-> NoSnapshot]

(* A process that dies while it writes the config file may leave it torn.
   Undefined behaviour may kill the process whatever Env says. *)
Crash ==
    /\ running
    /\ "crash" \in Env \/ ~MutexFree
    /\ Destroyed
    /\ \/ UNCHANGED configFile
       \/ /\ "writeTears" \in Env
          /\ \E t \in Threads : pc[t] = "apply"
          /\ configFile' = TornFile
    /\ UNCHANGED saved

SavedElsewhere ==
    /\ ~running
    /\ "elsewhere" \in Env
    /\ \E n \in Names :
           \/ \E icon \in Icons : saved' = Insert(saved, n, AppAddedElsewhere(icon))
           \/ saved' = Erase(saved, n)
    /\ UNCHANGED <<running, handlerVars, callVars>>

-----------------------------------------------------------------------------
(* Calls that change apps. *)

(* GetSnapshot, which takes mutex_ only.  (If copying the config file throws,
   so does the call, before it did anything.) *)
BeginWithoutSnapshot(t) ==   \* slip: the snapshot left out
    /\ running
    /\ pc[t] = "idle"
    /\ GoTo(t, "apply")
    /\ UNCHANGED <<sessionVars, handlerVars, rollback, snap>>

Begin(t) ==
    /\ running
    /\ pc[t] = "idle"
    /\ MutexFree
    /\ GoTo(t, "apply")
    /\ snap' = [snap EXCEPT ![t] = CurrentSnapshot]
    /\ UNCHANGED <<sessionVars, handlerVars, rollback>>

(* The AppHandler function is next, and takes both mutexes. *)
Calls(t, op) ==
    /\ op \in Ops
    /\ pc[t] = "apply"
    /\ AccountMutexFree
    /\ UNCHANGED <<sessionVars, rollback>>

(* How a call goes on: a change to the account is marked as unsaved, a change
   to this machine's own data is not. *)
Unsaved(t, outcome) ==
    /\ GoTo(t, IF outcome = "ok" THEN "mark" ELSE "undo")
    /\ UNCHANGED snap

LocalOnly(t, outcome) ==
    \/ outcome = "ok" /\ Return(t)
    \/ outcome = "threw" /\ GoTo(t, "undo") /\ UNCHANGED snap

AddApp(t) ==
    /\ Calls(t, "add")
    /\ \E n \in Names, settings \in Settings, icon \in Icons, outcome \in Outcomes :
           Add(n, settings, icon, outcome) /\ Unsaved(t, outcome)

LinkApp(t) ==
    /\ Calls(t, "link")
    /\ \E n \in Names, outcome \in Outcomes : Link(n, outcome) /\ Unsaved(t, outcome)

(* What AppHandler::Link does to its sets here is not observable: the thread
   holds both mutexes until the process ends. *)
LinkAppIsUndefined(t) ==
    /\ Calls(t, "link")
    /\ \E n \in Names : LinkIsUndefined(n)
    /\ GoTo(t, "stuck")
    /\ UNCHANGED <<handlerVars, snap>>

InUse(m) == m \in NamesIn(apps) \cup NamesIn(localApps) \cup NamesIn(nonLocalApps)

UpdateAppName(t) ==
    /\ Calls(t, "rename")
    /\ \E n, m \in Names, outcome \in Outcomes :
           /\ CollidingRenames \/ n = m \/ ~InUse(m)
           /\ Update(n, m, Found(n), outcome)
           /\ Unsaved(t, outcome)

(* UpdateAppPath, UpdateAppArgs and UpdateAppAutoStart. *)
UpdateAppSettings(t) ==
    /\ Calls(t, "settings")
    /\ \E n \in Names, settings \in Settings, outcome \in Outcomes :
           Update(n, n, WithSettings(Found(n), settings), outcome) /\ LocalOnly(t, outcome)

UpdateAppSafeDriveAccess(t) ==
    /\ Calls(t, "dirs")
    /\ \E n \in Names, granted \in BOOLEAN, outcome \in Outcomes :
           Update(n, n, WithSafeDrive(Found(n), granted), outcome) /\ Unsaved(t, outcome)

UpdateAppIcon(t) ==
    /\ Calls(t, "icon")
    /\ \E n \in Names, icon \in Icons, outcome \in Outcomes :
           Update(n, n, WithIcon(Found(n), icon), outcome) /\ Unsaved(t, outcome)

(* Takes mutex_ only. *)
RemoveAppLocally(t) ==
    /\ "removeLocally" \in Ops
    /\ pc[t] = "apply"
    /\ MutexFree
    /\ \E n \in Names, outcome \in Outcomes :
           RemoveLocally(n, outcome) /\ LocalOnly(t, outcome)
    /\ UNCHANGED <<sessionVars, rollback>>

RemoveAppFromNetwork(t) ==
    /\ Calls(t, "removeFromNetwork")
    /\ \E n \in Names, outcome \in Outcomes :
           RemoveFromNetwork(n, outcome) /\ Unsaved(t, outcome)

(* 'if (!rollback_snapshot_) rollback_snapshot_ = snapshot', with no mutex. *)
MarkAlways(t) ==   \* slip: no 'if (!rollback_snapshot_)'
    /\ pc[t] = "mark"
    /\ GoTo(t, "record")
    /\ UNCHANGED <<sessionVars, handlerVars, rollback, snap>>

Mark(t) ==
    /\ pc[t] = "mark"
    /\ IF rollback = NoSnapshot THEN GoTo(t, "record") /\ UNCHANGED snap ELSE Return(t)
    /\ UNCHANGED <<sessionVars, handlerVars, rollback>>

Record(t) ==
    /\ pc[t] = "record"
    /\ rollback' = snap[t]
    /\ Return(t)
    /\ UNCHANGED <<sessionVars, handlerVars>>

(* The scope guard of a call that threw: RevertAppHandler(snapshot).  What it
   throws itself stays in the guard's destructor. *)
UndoLocked(t) ==   \* slip: account_mutex_ held while the scope guard runs
    /\ pc[t] = "undo"
    /\ GoTo(t, "stuck")
    /\ UNCHANGED <<sessionVars, handlerVars, rollback, snap>>

Undo(t) ==
    /\ pc[t] = "undo"
    /\ AccountMutexFree
    /\ \E outcome \in Outcomes : ApplySnapshot(snap[t], outcome)
    /\ Return(t)
    /\ UNCHANGED <<sessionVars, rollback>>

-----------------------------------------------------------------------------
(* Calls on the session.  SaveSession holds account_mutex_ during the network
   calls of AccountHandler::Save; without 'force' and with nothing to roll
   back to it returns at once, which changes nothing. *)

SaveSession(t) ==
    /\ running
    /\ pc[t] = "idle"
    /\ AccountMutexFree
    /\ \/ "forceSave" \in Ops
       \/ "save" \in Ops /\ rollback # NoSnapshot
    /\ GoTo(t, "saving")
    /\ UNCHANGED <<sessionVars, handlerVars, rollback, snap>>

SaveSucceeds(t) ==
    /\ pc[t] = "saving"
    /\ saved' = Persisted(apps)
    /\ rollback' = NoSnapshot
    /\ Return(t)
    /\ UNCHANGED <<running, handlerVars>>

SaveThrowsAfterReset(t) ==   \* slip: rollback_snapshot_ cleared before the save
    /\ pc[t] = "saving"
    /\ "saveFails" \in Env
    /\ rollback' = NoSnapshot
    /\ Return(t)
    /\ UNCHANGED <<sessionVars, handlerVars>>

SaveThrows(t) ==
    /\ pc[t] = "saving"
    /\ "saveFails" \in Env
    /\ Return(t)
    /\ UNCHANGED <<sessionVars, handlerVars, rollback>>

(* It locks account_mutex_ and goes on to ApplySnapshot, which locks it
   again: on most platforms this waits for ever, and where the library
   notices it throws std::system_error.  ApplySnapshot's body is never reached. *)
RevertToLastSavedSession(t) ==
    /\ running
    /\ "revert" \in Ops
    /\ pc[t] = "idle"
    /\ AccountMutexFree
    /\ rollback # NoSnapshot
    /\ GoTo(t, "reverting")
    /\ UNCHANGED <<sessionVars, handlerVars, rollback, snap>>

RevertThrows(t) ==
    /\ pc[t] = "reverting"
    /\ Return(t)
    /\ UNCHANGED <<sessionVars, handlerVars, rollback>>

(* SaveSession(true) succeeds and the caller destroys the Launcher, for which
   no other call may be running.  (Where the save throws, this is SaveThrows.) *)
LogoutAndStop ==
    /\ running
    /\ "logout" \in Ops
    /\ AllIdle
    /\ saved' = Persisted(apps)
    /\ Destroyed
    /\ UNCHANGED configFile

-----------------------------------------------------------------------------
(* The steps of a call that has begun, and the scheduler runs in the end. *)
Apply(t) ==
    \/ AddApp(t) \/ LinkApp(t) \/ LinkAppIsUndefined(t)
    \/ UpdateAppName(t) \/ UpdateAppSettings(t)
    \/ UpdateAppSafeDriveAccess(t) \/ UpdateAppIcon(t)
    \/ RemoveAppLocally(t) \/ RemoveAppFromNetwork(t)

Continue(t) ==
    Apply(t) \/ Mark(t) \/ Record(t) \/ Undo(t) \/ SaveSucceeds(t) \/ SaveThrows(t)

Start(t) == Begin(t) \/ SaveSession(t) \/ RevertToLastSavedSession(t)

Outside == Login \/ LoginThrows \/ Crash \/ SavedElsewhere \/ LogoutAndStop

Next == Outside \/ \E t \in Threads : Start(t) \/ Continue(t) \/ RevertThrows(t)

Spec == Init /\ [][Next]_vars
=============================================================================
