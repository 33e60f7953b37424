------------------------- MODULE LauncherProperties -------------------------
(* What the Launcher should guarantee, and the states the guarantees are about. *)
EXTENDS Launcher

SnapshotOrNone == Snapshots \cup {NoSnapshot}

(* Types of all variables; a thread has a snapshot exactly while it is in a
   call that changes apps. *)
TypeOK ==
    /\ HandlerTypeOK
    /\ running \in BOOLEAN
    /\ saved \in AppSet
    /\ rollback \in SnapshotOrNone
    /\ pc \in [Threads -> PCs]
    /\ snap \in [Threads -> SnapshotOrNone]
    /\ \A t \in Threads : pc[t] \in {"apply", "undo", "mark", "record"} => snap[t] # NoSnapshot

-----------------------------------------------------------------------------
Disjoint(locals, nonLocals) == NamesIn(locals) \cap NamesIn(nonLocals) = {}

(* "The set of local and non-local apps are mutually-exclusive" (launcher.h:54)
   and every non-local app is one of the account (app_handler.cc:234), in every
   state, other threads' calls half done included. *)
ShownOnce ==
    /\ Disjoint(localApps, nonLocalApps)
    /\ NamesIn(nonLocalApps) \subseteq NamesIn(apps)

(* The account holds exactly what the two sets show, details included. *)
Coherent ==
    /\ apps = SetUnion(localApps, nonLocalApps)
    /\ Disjoint(localApps, nonLocalApps)

(* No call, undo, save or failure inside a session takes the account out of
   step with the two sets, except RemoveAppLocally, which leaves the app in the
   account and in no set.  (A login starts a session anew.) *)
StaysCoherent ==
    [][(running /\ running' /\ Coherent) =>
           (Coherent' \/ \E t \in Threads : RemoveAppLocally(t))]_vars

(* What the two sets show is in the account as they show it.  No step inside a
   session ends that, RemoveAppLocally included: an app taken off this machine
   is in the account only, and comes back into a set by no other call. *)
InStep ==
    \A n \in NamesIn(localApps) \cup NamesIn(nonLocalApps) :
        apps[n] = SetUnion(localApps, nonLocalApps)[n]

StaysInStep == [][(running /\ running' /\ InStep) => InStep']_vars

-----------------------------------------------------------------------------
(* The strong guarantee of launcher.h:49, as the scope guards implement it:
   whatever the AppHandler function is about to do, if it throws then applying
   the snapshot of this call brings back all four pieces of state, and so the
   state from before the call.  (One caller: with two, what the other one did in
   the meantime is undone as well.) *)
UndoWouldRestore ==
    \A t \in Threads : pc[t] = "apply" =>
        /\ snap[t] = CurrentSnapshot
        /\ apps = SetUnion(snap[t].local, snap[t].nonLocal)

(* SaveSession without 'force' may only return early when there is nothing to
   save (launcher.h:109): between calls, without a snapshot to roll back to,
   the account in memory is the one on the network. *)
UnsavedIsFlagged ==
    (running /\ AllIdle /\ rollback = NoSnapshot) => Persisted(apps) = saved

(* The snapshot to roll back to shows "the last successful 'SaveSession' call,
   or the initial state" (launcher.h:115). *)
RollbackIsLastSaved ==
    (running /\ rollback # NoSnapshot) =>
        Persisted(SetUnion(rollback.local, rollback.nonLocal)) = saved

(* From the throw until the scope guard has run, what counts is the snapshot. *)
Undoing == {t \in Threads : pc[t] = "undo"}

PromisedLocal ==
    IF Undoing = {} THEN localApps ELSE snap[CHOOSE t \in Undoing : TRUE].local

PromisedNonLocal ==
    IF Undoing = {} THEN nonLocalApps ELSE snap[CHOOSE t \in Undoing : TRUE].nonLocal

Promised == INSTANCE LauncherService WITH
    open <- running,
    local <- PromisedLocal,
    nonLocal <- PromisedNonLocal

(* To its caller the Launcher is a LauncherService: a call that threw has not
   happened, whatever it had changed by then, and what a save puts on the network
   is what the sets show.  (One caller and one session; "two sets, one account"
   is then all there is to know of account, config file, snapshots and undo.) *)
KeepsPromises == Promised!Spec

-----------------------------------------------------------------------------
(* The config file is all that brings local apps back after a crash or a
   logout.  Between calls it has every local app with its path, args and
   auto_start, or it is torn, whatever calls failed before. *)
ConfigHasLocalApps ==
    (running /\ AllIdle /\ configFile.status # "torn") =>
        \A n \in NamesIn(localApps) : configFile.apps[n] = localApps[n].settings

(* And it brings back no app of the account that the user took off this machine:
   the next login would show it as local again. *)
ConfigHasNoOtherApps ==
    (running /\ AllIdle /\ configFile.status # "torn") =>
        \A n \in NamesIn(apps) \ NamesIn(localApps) : configFile.apps[n] = NoApp

(* After a login each app of the account is shown in exactly one set, with the
   directories the account grants it (the loop of AppHandler::Initialise). *)
LoginShowsAccount ==
    [][(~running /\ running') =>
           \A n \in NamesIn(saved) :
               /\ (n \in NamesIn(localApps')) # (n \in NamesIn(nonLocalApps'))
               /\ SetUnion(localApps', nonLocalApps')[n].dirs = saved[n].dirs]_vars

-----------------------------------------------------------------------------
(* Every call returns, whatever locks it has to wait for (SaveSession holds
   account_mutex_ during its network calls) and whatever fails. *)
CallsReturn == \A t \in Threads : (pc[t] # "idle") ~> (pc[t] = "idle")

-----------------------------------------------------------------------------
(* What docs and comments of the code promise, each checked of callers whose
   other calls cannot be the cause. *)

(* "Reverts the internal state back to the last successful 'SaveSession' call"
   (launcher.h:115): a call that has something to revert gets it done. *)
RevertReverts ==
    \A t \in Threads : (pc[t] = "reverting") ~> (rollback = NoSnapshot)

(* A call that fails leaves the account's apps in it ("strong exception-safety
   guarantee", launcher.h:49).  (For callers that only add apps and remove them
   locally, and where no write fails, so that no call has an app to take back.) *)
AccountKeepsApps == [][(running /\ running') => NamesIn(apps) \subseteq NamesIn(apps')]_vars
=============================================================================
