--------------------------- MODULE LauncherService ---------------------------
(***************************************************************************)
(* What launcher.h promises one caller in one session: there are two sets  *)
(* of apps, and an account on the network.  A call changes one app of one  *)
(* set, or saves what the sets show, in one step; a call that throws       *)
(* changes nothing at all.  There is no account in memory, no config file, *)
(* no snapshot and no undo.                                                *)
(*                                                                         *)
(* RemoveAppLocally is left out: what it leaves in the account is shown in *)
(* neither set.                                                            *)
(***************************************************************************)
EXTENDS AppSets

VARIABLES
    open,        \* a Launcher exists
    local,       \* GetApps(true)
    nonLocal,    \* GetApps(false)
    saved        \* the account on the network

vars == <<open, local, nonLocal, saved>>

Shown == SetUnion(local, nonLocal)

Init ==
    /\ ~open
    /\ local = EmptySet
    /\ nonLocal = EmptySet
    /\ saved \in AppSet

(* Each app of the account is in one of the sets. *)
Login ==
    /\ ~open
    /\ open'
    /\ NamesIn(local') \cap NamesIn(nonLocal') = {}
    /\ NamesIn(local') \cup NamesIn(nonLocal') = NamesIn(saved)
    /\ UNCHANGED saved

Add ==
    /\ \E n \in Names \ NamesIn(Shown), settings \in Settings, icon \in Icons :
           local' = Insert(local, n, [settings |-> settings, dirs |-> {"appDir"}, icon |-> icon])
    /\ UNCHANGED nonLocal

Renames(set, new) ==
    \E n \in NamesIn(set), m \in Names \ NamesIn(Shown) :
        new = Insert(Erase(set, n), m, set[n])

(* The other functions Update... replace one field of one app. *)
Replaces(set, new) ==
    \E n \in NamesIn(set) :
        \/ \E settings \in Settings : new = [set EXCEPT ![n].settings = settings]
        \/ \E icon \in Icons : new = [set EXCEPT ![n].icon = icon]
        \/ new = [set EXCEPT ![n].dirs = @ \cup {"safeDrive"}]
        \/ new = [set EXCEPT ![n].dirs = @ \ {"safeDrive"}]

Update ==
    \/ (Renames(local, local') \/ Replaces(local, local')) /\ UNCHANGED nonLocal
    \/ (Renames(nonLocal, nonLocal') \/ Replaces(nonLocal, nonLocal')) /\ UNCHANGED local

RemoveFromNetwork ==
    /\ \E n \in NamesIn(nonLocal) : nonLocal' = Erase(nonLocal, n)
    /\ UNCHANGED local

Save ==
    /\ saved' = Persisted(Shown)
    /\ UNCHANGED <<local, nonLocal>>

Call == (Add \/ Update \/ RemoveFromNetwork) /\ UNCHANGED saved

Next == Login \/ (open /\ UNCHANGED open /\ (Call \/ Save))

Spec == Init /\ [][Next]_vars
=============================================================================
