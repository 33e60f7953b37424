---------------------------- MODULE SavedAccount ----------------------------
(***************************************************************************)
(* What the rest of the Launcher relies on AccountHandler for: one account *)
(* is kept on the network; a session has a copy of it as it was at some    *)
(* moment of its login, changes the copy, and a save puts the copy in the  *)
(* place of the account or does nothing at all.                            *)
(***************************************************************************)
CONSTANTS
    Machines,   \* the machines the user starts the Launcher on
    Contents,   \* what an account may hold
    NoAccount   \* none on the network, or no session

VARIABLES
    saved,      \* the account on the network
    seen,       \* seen[m]: the account that a login in progress has found
    copy        \* copy[m]: the account in the memory of m's session

vars == <<saved, seen, copy>>

Init ==
    /\ saved = NoAccount
    /\ seen = [m \in Machines |-> NoAccount]
    /\ copy = [m \in Machines |-> NoAccount]

Create(m) ==
    /\ saved = NoAccount
    /\ \E c \in Contents : saved' = c /\ copy' = [copy EXCEPT ![m] = c]
    /\ UNCHANGED seen

Look(m) ==
    /\ saved # NoAccount
    /\ seen' = [seen EXCEPT ![m] = saved]
    /\ UNCHANGED <<saved, copy>>

Login(m) ==
    /\ seen[m] # NoAccount
    /\ copy' = [copy EXCEPT ![m] = seen[m]]
    /\ seen' = [seen EXCEPT ![m] = NoAccount]
    /\ UNCHANGED saved

Change(m) ==
    /\ copy[m] # NoAccount
    /\ \E c \in Contents : copy' = [copy EXCEPT ![m] = c]
    /\ UNCHANGED <<saved, seen>>

Save(m) ==
    /\ copy[m] # NoAccount
    /\ saved' = copy[m]
    /\ UNCHANGED <<seen, copy>>

(* A login that fails, a logout, or the end of the process. *)
Leave(m) ==
    /\ seen' = [seen EXCEPT ![m] = NoAccount]
    /\ copy' = [copy EXCEPT ![m] = NoAccount]
    /\ UNCHANGED saved

Next == \E m \in Machines :
            Create(m) \/ Look(m) \/ Login(m) \/ Change(m) \/ Save(m) \/ Leave(m)

Spec == Init /\ [][Next]_vars
=============================================================================
