--------------------------- MODULE AccountHandler ---------------------------
(***************************************************************************)
(* class AccountHandler (account_handler.cc, account.cc) on several        *)
(* machines of one user, all with the same keyword and pin.                *)
(*                                                                         *)
(* The network keeps each encrypted account as immutable data under the    *)
(* hash of its content, and, at a location that follows from keyword and   *)
(* pin, the versions of the account: a chain of those names.  The network  *)
(* itself is external; how it is used in account_handler.cc, and           *)
(* launcher_test.cc:67 (creating an account twice throws                   *)
(* 'data_already_exists'), say what is needed of it.                       *)
(*                                                                         *)
(* Each operation is several network calls; between two of them other      *)
(* machines run, and this one may die.  pc[m] is the next call:            *)
(*   "out"            no session                                           *)
(*   "createAccount"  constructor: Store the account                       *)
(*   "createVersions" constructor: Store the versions                      *)
(*   "createUndo"     constructor's catch block                            *)
(*   "getAccount"     Login has the versions; next is Get the account      *)
(*   "in"             in a session, between operations                     *)
(*   "saveAccount"    Save: Store the account                              *)
(*   "saveVersions"   Save: Store the versions                             *)
(*   "saveUndo"       Save's catch block                                   *)
(***************************************************************************)
EXTENDS Naturals, SequencesExt

CONSTANTS
    Machines,
    Contents,      \* what an account may hold
    NoAccount,
    MaxVersions,   \* account_versions_(20, 1): versions kept
    MaxIds,        \* bound: accounts encrypted altogether
    Duplicates,    \* whether the user creates an account that exists already
    Faults         \* which of FaultKinds may happen

FaultKinds == {"callFails",      \* a network call throws and did nothing
               "replyIsLost",    \* a network call throws although it was done
               "deleteFails",    \* the same for Delete, in a catch block
               "wrongPassword",  \* the user mistypes the password
               "crash"}

ASSUME BoundsArePositive == MaxVersions \in Nat \ {0} /\ MaxIds \in Nat
ASSUME FaultsAreKnown == Faults \subseteq FaultKinds
ASSUME DuplicatesIsBoolean == Duplicates \in BOOLEAN
ASSUME NoAccountIsNoContent == NoAccount \notin Contents

VARIABLES
    stored,     \* stored[i]: the immutable data named i, or NoAccount
    wrapper,    \* the versions on the network, <<>> if none
    used,       \* names used so far: no two accounts encrypt alike
    pc,
    account,    \* account[m]: *account_, or NoAccount
    versions,   \* versions[m]: account_versions_
    name        \* name[m]: encrypted_account.Name() in the operation of m

network == <<stored, wrapper>>
vars == <<stored, wrapper, used, pc, account, versions, name>>

Ids == 1 .. MaxIds
PCs == {"out", "createAccount", "createVersions", "createUndo", "getAccount",
        "in", "saveAccount", "saveVersions", "saveUndo"}
InSession == {"in", "saveAccount", "saveVersions", "saveUndo"}

Init ==
    /\ stored = [i \in Ids |-> NoAccount]
    /\ wrapper = <<>>
    /\ used = 0
    /\ pc = [m \in Machines |-> "out"]
    /\ account = [m \in Machines |-> NoAccount]
    /\ versions = [m \in Machines |-> <<>>]
    /\ name = [m \in Machines |-> 0]

GoTo(m, label) == pc' = [pc EXCEPT ![m] = label]

(* StructuredDataVersions::Put on the tip, in a tree of one branch. *)
PutVersion(chain, id) ==
    IF Len(chain) < MaxVersions THEN Append(chain, id) ELSE Append(Tail(chain), id)

(* EncryptAccount: the timestamp makes every name a new one. *)
EncryptAccountAlike(m) ==   \* slip: the timestamp not updated
    /\ used' = 1
    /\ name' = [name EXCEPT ![m] = 1]

EncryptAccount(m) ==
    /\ used < MaxIds
    /\ used' = used + 1
    /\ name' = [name EXCEPT ![m] = used + 1]

(* A network call: it is done, or throws, or does both. *)
StoreCall(done, threw) ==
    \/ done /\ ~threw
    \/ ~done /\ threw /\ "callFails" \in Faults
    \/ done /\ threw /\ "replyIsLost" \in Faults

-----------------------------------------------------------------------------
(* The constructor for a new account, "where a account has never been put to
   the network" (account_handler.h:45): the code does not check that. *)
Create(m) ==
    /\ pc[m] = "out"
    /\ Duplicates \/ (wrapper = <<>> /\ \A other \in Machines : pc[other] = "out")
    /\ EncryptAccount(m)
    /\ \E c \in Contents : account' = [account EXCEPT ![m] = c]
    /\ versions' = [versions EXCEPT ![m] = <<>>]
    /\ GoTo(m, "createAccount")
    /\ UNCHANGED network

StoreAccount(m, from, to, undo) ==
    /\ pc[m] = from
    /\ \E done, threw \in BOOLEAN :
           /\ StoreCall(done, threw)
           /\ stored' = IF done THEN [stored EXCEPT ![name[m]] = account[m]] ELSE stored
           /\ GoTo(m, IF threw THEN undo ELSE to)
    /\ UNCHANGED <<wrapper, used, account, versions, name>>

CreateStoresAccount(m) == StoreAccount(m, "createAccount", "createVersions", "createUndo")

(* The network refuses versions at a location that another account has. *)
CreateStoresVersions(m) ==
    /\ pc[m] = "createVersions"
    /\ versions' = [versions EXCEPT ![m] = PutVersion(<<>>, name[m])]
    /\ \E done, threw \in BOOLEAN :
           /\ IF wrapper = <<>> THEN StoreCall(done, threw) ELSE threw /\ ~done
           /\ wrapper' = IF done THEN versions'[m] ELSE wrapper
           /\ GoTo(m, IF threw THEN "createUndo" ELSE "in")
    /\ UNCHANGED <<stored, used, account, name>>

(* The catch block deletes the account, then, if it got as far as naming them,
   the versions: by location, whoever stored them.  A Delete that throws ends
   the block.  The constructor throws, and the object is gone. *)
CreateUndoes(m) ==
    /\ pc[m] = "createUndo"
    /\ \/ /\ stored' = [stored EXCEPT ![name[m]] = NoAccount]
          /\ \/ wrapper' = IF versions[m] # <<>> THEN <<>> ELSE wrapper
             \/ "deleteFails" \in Faults /\ UNCHANGED wrapper
       \/ "deleteFails" \in Faults /\ UNCHANGED network
    /\ account' = [account EXCEPT ![m] = NoAccount]
    /\ versions' = [versions EXCEPT ![m] = <<>>]
    /\ GoTo(m, "out")
    /\ UNCHANGED <<used, name>>

-----------------------------------------------------------------------------
(* Login gets the versions and puts them into account_versions_; where there
   are none, or the call fails, it throws and nothing has changed. *)
LoginGetsVersions(m) ==
    /\ pc[m] = "out"
    /\ wrapper # <<>>
    /\ versions' = [versions EXCEPT ![m] = wrapper]
    /\ GoTo(m, "getAccount")
    /\ UNCHANGED <<network, used, account, name>>

LoginForgetsAccount(m) ==   \* slip: the account decrypted but not assigned
    /\ pc[m] = "getAccount"
    /\ stored[Last(versions[m])] # NoAccount
    /\ GoTo(m, "in")
    /\ UNCHANGED <<network, used, account, versions, name>>

LoginSucceeds(m) ==
    /\ pc[m] = "getAccount"
    /\ stored[Last(versions[m])] # NoAccount
    /\ account' = [account EXCEPT ![m] = stored[Last(versions[m])]]
    /\ GoTo(m, "in")
    /\ UNCHANGED <<network, used, versions, name>>

LoginThrows(m) ==
    /\ pc[m] = "getAccount"
    /\ \/ stored[Last(versions[m])] = NoAccount
       \/ "callFails" \in Faults
       \/ "wrongPassword" \in Faults
    /\ GoTo(m, "out")
    /\ UNCHANGED <<network, used, account, versions, name>>

-----------------------------------------------------------------------------
(* The Launcher changes the account, but not during a Save: both hold
   account_mutex_. *)
ChangeUnlocked(m) ==   \* slip: account_mutex_ not held during the save
    /\ pc[m] \in {"in", "saveVersions"}
    /\ \E c \in Contents \ {account[m]} : account' = [account EXCEPT ![m] = c]
    /\ UNCHANGED <<network, used, pc, versions, name>>

Change(m) ==
    /\ pc[m] = "in"
    /\ \E c \in Contents \ {account[m]} : account' = [account EXCEPT ![m] = c]
    /\ UNCHANGED <<network, used, pc, versions, name>>

Save(m) ==
    /\ pc[m] = "in"
    /\ EncryptAccount(m)
    /\ GoTo(m, "saveAccount")
    /\ UNCHANGED <<network, account, versions>>

SaveStoresAccount(m) == StoreAccount(m, "saveAccount", "saveVersions", "saveUndo")

(* account_versions_ has the new version whether the network gets it or not. *)
SaveStoresVersions(m) ==
    /\ pc[m] = "saveVersions"
    /\ versions' = [versions EXCEPT ![m] = PutVersion(versions[m], name[m])]
    /\ \E done, threw \in BOOLEAN :
           /\ StoreCall(done, threw)
           /\ wrapper' = IF done THEN versions'[m] ELSE wrapper
           /\ GoTo(m, IF threw THEN "saveUndo" ELSE "in")
    /\ UNCHANGED <<stored, used, account, name>>

(* The catch block deletes the account; the scope guard restores the timestamp. *)
SaveUndoes(m) ==
    /\ pc[m] = "saveUndo"
    /\ \/ stored' = [stored EXCEPT ![name[m]] = NoAccount]
       \/ "deleteFails" \in Faults /\ UNCHANGED stored
    /\ GoTo(m, "in")
    /\ UNCHANGED <<wrapper, used, account, versions, name>>

-----------------------------------------------------------------------------
(* The handler is destroyed, or its process dies: only the network stays. *)
Forget(m) ==
    /\ account' = [account EXCEPT ![m] = NoAccount]
    /\ versions' = [versions EXCEPT ![m] = <<>>]
    /\ GoTo(m, "out")
    /\ UNCHANGED <<network, used, name>>

Destroyed(m) == pc[m] = "in" /\ Forget(m)

Crash(m) == "crash" \in Faults /\ pc[m] # "out" /\ Forget(m)

Operation(m) ==
    \/ Create(m) \/ CreateStoresAccount(m) \/ CreateStoresVersions(m) \/ CreateUndoes(m)
    \/ LoginGetsVersions(m) \/ LoginSucceeds(m) \/ LoginThrows(m)
    \/ Change(m)
    \/ Save(m) \/ SaveStoresAccount(m) \/ SaveStoresVersions(m) \/ SaveUndoes(m)

Next == \E m \in Machines : Operation(m) \/ Destroyed(m) \/ Crash(m)

Spec == Init /\ [][Next]_vars

-----------------------------------------------------------------------------
TypeOK ==
    /\ stored \in [Ids -> Contents \cup {NoAccount}]
    /\ wrapper \in Seq(Ids)
    /\ used \in 0 .. MaxIds
    /\ pc \in [Machines -> PCs]
    /\ account \in [Machines -> Contents \cup {NoAccount}]
    /\ versions \in [Machines -> Seq(Ids)]
    /\ name \in [Machines -> 0 .. MaxIds]
    /\ \A m \in Machines : pc[m] \in InSession =>
           account[m] # NoAccount /\ versions[m] # <<>>

(* A login can always be served: the newest version on the network names an
   account that is there, however many machines are half way through a save,
   a failed save or a creation. *)
TipIsStored == wrapper # <<>> => stored[Last(wrapper)] # NoAccount

(* What the rest of the Launcher sees of all this. *)
Saved == IF wrapper = <<>> THEN NoAccount ELSE stored[Last(wrapper)]
Seen ==
    [m \in Machines |-> IF pc[m] = "getAccount" THEN stored[Last(versions[m])] ELSE NoAccount]
Copy == [m \in Machines |-> IF pc[m] \in InSession THEN account[m] ELSE NoAccount]

Promised == INSTANCE SavedAccount WITH saved <- Saved, seen <- Seen, copy <- Copy

(* The account is saved as a whole or not at all: the network calls of all the
   machines, in any order and with any failure that can be told from a success,
   add up to the steps of SavedAccount. *)
SavesAsPromised == Promised!Spec

-----------------------------------------------------------------------------
(* An account is never removed: not by the "strong exception-safety guarantee"
   (launcher.h:49) of a CreateAccount that fails. *)
AccountStays == [][wrapper # <<>> => wrapper' # <<>>]_vars
=============================================================================
