------------------------ MODULE AccountHandlerProofs ------------------------
(***************************************************************************)
(* Saving on the network, for every number of machines, accounts and kept  *)
(* versions: the types, that the newest version can always be served, and  *)
(* that the network calls implement SavedAccount.                          *)
(*                                                                         *)
(* Two things must not happen, without which all of it is false: that the  *)
(* user creates an account that exists, and that a call throws although    *)
(* the network has done it.                                                *)
(***************************************************************************)
EXTENDS AccountHandler, TLAPS

Creating == {"createAccount", "createVersions", "createUndo"}
Working == Creating \cup {"saveAccount", "saveVersions", "saveUndo"}

(* A name somebody may still ask the network for: the newest version, or one
   that a login in progress has read. *)
IsWanted(id) ==
    \/ wrapper # <<>> /\ id = Last(wrapper)
    \/ \E m \in Machines : pc[m] = "getAccount" /\ id = Last(versions[m])

NamesAreInUse ==
    /\ \A id \in Ids : IsWanted(id) => id \in 1 .. used /\ stored[id] # NoAccount
    /\ \A m \in Machines : pc[m] \in Working => name[m] \in 1 .. used

(* What an operation stores, and its catch block deletes, is nobody else's. *)
NamesAreOwn ==
    /\ \A m \in Machines : pc[m] \in Working => ~IsWanted(name[m])
    /\ \A m, k \in Machines :
           pc[m] \in Working /\ pc[k] \in Working /\ name[m] = name[k] => m = k

(* What is about to get a version has been stored, and has not changed since. *)
WorkIsStored ==
    \A m \in Machines :
        pc[m] \in {"createVersions", "saveVersions"} => stored[name[m]] = account[m]

CreatorIsAlone ==
    \A m \in Machines : pc[m] \in Creating =>
        /\ wrapper = <<>>
        /\ account[m] # NoAccount
        /\ \A k \in Machines \ {m} : pc[k] = "out"

LoginHasVersions == \A m \in Machines : pc[m] = "getAccount" => versions[m] # <<>>

IInv == /\ TypeOK
        /\ NamesAreInUse
        /\ NamesAreOwn
        /\ WorkIsStored
        /\ CreatorIsAlone
        /\ LoginHasVersions

RepliesArrive == "replyIsLost" \notin Faults
-----------------------------------------------------------------------------
(* Chains of versions. *)
LEMMA EmptyIsChain == <<>> \in Seq(Ids)
OBVIOUS

LEMMA LastIsId ==
    ASSUME NEW chain \in Seq(Ids), chain # <<>>
    PROVE  Last(chain) \in Ids
BY DEF Last

LEMMA PutVersionIsLast ==
    ASSUME NEW chain \in Seq(Ids), NEW id \in Ids
    PROVE  /\ PutVersion(chain, id) \in Seq(Ids)
           /\ PutVersion(chain, id) # <<>>
           /\ Last(PutVersion(chain, id)) = id
<1>1. CASE Len(chain) < MaxVersions
  BY <1>1 DEF PutVersion, Last
<1>2. CASE ~(Len(chain) < MaxVersions)
  <2>1. chain # <<>>
    BY <1>2, BoundsArePositive
  <2>2. Tail(chain) \in Seq(Ids)
    BY <2>1
  <2>3. Append(Tail(chain), id) \in Seq(Ids) /\ Len(Append(Tail(chain), id)) = Len(Tail(chain)) + 1
    BY <2>2
  <2>4. Append(Tail(chain), id)[Len(Tail(chain)) + 1] = id
    BY <2>2
  <2>5. PutVersion(chain, id) = Append(Tail(chain), id)
    BY <1>2 DEF PutVersion
  <2>6. Append(Tail(chain), id) # <<>>
    <3>1. Len(Tail(chain)) \in Nat /\ Len(<<>>) = 0
      BY <2>2
    <3>2. Len(Append(Tail(chain), id)) # Len(<<>>)
      BY <2>3, <3>1
    <3>3. QED
      BY <3>2, Zenon
  <2>7. Last(Append(Tail(chain), id)) = id
    BY <2>3, <2>4, Zenon DEF Last
  <2>8. QED
    BY <2>3, <2>5, <2>6, <2>7
<1>3. QED
  BY <1>1, <1>2

LEMMA FirstVersion ==
    ASSUME NEW id \in Ids
    PROVE  /\ PutVersion(<<>>, id) \in Seq(Ids)
           /\ PutVersion(<<>>, id) # <<>>
           /\ Last(PutVersion(<<>>, id)) = id
BY EmptyIsChain, PutVersionIsLast, Zenon

LEMMA NamesAreIds ==
    ASSUME TypeOK, NamesAreInUse, NEW m \in Machines, pc[m] \in Working
    PROVE  name[m] \in Ids /\ name[m] \in 1 .. used
BY BoundsArePositive DEF TypeOK, NamesAreInUse, Ids

LEMMA InitHasInv == Init => IInv
BY BoundsArePositive, NoAccountIsNoContent
   DEF Init, IInv, TypeOK, NamesAreInUse, NamesAreOwn, WorkIsStored, CreatorIsAlone,
       LoginHasVersions, IsWanted, Working, Creating, Ids, PCs, InSession

-----------------------------------------------------------------------------
(* Types. *)
LEMMA StepKeepsTypes ==
    ASSUME IInv, [Next]_vars
    PROVE  TypeOK' /\ LoginHasVersions'
<1> USE BoundsArePositive, NoAccountIsNoContent
    DEF IInv, TypeOK, LoginHasVersions, GoTo, PCs, InSession
<1>1. CASE UNCHANGED vars
  BY <1>1 DEF vars
<1>2. ASSUME NEW m \in Machines, Create(m)
      PROVE  TypeOK' /\ LoginHasVersions'
  BY <1>2 DEF Create, EncryptAccount, network
<1>3. ASSUME NEW m \in Machines, NEW from \in {"createAccount", "saveAccount"},
             StoreAccount(m, from,
                 IF from = "createAccount" THEN "createVersions" ELSE "saveVersions",
                 IF from = "createAccount" THEN "createUndo" ELSE "saveUndo")
      PROVE  TypeOK' /\ LoginHasVersions'
  BY <1>3 DEF StoreAccount
<1>4. ASSUME NEW m \in Machines, CreateStoresVersions(m)
      PROVE  TypeOK' /\ LoginHasVersions'
  <2>1. name[m] \in Ids
    BY <1>4, NamesAreIds DEF CreateStoresVersions, Working, Creating
  <2>2. PutVersion(<<>>, name[m]) \in Seq(Ids) /\ PutVersion(<<>>, name[m]) # <<>>
    BY <2>1, FirstVersion
  <2>3. account[m] # NoAccount
    BY <1>4 DEF CreateStoresVersions, CreatorIsAlone, Creating
  <2>4. /\ versions' \in [Machines -> Seq(Ids)]
        /\ versions'[m] # <<>>
        /\ \A k \in Machines \ {m} : versions'[k] = versions[k]
    BY <1>4, <2>2 DEF CreateStoresVersions
  <2>5. wrapper' \in Seq(Ids)
    BY <1>4, <2>2 DEF CreateStoresVersions
  <2>6. /\ pc' \in [Machines -> PCs]
        /\ pc'[m] \in {"createUndo", "in"}
        /\ \A k \in Machines \ {m} : pc'[k] = pc[k]
    BY <1>4 DEF CreateStoresVersions
  <2>7. UNCHANGED <<stored, used, account, name>>
    BY <1>4 DEF CreateStoresVersions
  <2>8. QED
    BY <2>3, <2>4, <2>5, <2>6, <2>7
<1>5. ASSUME NEW m \in Machines, CreateUndoes(m)
      PROVE  TypeOK' /\ LoginHasVersions'
  <2>1. stored' \in [Ids -> Contents \cup {NoAccount}]
    BY <1>5 DEF CreateUndoes, network
  <2>2. wrapper' = wrapper \/ wrapper' = <<>>
    BY <1>5 DEF CreateUndoes, network
  <2>3. wrapper' \in Seq(Ids)
    BY <2>2, EmptyIsChain, Zenon
  <2>4. /\ versions' \in [Machines -> Seq(Ids)]
        /\ \A k \in Machines \ {m} : versions'[k] = versions[k]
    BY <1>5 DEF CreateUndoes
  <2>5. /\ pc' \in [Machines -> PCs]
        /\ pc'[m] = "out"
        /\ \A k \in Machines \ {m} : pc'[k] = pc[k]
    BY <1>5 DEF CreateUndoes
  <2>6. /\ account' \in [Machines -> Contents \cup {NoAccount}]
        /\ \A k \in Machines \ {m} : account'[k] = account[k]
        /\ UNCHANGED <<used, name>>
    BY <1>5 DEF CreateUndoes
  <2>7. QED
    BY <2>1, <2>3, <2>4, <2>5, <2>6
<1>6. ASSUME NEW m \in Machines, LoginGetsVersions(m)
      PROVE  TypeOK' /\ LoginHasVersions'
  BY <1>6 DEF LoginGetsVersions, network
<1>7. ASSUME NEW m \in Machines, LoginSucceeds(m)
      PROVE  TypeOK' /\ LoginHasVersions'
  <2>1. Last(versions[m]) \in Ids
    BY <1>7, LastIsId DEF LoginSucceeds
  <2>2. QED
    BY <1>7, <2>1 DEF LoginSucceeds, network
<1>8. ASSUME NEW m \in Machines, LoginThrows(m)
      PROVE  TypeOK' /\ LoginHasVersions'
  BY <1>8 DEF LoginThrows, network
<1>9. ASSUME NEW m \in Machines, Change(m)
      PROVE  TypeOK' /\ LoginHasVersions'
  BY <1>9 DEF Change, network
<1>10. ASSUME NEW m \in Machines, Save(m)
       PROVE  TypeOK' /\ LoginHasVersions'
  BY <1>10 DEF Save, EncryptAccount, network
<1>11. ASSUME NEW m \in Machines, SaveStoresVersions(m)
       PROVE  TypeOK' /\ LoginHasVersions'
  <2>1. name[m] \in Ids
    BY <1>11, NamesAreIds DEF SaveStoresVersions, Working, Creating
  <2>2. PutVersion(versions[m], name[m]) \in Seq(Ids) /\ PutVersion(versions[m], name[m]) # <<>>
    BY <2>1, PutVersionIsLast
  <2>3. QED
    BY <1>11, <2>2 DEF SaveStoresVersions
<1>12. ASSUME NEW m \in Machines, SaveUndoes(m)
       PROVE  TypeOK' /\ LoginHasVersions'
  BY <1>12 DEF SaveUndoes
<1>13. ASSUME NEW m \in Machines, Forget(m)
       PROVE  TypeOK' /\ LoginHasVersions'
  BY <1>13 DEF Forget, network
<1>14. QED
  BY <1>1, <1>2, <1>3, <1>4, <1>5, <1>6, <1>7, <1>8, <1>9, <1>10, <1>11, <1>12, <1>13
     DEF Next, Operation, CreateStoresAccount, SaveStoresAccount, Destroyed, Crash
-----------------------------------------------------------------------------
(* Names.  A step after which no more names are wanted keeps what is said of
   them, and so does one that takes a name nobody has had. *)
LEMMA WantedOnlyShrinks ==
    ASSUME wrapper' = wrapper,
           \A k \in Machines : pc'[k] = "getAccount" =>
               pc[k] = "getAccount" /\ versions'[k] = versions[k],
           NEW id, IsWanted(id)'
    PROVE  IsWanted(id)
BY DEF IsWanted

NamesInv == NamesAreInUse /\ NamesAreOwn /\ WorkIsStored /\ CreatorIsAlone

(* Every step of an operation but the first, the Stores and the catch blocks. *)
LEMMA QuietKeepsNames ==
    ASSUME IInv, TypeOK', NEW m \in Machines,
           UNCHANGED <<network, used, name>>,
           \A k \in Machines \ {m} :
               pc'[k] = pc[k] /\ account'[k] = account[k] /\ versions'[k] = versions[k],
           pc'[m] = "out" \/ (pc'[m] = "in" /\ pc[m] # "out")
    PROVE  NamesInv'
<1>1. \A id : IsWanted(id)' => IsWanted(id)
  BY WantedOnlyShrinks DEF network
<1>2. NamesAreInUse'
  BY <1>1 DEF IInv, NamesAreInUse, network, Working, Creating
<1>3. NamesAreOwn'
  BY <1>1 DEF IInv, NamesAreOwn, Working, Creating
<1>4. WorkIsStored'
  BY DEF IInv, WorkIsStored, network
<1>5. CreatorIsAlone'
  BY DEF IInv, CreatorIsAlone, Creating, network
<1>6. QED
  BY <1>2, <1>3, <1>4, <1>5 DEF NamesInv

LEMMA EncryptKeepsNames ==
    ASSUME IInv, TypeOK', NEW m \in Machines, EncryptAccount(m), UNCHANGED network,
           \A k \in Machines \ {m} :
               pc'[k] = pc[k] /\ account'[k] = account[k] /\ versions'[k] = versions[k],
           \/ pc[m] = "in" /\ pc'[m] = "saveAccount"
           \/ /\ pc'[m] = "createAccount" /\ account'[m] # NoAccount
              /\ wrapper = <<>> /\ \A k \in Machines : pc[k] = "out"
    PROVE  NamesInv'
<1>1. \A id : IsWanted(id)' => IsWanted(id)
  BY WantedOnlyShrinks DEF network
<1>2. used \in Nat /\ used' = used + 1 /\ name'[m] = used + 1 /\ used + 1 \in Ids
  BY BoundsArePositive DEF EncryptAccount, IInv, TypeOK, Ids
<1>3. \A k \in Machines \ {m} : name'[k] = name[k]
  BY DEF EncryptAccount, IInv, TypeOK
<1>4. \A k \in Machines : pc[k] \in Working => name[k] # used + 1
  BY <1>2 DEF IInv, NamesAreInUse
<1>5. NamesAreInUse'
  BY <1>1, <1>2, <1>3 DEF IInv, NamesAreInUse, network, Working, Creating
<1>6. NamesAreOwn'
  <2>1. ~IsWanted(used + 1)
    BY <1>2 DEF IInv, NamesAreInUse
  <2>2. QED
    BY <1>1, <1>2, <1>3, <1>4, <2>1 DEF IInv, NamesAreOwn
<1>7. WorkIsStored'
  BY <1>3 DEF IInv, WorkIsStored, network
<1>8. CreatorIsAlone'
  BY <1>3 DEF IInv, CreatorIsAlone, Creating, network
<1>9. QED
  BY <1>5, <1>6, <1>7, <1>8 DEF NamesInv

LEMMA StoreAccountKeepsNames ==
    ASSUME IInv, TypeOK', NEW m \in Machines,
           NEW from \in {"createAccount", "saveAccount"},
           StoreAccount(m, from,
               IF from = "createAccount" THEN "createVersions" ELSE "saveVersions",
               IF from = "createAccount" THEN "createUndo" ELSE "saveUndo"),
           RepliesArrive
    PROVE  NamesInv' /\ \A id \in Ids : IsWanted(id) => stored'[id] = stored[id]
<1>1. /\ pc[m] = from
      /\ pc'[m] \in IF from = "createAccount" THEN {"createVersions", "createUndo"}
                                               ELSE {"saveVersions", "saveUndo"}
      /\ \A k \in Machines \ {m} : pc'[k] = pc[k]
      /\ UNCHANGED <<wrapper, used, account, versions, name>>
  BY DEF StoreAccount, GoTo, IInv, TypeOK
<1>2. \A id : IsWanted(id)' => IsWanted(id)
  BY <1>1, WantedOnlyShrinks DEF IInv, TypeOK
<1>3. name[m] \in Ids /\ ~IsWanted(name[m]) /\ account[m] \in Contents \cup {NoAccount}
  BY <1>1, NamesAreIds DEF IInv, NamesAreOwn, Working, Creating, TypeOK
<1>4. \A id \in Ids \ {name[m]} : stored'[id] = stored[id]
  BY <1>3 DEF StoreAccount, IInv, TypeOK
<1>5. pc'[m] \in {"createVersions", "saveVersions"} => stored'[name[m]] = account[m]
  BY <1>3, <1>1 DEF StoreAccount, StoreCall, IInv, TypeOK, GoTo
<1>6. NamesAreInUse'
  BY <1>1, <1>2, <1>3, <1>4 DEF IInv, NamesAreInUse, Working, Creating
<1>7. NamesAreOwn'
  BY <1>1, <1>2 DEF IInv, NamesAreOwn, Working, Creating
<1>8. WorkIsStored'
  <2>1. \A k \in Machines \ {m} : pc[k] \in Working => name[k] \in Ids \ {name[m]}
    BY <1>1, NamesAreIds DEF IInv, NamesAreOwn, Working, Creating
  <2>2. QED
    BY <1>1, <1>4, <1>5, <2>1 DEF IInv, WorkIsStored, Working, Creating
<1>9. CreatorIsAlone'
  BY <1>1 DEF IInv, CreatorIsAlone, Creating
<1>10. QED
  BY <1>3, <1>4, <1>6, <1>7, <1>8, <1>9 DEF NamesInv

LEMMA CreatedIsLast ==
    ASSUME IInv, NEW m \in Machines, CreateStoresVersions(m), pc'[m] = "in"
    PROVE  wrapper' # <<>> /\ Last(wrapper') = name[m]
<1>1. name[m] \in Ids
  BY NamesAreIds DEF CreateStoresVersions, IInv, Working, Creating
<1>2. versions'[m] = PutVersion(<<>>, name[m])
  BY DEF CreateStoresVersions, IInv, TypeOK
<1>3. wrapper' = versions'[m]
  BY DEF CreateStoresVersions, StoreCall, GoTo, IInv, TypeOK
<1>4. QED
  BY <1>1, <1>2, <1>3, FirstVersion

LEMMA SavedIsLast ==
    ASSUME IInv, NEW m \in Machines, SaveStoresVersions(m), pc'[m] = "in"
    PROVE  wrapper' # <<>> /\ Last(wrapper') = name[m]
<1>1. name[m] \in Ids
  BY NamesAreIds DEF SaveStoresVersions, IInv, Working, Creating
<1>2. versions'[m] = PutVersion(versions[m], name[m]) /\ versions[m] \in Seq(Ids)
  BY DEF SaveStoresVersions, IInv, TypeOK
<1>3. wrapper' = versions'[m]
  BY DEF SaveStoresVersions, StoreCall, GoTo, IInv, TypeOK
<1>4. QED
  BY <1>1, <1>2, <1>3, PutVersionIsLast

(* A version is put on the network: only its own name is wanted in addition. *)
LEMMA StoreVersionsKeepsNames ==
    ASSUME IInv, TypeOK', NEW m \in Machines, RepliesArrive,
           CreateStoresVersions(m) \/ SaveStoresVersions(m)
    PROVE  NamesInv'
<1>1. /\ pc[m] \in {"createVersions", "saveVersions"}
      /\ pc'[m] \in {"createUndo", "saveUndo", "in"}
      /\ pc[m] = "saveVersions" => pc'[m] \in {"saveUndo", "in"}
      /\ \A k \in Machines \ {m} : pc'[k] = pc[k] /\ versions'[k] = versions[k]
      /\ UNCHANGED <<stored, used, account, name>>
  BY DEF CreateStoresVersions, SaveStoresVersions, GoTo, IInv, TypeOK
<1>2. name[m] \in Ids /\ name[m] \in 1 .. used /\ stored[name[m]] = account[m]
  BY <1>1, NamesAreIds DEF IInv, WorkIsStored, Working, Creating
<1>3. account[m] # NoAccount
  BY <1>1 DEF IInv, CreatorIsAlone, Creating, TypeOK, InSession
<1>4. pc'[m] = "in" => wrapper' # <<>> /\ Last(wrapper') = name[m]
  BY CreatedIsLast, SavedIsLast
<1>5. pc'[m] # "in" => wrapper' = wrapper
  BY <1>1, RepliesArrive
     DEF CreateStoresVersions, SaveStoresVersions, StoreCall, GoTo, IInv, TypeOK, RepliesArrive
<1>6. \A id : IsWanted(id)' => IsWanted(id) \/ (pc'[m] = "in" /\ id = name[m])
  BY <1>1, <1>4, <1>5 DEF IsWanted
<1>7. NamesAreInUse'
  BY <1>1, <1>2, <1>3, <1>6 DEF IInv, NamesAreInUse, Working, Creating
<1>8. NamesAreOwn'
  BY <1>1, <1>6 DEF IInv, NamesAreOwn, Working, Creating
<1>9. WorkIsStored'
  BY <1>1 DEF IInv, WorkIsStored
<1>10. CreatorIsAlone'
  <2>1. ASSUME NEW k \in Machines \ {m}, pc'[k] \in Creating
        PROVE  FALSE
    BY <1>1, <2>1 DEF IInv, CreatorIsAlone
  <2>2. pc'[m] \in Creating => pc[m] \in Creating /\ wrapper' = wrapper
    BY <1>1, <1>5 DEF Creating
  <2>3. QED
    BY <1>1, <2>1, <2>2 DEF IInv, CreatorIsAlone
<1>11. QED
  BY <1>7, <1>8, <1>9, <1>10 DEF NamesInv

(* A catch block deletes what nobody else has the name of. *)
LEMMA UndoKeepsNames ==
    ASSUME IInv, TypeOK', NEW m \in Machines, CreateUndoes(m) \/ SaveUndoes(m)
    PROVE  /\ NamesInv'
           /\ wrapper' = wrapper
           /\ \A id \in Ids : IsWanted(id) => stored'[id] = stored[id]
<1>1. /\ pc[m] \in {"createUndo", "saveUndo"}
      /\ pc'[m] \in {"out", "in"}
      /\ pc[m] = "createUndo" => pc'[m] = "out"
      /\ \A k \in Machines \ {m} : /\ pc'[k] = pc[k]
                                    /\ versions'[k] = versions[k]
                                    /\ account'[k] = account[k]
      /\ UNCHANGED <<used, name>>
  BY DEF CreateUndoes, SaveUndoes, GoTo, IInv, TypeOK
<1>2. wrapper' = wrapper
  BY <1>1 DEF CreateUndoes, SaveUndoes, IInv, CreatorIsAlone, Creating, network
<1>3. \A id : IsWanted(id)' => IsWanted(id)
  BY <1>1, <1>2, WantedOnlyShrinks
<1>4. name[m] \in Ids /\ ~IsWanted(name[m])
  BY <1>1, NamesAreIds DEF IInv, NamesAreOwn, Working, Creating
<1>5. \A id \in Ids : id # name[m] => stored'[id] = stored[id]
  BY <1>4 DEF CreateUndoes, SaveUndoes, network, IInv, TypeOK
<1>6. NamesAreInUse'
  BY <1>1, <1>3, <1>4, <1>5 DEF IInv, NamesAreInUse, Working, Creating
<1>7. NamesAreOwn'
  BY <1>1, <1>3 DEF IInv, NamesAreOwn, Working, Creating
<1>8. WorkIsStored'
  <2>1. \A k \in Machines \ {m} : pc[k] \in Working => name[k] \in Ids \ {name[m]}
    BY <1>1, NamesAreIds DEF IInv, NamesAreOwn, Working, Creating
  <2>2. QED
    BY <1>1, <1>5, <2>1 DEF IInv, WorkIsStored, Working, Creating
<1>9. CreatorIsAlone'
  BY <1>1, <1>2 DEF IInv, CreatorIsAlone, Creating
<1>10. QED
  BY <1>2, <1>4, <1>5, <1>6, <1>7, <1>8, <1>9 DEF NamesInv

-----------------------------------------------------------------------------
(* The invariant. *)
LEMMA OperationKeepsInv ==
    ASSUME IInv, TypeOK', NEW m \in Machines, Operation(m), RepliesArrive, ~Duplicates
    PROVE  NamesInv' /\ \A id \in Ids : IsWanted(id) => stored'[id] = stored[id]
<1>1. CASE Create(m)
  <2>1. /\ EncryptAccount(m) /\ UNCHANGED network
        /\ pc'[m] = "createAccount" /\ account'[m] # NoAccount
        /\ wrapper = <<>> /\ \A k \in Machines : pc[k] = "out"
        /\ \A k \in Machines \ {m} :
               pc'[k] = pc[k] /\ account'[k] = account[k] /\ versions'[k] = versions[k]
    BY <1>1, NoAccountIsNoContent DEF Create, GoTo, IInv, TypeOK
  <2>2. QED
    BY <2>1, EncryptKeepsNames DEF network
<1>2. CASE CreateStoresAccount(m)
  BY <1>2, StoreAccountKeepsNames DEF CreateStoresAccount
<1>3. CASE SaveStoresAccount(m)
  BY <1>3, StoreAccountKeepsNames DEF SaveStoresAccount
<1>4. CASE CreateStoresVersions(m) \/ SaveStoresVersions(m)
  BY <1>4, StoreVersionsKeepsNames DEF CreateStoresVersions, SaveStoresVersions
<1>5. CASE CreateUndoes(m) \/ SaveUndoes(m)
  BY <1>5, UndoKeepsNames
<1>6. CASE LoginGetsVersions(m)
  <2>1. /\ UNCHANGED <<network, used, account, name>>
        /\ pc'[m] = "getAccount" /\ versions'[m] = wrapper /\ wrapper # <<>>
        /\ \A k \in Machines \ {m} : pc'[k] = pc[k] /\ versions'[k] = versions[k]
    BY <1>6 DEF LoginGetsVersions, GoTo, IInv, TypeOK
  <2>2. \A id : IsWanted(id)' => IsWanted(id)
    BY <2>1 DEF IsWanted, network
  <2>3. NamesAreInUse'
    BY <2>1, <2>2 DEF IInv, NamesAreInUse, network, Working, Creating
  <2>4. NamesAreOwn'
    BY <2>1, <2>2 DEF IInv, NamesAreOwn, network, Working, Creating
  <2>5. WorkIsStored'
    BY <2>1 DEF IInv, WorkIsStored, network
  <2>6. CreatorIsAlone'
    BY <2>1 DEF IInv, CreatorIsAlone, network, Creating
  <2>7. QED
    BY <2>1, <2>3, <2>4, <2>5, <2>6 DEF NamesInv, network
<1>7. CASE LoginSucceeds(m) \/ LoginThrows(m) \/ Change(m)
  <2>1. /\ UNCHANGED <<network, used, name>>
        /\ \A k \in Machines \ {m} :
               pc'[k] = pc[k] /\ account'[k] = account[k] /\ versions'[k] = versions[k]
        /\ pc'[m] = "out" \/ (pc'[m] = "in" /\ pc[m] # "out")
    BY <1>7 DEF LoginSucceeds, LoginThrows, Change, GoTo, IInv, TypeOK
  <2>2. QED
    BY <2>1, QuietKeepsNames DEF network
<1>8. CASE Save(m)
  <2>1. /\ EncryptAccount(m) /\ UNCHANGED network
        /\ pc[m] = "in" /\ pc'[m] = "saveAccount"
        /\ \A k \in Machines \ {m} :
               pc'[k] = pc[k] /\ account'[k] = account[k] /\ versions'[k] = versions[k]
    BY <1>8 DEF Save, GoTo, IInv, TypeOK
  <2>2. QED
    BY <2>1, EncryptKeepsNames DEF network
<1>9. QED
  BY <1>1, <1>2, <1>3, <1>4, <1>5, <1>6, <1>7, <1>8 DEF Operation

LEMMA ForgetKeepsInv ==
    ASSUME IInv, TypeOK', NEW m \in Machines, Forget(m)
    PROVE  NamesInv'
<1>1. UNCHANGED <<network, used, name>>
  BY DEF Forget
<1>2. \A k \in Machines \ {m} :
          pc'[k] = pc[k] /\ account'[k] = account[k] /\ versions'[k] = versions[k]
  BY DEF Forget, GoTo, IInv, TypeOK
<1>3. pc'[m] = "out"
  BY DEF Forget, GoTo, IInv, TypeOK
<1>4. QED
  BY <1>1, <1>2, <1>3, QuietKeepsNames DEF network

THEOREM InvHolds ==
    ASSUME RepliesArrive, ~Duplicates
    PROVE  Spec => []IInv
<1>1. IInv /\ [Next]_vars => IInv'
  <2> SUFFICES ASSUME IInv, [Next]_vars PROVE IInv'
    OBVIOUS
  <2>1. TypeOK' /\ LoginHasVersions'
    BY StepKeepsTypes
  <2>2. NamesInv'
    <3>1. CASE UNCHANGED vars
      BY <3>1 DEF vars, IInv, NamesInv, NamesAreInUse, NamesAreOwn, WorkIsStored,
         CreatorIsAlone, IsWanted
    <3>2. CASE Next
      BY <2>1, <3>2, OperationKeepsInv, ForgetKeepsInv DEF Next, Destroyed, Crash
    <3>3. QED
      BY <3>1, <3>2
  <2>3. QED
    BY <2>1, <2>2 DEF IInv, NamesInv
<1>2. QED
  BY <1>1, InitHasInv, PTL DEF Spec

(* Every variable stays in its range, and a session always has an account and
   the versions it came from. *)
THEOREM TypesHold ==
    ASSUME RepliesArrive, ~Duplicates
    PROVE  Spec => []TypeOK
<1>1. IInv => TypeOK
  BY DEF IInv
<1>2. QED
  BY <1>1, InvHolds, PTL

(* Whatever machines are half way through, and whatever calls have failed, a
   login finds the newest version's account. *)
THEOREM LoginsAreServed ==
    ASSUME RepliesArrive, ~Duplicates
    PROVE  Spec => []TipIsStored
<1>1. IInv => TipIsStored
  BY LastIsId DEF IInv, NamesAreInUse, IsWanted, TipIsStored, TypeOK
<1>2. QED
  BY <1>1, InvHolds, PTL

-----------------------------------------------------------------------------
(* The refinement. *)
LEMMA InitIsPromised == Init => Promised!Init
BY DEF Init, Promised!Init, Saved, Seen, Copy, InSession

(* What is wanted is not written, so nobody's step changes what others see. *)
LEMMA SeenIsWanted ==
    ASSUME IInv
    PROVE  /\ wrapper # <<>> => Last(wrapper) \in Ids /\ IsWanted(Last(wrapper))
           /\ \A k \in Machines : pc[k] = "getAccount" =>
                  Last(versions[k]) \in Ids /\ IsWanted(Last(versions[k]))
BY LastIsId DEF IInv, TypeOK, LoginHasVersions, IsWanted

LEMMA SavedStays ==
    ASSUME IInv, wrapper' = wrapper,
           \A id \in Ids : IsWanted(id) => stored'[id] = stored[id]
    PROVE  Saved' = Saved
BY SeenIsWanted DEF Saved

LEMMA OthersStay ==
    ASSUME IInv, NEW m \in Machines,
           \A k \in Machines \ {m} :
               pc'[k] = pc[k] /\ account'[k] = account[k] /\ versions'[k] = versions[k],
           \A id \in Ids : IsWanted(id) => stored'[id] = stored[id]
    PROVE  /\ Seen' = [Seen EXCEPT ![m] =
                           IF pc'[m] = "getAccount" THEN stored'[Last(versions'[m])] ELSE NoAccount]
           /\ Copy' = [Copy EXCEPT ![m] = IF pc'[m] \in InSession THEN account'[m] ELSE NoAccount]
<1>1. \A k \in Machines \ {m} : Seen'[k] = Seen[k] /\ Copy'[k] = Copy[k]
  BY SeenIsWanted DEF Seen, Copy
<1>2. QED
  BY <1>1 DEF Seen, Copy

LEMMA OthersAreLeft ==
    ASSUME IInv, NEW m \in Machines, Operation(m) \/ Forget(m)
    PROVE  \A k \in Machines \ {m} :
               pc'[k] = pc[k] /\ account'[k] = account[k] /\ versions'[k] = versions[k]
BY DEF IInv, TypeOK, Operation, GoTo, Create, CreateStoresAccount, StoreAccount,
   CreateStoresVersions, CreateUndoes, LoginGetsVersions, LoginSucceeds, LoginThrows, Change,
   Save, SaveStoresAccount, SaveStoresVersions, SaveUndoes, Forget

LEMMA OperationIsPromised ==
    ASSUME IInv, IInv', NEW m \in Machines, Operation(m), RepliesArrive, ~Duplicates
    PROVE  [Promised!Next]_(Promised!vars)
<1>1. \A id \in Ids : IsWanted(id) => stored'[id] = stored[id]
  BY OperationKeepsInv DEF IInv
<1>2. /\ Seen' = [Seen EXCEPT ![m] =
                     IF pc'[m] = "getAccount" THEN stored'[Last(versions'[m])] ELSE NoAccount]
      /\ Copy' = [Copy EXCEPT ![m] = IF pc'[m] \in InSession THEN account'[m] ELSE NoAccount]
  BY <1>1, OthersAreLeft, OthersStay
<1>3. wrapper' = wrapper => Saved' = Saved
  BY <1>1, SavedStays
<1>4. /\ Seen[m] = IF pc[m] = "getAccount" THEN stored[Last(versions[m])] ELSE NoAccount
      /\ Copy[m] = IF pc[m] \in InSession THEN account[m] ELSE NoAccount
  BY DEF Seen, Copy
<1>5. ASSUME wrapper' = wrapper, Seen'[m] = Seen[m], Copy'[m] = Copy[m]
      PROVE  UNCHANGED Promised!vars
  <2>1. Seen' = Seen /\ Copy' = Copy
    BY <1>2, <1>5 DEF Seen, Copy
  <2>2. QED
    BY <1>3, <1>5, <2>1 DEF Promised!vars
<1>6. Seen'[m] = IF pc'[m] = "getAccount" THEN stored'[Last(versions'[m])] ELSE NoAccount
  BY DEF Seen
<1>7. Copy'[m] = IF pc'[m] \in InSession THEN account'[m] ELSE NoAccount
  BY DEF Copy
<1>8. CASE Create(m) \/ Save(m) \/ CreateStoresAccount(m) \/ SaveStoresAccount(m)
  <2>1. /\ UNCHANGED wrapper
        /\ pc[m] # "getAccount" /\ pc'[m] # "getAccount"
        /\ pc[m] \in InSession <=> pc'[m] \in InSession
        /\ pc'[m] \in InSession => account'[m] = account[m]
    BY <1>8 DEF Create, Save, CreateStoresAccount, SaveStoresAccount, StoreAccount, GoTo,
       network, InSession, IInv, TypeOK
  <2>2. QED
    BY <1>4, <1>5, <1>6, <1>7, <2>1
<1>9. CASE CreateUndoes(m) \/ SaveUndoes(m)
  <2>1. wrapper' = wrapper
    BY <1>9, UndoKeepsNames DEF IInv
  <2>2. /\ pc[m] # "getAccount" /\ pc'[m] # "getAccount"
        /\ pc[m] \in InSession <=> pc'[m] \in InSession
        /\ pc'[m] \in InSession => account'[m] = account[m]
    BY <1>9 DEF CreateUndoes, SaveUndoes, GoTo, InSession, IInv, TypeOK
  <2>3. QED
    BY <1>4, <1>5, <1>6, <1>7, <2>1, <2>2
<1>10. CASE CreateStoresVersions(m)
  <2>1. CASE wrapper' = wrapper /\ pc'[m] = "createUndo"
    <3>1. pc[m] = "createVersions"
      BY <1>10 DEF CreateStoresVersions
    <3>2. QED
      BY <1>4, <1>5, <1>6, <1>7, <2>1, <3>1 DEF InSession
  <2>2. CASE pc'[m] = "in"
    <3>1. /\ pc[m] = "createVersions" /\ wrapper = <<>>
          /\ stored' = stored /\ account' = account /\ name' = name
      BY <1>10 DEF CreateStoresVersions, IInv, CreatorIsAlone, Creating
    <3>2. wrapper' # <<>> /\ Last(wrapper') = name[m]
      BY <1>10, <2>2, CreatedIsLast
    <3>3. Saved = NoAccount /\ Saved' = account[m]
      BY <3>1, <3>2 DEF Saved, IInv, WorkIsStored
    <3>4. account[m] \in Contents
      BY <3>1 DEF IInv, CreatorIsAlone, Creating, TypeOK
    <3>5. Copy' = [Copy EXCEPT ![m] = account[m]]
      BY <1>2, <2>2, <3>1 DEF InSession
    <3>6. Seen' = Seen
      BY <1>2, <1>4, <2>2, <3>1 DEF Seen
    <3>7. QED
      BY <3>3, <3>4, <3>5, <3>6 DEF Promised!Next, Promised!Create
  <2>3. QED
    BY <1>10, <2>1, <2>2, RepliesArrive
       DEF CreateStoresVersions, StoreCall, GoTo, RepliesArrive, IInv, TypeOK
<1>11. CASE SaveStoresVersions(m)
  <2>1. /\ pc[m] = "saveVersions" /\ pc'[m] \in {"saveUndo", "in"}
        /\ UNCHANGED <<stored, account, name>>
    BY <1>11 DEF SaveStoresVersions, GoTo, IInv, TypeOK
  <2>2. CASE pc'[m] = "saveUndo"
    <3>1. wrapper' = wrapper
      BY <1>11, <2>2, RepliesArrive
         DEF SaveStoresVersions, StoreCall, GoTo, RepliesArrive, IInv, TypeOK
    <3>2. QED
      BY <1>4, <1>5, <1>6, <1>7, <2>1, <2>2, <3>1 DEF InSession
  <2>3. CASE pc'[m] = "in"
    <3>1. wrapper' # <<>> /\ Last(wrapper') = name[m]
      BY <1>11, <2>3, SavedIsLast
    <3>2. Saved' = account[m] /\ Copy[m] = account[m] /\ account[m] # NoAccount
      BY <1>4, <2>1, <3>1 DEF Saved, IInv, WorkIsStored, TypeOK, InSession
    <3>3. Copy' = Copy /\ Seen' = Seen
      BY <1>2, <1>4, <2>1, <2>3 DEF Copy, Seen, InSession
    <3>4. QED
      BY <3>2, <3>3 DEF Promised!Next, Promised!Save
  <2>4. QED
    BY <2>1, <2>2, <2>3
<1>12. CASE LoginGetsVersions(m)
  <2>1. /\ UNCHANGED <<stored, wrapper, account>> /\ pc[m] = "out" /\ wrapper # <<>>
        /\ pc'[m] = "getAccount" /\ versions'[m] = wrapper
    BY <1>12 DEF LoginGetsVersions, GoTo, network, IInv, TypeOK
  <2>2. Saved' = Saved /\ Saved = stored[Last(wrapper)] /\ Saved # NoAccount
    BY <1>3, <2>1, SeenIsWanted DEF Saved, IInv, NamesAreInUse
  <2>3. Copy' = Copy
    BY <1>2, <1>4, <2>1 DEF Copy, InSession
  <2>4. Seen' = [Seen EXCEPT ![m] = Saved]
    BY <1>2, <2>1, <2>2
  <2>5. QED
    BY <2>2, <2>3, <2>4 DEF Promised!Next, Promised!Look
<1>13. CASE LoginSucceeds(m)
  <2>1. /\ UNCHANGED <<stored, wrapper, versions>> /\ pc[m] = "getAccount" /\ pc'[m] = "in"
        /\ stored[Last(versions[m])] # NoAccount
        /\ account'[m] = stored[Last(versions[m])]
    BY <1>13 DEF LoginSucceeds, GoTo, network, IInv, TypeOK
  <2>2. Saved' = Saved /\ Seen[m] = account'[m] /\ Seen[m] # NoAccount
    BY <1>3, <1>4, <2>1
  <2>3. Copy' = [Copy EXCEPT ![m] = Seen[m]] /\ Seen' = [Seen EXCEPT ![m] = NoAccount]
    BY <1>2, <2>1, <2>2 DEF InSession
  <2>4. QED
    BY <2>2, <2>3 DEF Promised!Next, Promised!Login
<1>14. CASE LoginThrows(m)
  <2>1. /\ UNCHANGED <<wrapper, account>> /\ pc[m] = "getAccount" /\ pc'[m] = "out"
    BY <1>14 DEF LoginThrows, GoTo, network, IInv, TypeOK
  <2>2. Copy' = [Copy EXCEPT ![m] = NoAccount] /\ Seen' = [Seen EXCEPT ![m] = NoAccount]
    BY <1>2, <2>1 DEF InSession
  <2>3. QED
    BY <1>3, <2>1, <2>2 DEF Promised!Next, Promised!Leave
<1>15. CASE Change(m)
  <2>1. /\ UNCHANGED <<wrapper, pc>> /\ pc[m] = "in" /\ account'[m] \in Contents
        /\ account[m] # NoAccount
    BY <1>15 DEF Change, network, IInv, TypeOK, InSession
  <2>2. Copy[m] # NoAccount /\ Copy' = [Copy EXCEPT ![m] = account'[m]] /\ Seen' = Seen
    BY <1>2, <1>4, <2>1 DEF InSession, Seen
  <2>3. QED
    BY <1>3, <2>1, <2>2 DEF Promised!Next, Promised!Change
<1>16. QED
  BY <1>8, <1>9, <1>10, <1>11, <1>12, <1>13, <1>14, <1>15 DEF Operation

LEMMA ForgetIsPromised ==
    ASSUME IInv, NEW m \in Machines, Forget(m)
    PROVE  [Promised!Next]_(Promised!vars)
<1>1. UNCHANGED <<stored, wrapper>> /\ pc'[m] = "out"
  BY DEF Forget, GoTo, network, IInv, TypeOK
<1>2. Saved' = Saved
  BY <1>1 DEF Saved
<1>3. Copy' = [Copy EXCEPT ![m] = NoAccount] /\ Seen' = [Seen EXCEPT ![m] = NoAccount]
  BY <1>1, OthersAreLeft, OthersStay DEF InSession
<1>4. QED
  BY <1>2, <1>3 DEF Promised!Next, Promised!Leave

(* The network calls of all machines add up to an account that is saved as a
   whole or not at all. *)
THEOREM SavingIsAtomic ==
    ASSUME RepliesArrive, ~Duplicates
    PROVE  Spec => SavesAsPromised
<1>1. IInv /\ IInv' /\ [Next]_vars => [Promised!Next]_(Promised!vars)
  <2> SUFFICES ASSUME IInv, IInv', [Next]_vars PROVE [Promised!Next]_(Promised!vars)
    OBVIOUS
  <2>1. CASE UNCHANGED vars
    BY <2>1 DEF vars, Promised!vars, Saved, Seen, Copy
  <2>2. CASE Next
    BY <2>2, OperationIsPromised, ForgetIsPromised DEF Next, Destroyed, Crash
  <2>3. QED
    BY <2>1, <2>2
<1>2. QED
  BY <1>1, InitIsPromised, InvHolds, PTL DEF Spec, SavesAsPromised, Promised!Spec
=============================================================================
