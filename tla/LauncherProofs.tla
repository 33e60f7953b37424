--------------------------- MODULE LauncherProofs ---------------------------
(* What holds of the Launcher for any number of threads, apps and details. *)
EXTENDS LauncherProperties, InductionLemmas

-----------------------------------------------------------------------------
(* What the operations on sets of apps return. *)

(* An app that is in a set has details: NoApp is the only other value. *)
LEMMA InSetHasDetails ==
    ASSUME NEW set \in AppSet, NEW n \in NamesIn(set)
    PROVE  n \in Names /\ set[n] \in AppDetails
  BY DEF AppSet, NamesIn

LEMMA EmptySetType == EmptySet \in AppSet
  BY DEF EmptySet, AppSet

LEMMA InsertType ==
    ASSUME NEW set \in AppSet, NEW n \in Names, NEW app \in AppDetails
    PROVE  Insert(set, n, app) \in AppSet
  BY DEF Insert, AppSet

LEMMA EraseType ==
    ASSUME NEW set \in AppSet, NEW n \in Names
    PROVE  Erase(set, n) \in AppSet
  BY DEF Erase, AppSet

LEMMA SetUnionType ==
    ASSUME NEW first \in AppSet, NEW second \in AppSet
    PROVE  SetUnion(first, second) \in AppSet
  BY DEF SetUnion, AppSet

LEMMA PersistedType ==
    ASSUME NEW set \in AppSet
    PROVE  Persisted(set) \in AppSet
  <1>1. ASSUME NEW n \in NamesIn(set)
        PROVE  [set[n] EXCEPT !.settings = NoSettings] \in AppDetails
    BY <1>1, InSetHasDetails DEF AppDetails
  <1> QED
    BY <1>1 DEF Persisted, AppSet

LEMMA ConfigOfType ==
    ASSUME NEW locals \in AppSet
    PROVE  ConfigOf(locals) \in ConfigFile
  <1>1. ASSUME NEW n \in NamesIn(locals)
        PROVE  locals[n].settings \in Settings \cup {NoSettings}
    BY <1>1, InSetHasDetails DEF AppDetails
  <1>2. ConfigOf(locals).apps \in ConfigApps
    BY <1>1 DEF ConfigOf, ConfigApps
  <1> QED
    BY <1>2 DEF ConfigOf, ConfigFile

LEMMA NoFileType == NoFile \in ConfigFile /\ TornFile \in ConfigFile
  BY DEF NoFile, TornFile, ConfigFile, ConfigApps

LEMMA ParseConfigType ==
    ASSUME NEW file \in ConfigFile
    PROVE  ParseConfig(file) \in AppSet
  <1>1. ASSUME NEW n \in Names, file.apps[n] # NoApp
        PROVE  [settings |-> file.apps[n], dirs |-> {}, icon |-> NoIcon] \in AppDetails
    BY <1>1 DEF ConfigFile, ConfigApps, AppDetails
  <1> QED
    BY <1>1 DEF ParseConfig, AppSet

LEMMA MergedType ==
    ASSUME NEW locals \in AppSet, NEW nonLocals \in AppSet
    PROVE  /\ MergedLocal(locals, nonLocals) \in AppSet
           /\ MergedNonLocal(locals, nonLocals) \in AppSet
  <1>1. ASSUME NEW n \in NamesIn(locals) \cap NamesIn(nonLocals)
        PROVE  [locals[n] EXCEPT !.dirs = nonLocals[n].dirs] \in AppDetails
    <2>1. locals[n] \in AppDetails /\ nonLocals[n] \in AppDetails
      BY InSetHasDetails
    <2> QED
      BY <2>1 DEF AppDetails
  <1>2. ASSUME NEW n \in Names
        PROVE  MergedLocal(locals, nonLocals)[n] \in AppDetails \cup {NoApp}
    <2>1. CASE n \in NamesIn(locals) \cap NamesIn(nonLocals)
      BY <2>1, <1>1 DEF MergedLocal
    <2>2. CASE n \notin NamesIn(locals) \cap NamesIn(nonLocals)
      BY <2>2 DEF MergedLocal, AppSet
    <2> QED
      BY <2>1, <2>2
  <1>3. MergedLocal(locals, nonLocals) \in AppSet
    BY <1>2 DEF MergedLocal, AppSet
  <1>4. MergedNonLocal(locals, nonLocals) \in AppSet
    BY DEF MergedNonLocal, AppSet
  <1> QED
    BY <1>3, <1>4

-----------------------------------------------------------------------------
(* Which names are in the result. *)

LEMMA NamesOfEmptySet == NamesIn(EmptySet) = {}
  BY DEF EmptySet, NamesIn

LEMMA NamesOfInsert ==
    ASSUME NEW set \in AppSet, NEW n \in Names, NEW app \in AppDetails
    PROVE  NamesIn(Insert(set, n, app)) = NamesIn(set) \cup {n}
  BY NoAppIsNoDetails DEF Insert, AppSet, NamesIn

LEMMA NamesOfErase ==
    ASSUME NEW set \in AppSet, NEW n \in Names
    PROVE  NamesIn(Erase(set, n)) = NamesIn(set) \ {n}
  BY DEF Erase, AppSet, NamesIn

LEMMA NamesOfUnion ==
    ASSUME NEW first \in AppSet, NEW second \in AppSet
    PROVE  NamesIn(SetUnion(first, second)) = NamesIn(first) \cup NamesIn(second)
  BY DEF SetUnion, AppSet, NamesIn

(* After the merge no app is in both sets, and the non-local ones are the
   account's. *)
LEMMA NamesOfMerged ==
    ASSUME NEW locals \in AppSet, NEW nonLocals \in AppSet
    PROVE  /\ NamesIn(MergedLocal(locals, nonLocals)) \subseteq NamesIn(locals)
           /\ NamesIn(MergedNonLocal(locals, nonLocals)) = NamesIn(nonLocals) \ NamesIn(locals)
  <1>1. ASSUME NEW n \in Names, n \notin NamesIn(locals)
        PROVE  MergedLocal(locals, nonLocals)[n] = NoApp
    BY <1>1 DEF MergedLocal, NamesIn
  <1> QED
    BY <1>1 DEF MergedNonLocal, NamesIn

-----------------------------------------------------------------------------
(* The merge loop of AppHandler::Initialise.  Names are whole numbers: an iterator that
   is not at the end is at the least of the names it has not passed. *)
LEMMA MinOfFiniteSet ==
    ASSUME NEW S, S \subseteq Int, IsFiniteSet(S), S # {}
    PROVE  Min(S) \in S /\ \A n \in S : Min(S) <= n
  <1> DEFINE HasLeast == {T \in SUBSET S : T = {} \/ \E least \in T : \A n \in T : least <= n}
  <1>1. {} \in HasLeast
    OBVIOUS
  <1>2. ASSUME NEW T \in SUBSET S, T # {}, \A x \in T : T \ {x} \in HasLeast
        PROVE  T \in HasLeast
    <2>1. PICK x \in T : TRUE
      BY <1>2
    <2>2. CASE T \ {x} = {}
      <3>1. \A n \in T : x <= n
        BY <2>1, <2>2
      <3> QED
        BY <2>1, <3>1
    <2>3. CASE T \ {x} # {}
      <3>1. PICK least \in T \ {x} : \A n \in T \ {x} : least <= n
        BY <1>2, <2>1, <2>3
      <3>2. x \in Int /\ least \in Int
        BY <2>1, <3>1
      <3>3. CASE least <= x
        <4>1. \A n \in T : least <= n
          BY <3>1, <3>3
        <4> QED
          BY <3>1, <4>1
      <3>4. CASE x < least
        <4>1. \A n \in T : n \in Int /\ x <= n
          BY <3>1, <3>2, <3>4
        <4> QED
          BY <2>1, <4>1
      <3> QED
        BY <3>2, <3>3, <3>4
    <2> QED
      BY <2>2, <2>3
  <1>3. S \in HasLeast
    BY <1>1, <1>2, SubsetInduction
  <1> QED
    BY <1>3 DEF Min

(* What the iterators have passed is as it should be left, what they have not is as it
   was; and each has passed only what is before all that the other has not. *)
MergeGoesOn(state, locals, nonLocals) ==
    /\ state.localItr \subseteq NamesIn(locals)
    /\ state.nonLocalItr \subseteq NamesIn(nonLocals)
    /\ state.locals = [n \in Names |-> IF n \in state.localItr THEN locals[n]
                                       ELSE IF n \in NamesIn(locals) THEN MergedLocal(locals, nonLocals)[n]
                                       ELSE NoApp]
    /\ state.nonLocals = [n \in Names |-> IF n \in state.nonLocalItr THEN nonLocals[n]
                                          ELSE IF n \in NamesIn(nonLocals) THEN MergedNonLocal(locals, nonLocals)[n]
                                          ELSE NoApp]
    /\ \A l \in NamesIn(locals) \ state.localItr, n \in state.nonLocalItr : l < n
    /\ \A l \in state.localItr, n \in NamesIn(nonLocals) \ state.nonLocalItr : n < l

MergeStates == [locals : AppSet, nonLocals : AppSet, localItr : SUBSET Names, nonLocalItr : SUBSET Names]

LEMMA MergeBegins ==
    ASSUME NEW locals \in AppSet, NEW nonLocals \in AppSet
    PROVE  /\ MergeBegin(locals, nonLocals) \in MergeStates
           /\ MergeGoesOn(MergeBegin(locals, nonLocals), locals, nonLocals)
  BY DEF MergeBegin, MergeStates, MergeGoesOn, NamesIn, AppSet

LEMMA MergeEnds ==
    ASSUME NEW locals \in AppSet, NEW nonLocals \in AppSet, NEW state \in MergeStates,
           MergeGoesOn(state, locals, nonLocals), MergeEnded(state)
    PROVE  /\ state.locals = MergedLocal(locals, nonLocals)
           /\ state.nonLocals = MergedNonLocal(locals, nonLocals)
  <1> USE NamesAreOrdered
  <1>1. ASSUME NEW n \in Names
        PROVE  state.locals[n] = MergedLocal(locals, nonLocals)[n]
    <2>1. CASE n \notin NamesIn(locals)
      BY <1>1, <2>1 DEF MergeGoesOn, MergedLocal, NamesIn
    <2>2. CASE n \in NamesIn(locals) \ state.localItr
      BY <1>1, <2>2 DEF MergeGoesOn
    <2>3. CASE n \in state.localItr
      <3>1. state.nonLocalItr = {} /\ \A m \in NamesIn(nonLocals) : m \in Int /\ m < n
        BY <2>3 DEF MergeEnded, MergeGoesOn, NamesIn
      <3>2. n \notin NamesIn(nonLocals) /\ ~ \E m \in NamesIn(nonLocals) : n < m
        BY <1>1, <3>1
      <3> QED
        BY <1>1, <2>3, <3>2 DEF MergeGoesOn, MergedLocal
    <2> QED
      BY <2>1, <2>2, <2>3
  <1>2. ASSUME NEW n \in Names
        PROVE  state.nonLocals[n] = MergedNonLocal(locals, nonLocals)[n]
    <2>1. CASE n \notin NamesIn(nonLocals)
      BY <1>2, <2>1 DEF MergeGoesOn, MergedNonLocal, NamesIn
    <2>2. CASE n \in NamesIn(nonLocals) \ state.nonLocalItr
      BY <1>2, <2>2 DEF MergeGoesOn
    <2>3. CASE n \in state.nonLocalItr
      <3>1. state.localItr = {} /\ \A l \in NamesIn(locals) : l < n
        BY <2>3 DEF MergeEnded, MergeGoesOn
      <3>2. n \notin NamesIn(locals)
        BY <1>2, <3>1
      <3> QED
        BY <1>2, <2>3, <3>2 DEF MergeGoesOn, MergedNonLocal
    <2> QED
      BY <2>1, <2>2, <2>3
  <1> QED
    BY <1>1, <1>2 DEF MergeGoesOn, MergedLocal, MergedNonLocal

LEMMA MergeTurns ==
    ASSUME NEW locals \in AppSet, NEW nonLocals \in AppSet, NEW state \in MergeStates,
           IsFiniteSet(NamesIn(locals)), IsFiniteSet(NamesIn(nonLocals)),
           MergeGoesOn(state, locals, nonLocals), ~ MergeEnded(state)
    PROVE  /\ MergeTurn(state) \in MergeStates
           /\ MergeGoesOn(MergeTurn(state), locals, nonLocals)
           /\ MergeTurn(state).localItr \subseteq state.localItr
           /\ MergeTurn(state).nonLocalItr \subseteq state.nonLocalItr
           /\ MergeTurn(state).localItr # state.localItr \/ MergeTurn(state).nonLocalItr # state.nonLocalItr
  <1> DEFINE l == Min(state.localItr)
             n == Min(state.nonLocalItr)
             L == NamesIn(locals)
             N == NamesIn(nonLocals)
             merged == [state.locals[l] EXCEPT !.dirs = state.nonLocals[n].dirs]
             next == MergeTurn(state)
  <1>1. l \in state.localItr /\ n \in state.nonLocalItr /\ l \in Int /\ n \in Int
        /\ (\A m \in state.localItr : l <= m) /\ (\A m \in state.nonLocalItr : n <= m)
    <2>1. state.localItr \subseteq L /\ state.localItr # {} /\ L \subseteq Int /\ IsFiniteSet(state.localItr)
      BY NamesAreOrdered, FS_Subset DEF MergeGoesOn, MergeEnded, NamesIn
    <2>2. state.nonLocalItr \subseteq N /\ state.nonLocalItr # {} /\ N \subseteq Int /\ IsFiniteSet(state.nonLocalItr)
      BY NamesAreOrdered, FS_Subset DEF MergeGoesOn, MergeEnded, NamesIn
    <2> QED
      BY <2>1, <2>2, MinOfFiniteSet
  <1>2. l \in L /\ n \in N /\ l \in Names /\ n \in Names /\ L \subseteq Int /\ N \subseteq Int
    BY <1>1, NamesAreOrdered DEF MergeGoesOn, NamesIn
  <1>3. state.locals[l] = locals[l] /\ state.nonLocals[n] = nonLocals[n]
        /\ locals[l] \in AppDetails /\ nonLocals[n] \in AppDetails
    BY <1>1, <1>2, InSetHasDetails DEF MergeGoesOn
  <1> HIDE DEF l, n
  <1>4. CASE l < n
    <2>1. next = [state EXCEPT !.locals = Erase(@, l), !.localItr = @ \ {l}]
      BY <1>1, <1>4 DEF MergeTurn, l, n
    <2>2. next = [locals |-> Erase(state.locals, l), nonLocals |-> state.nonLocals,
                  localItr |-> state.localItr \ {l}, nonLocalItr |-> state.nonLocalItr]
      BY <2>1 DEF MergeStates
    <2>3. l \notin N
      <3>1. l \notin state.nonLocalItr
        BY <1>1, <1>4
      <3>2. l \notin N \ state.nonLocalItr
        BY <1>1 DEF MergeGoesOn
      <3> QED
        BY <3>1, <3>2
    <2>4. MergedLocal(locals, nonLocals)[l] = NoApp
      BY <1>2, <1>4, <2>3 DEF MergedLocal
    <2>5. next \in MergeStates
      BY <1>2, <2>2, EraseType DEF MergeStates
    <2>6. next.locals = [m \in Names |-> IF m \in next.localItr THEN locals[m]
                                         ELSE IF m \in L THEN MergedLocal(locals, nonLocals)[m]
                                         ELSE NoApp]
      BY <1>2, <2>2, <2>4 DEF MergeGoesOn, Erase
    <2>7. \A k \in L \ next.localItr, m \in next.nonLocalItr : k < m
      <3>1. \A m \in state.nonLocalItr : m \in Int /\ l < m
        BY <1>1, <1>2, <1>4 DEF MergeGoesOn
      <3> QED
        BY <2>2, <3>1 DEF MergeGoesOn
    <2> QED
      BY <1>1, <2>2, <2>5, <2>6, <2>7 DEF MergeGoesOn
  <1>5. CASE n < l
    <2>1. next = [state EXCEPT !.nonLocalItr = @ \ {n}]
      BY <1>1, <1>5 DEF MergeTurn, l, n
    <2>2. next = [locals |-> state.locals, nonLocals |-> state.nonLocals,
                  localItr |-> state.localItr, nonLocalItr |-> state.nonLocalItr \ {n}]
      BY <2>1 DEF MergeStates
    <2>3. n \notin L
      <3>1. n \notin state.localItr
        BY <1>1, <1>5
      <3>2. n \notin L \ state.localItr
        BY <1>1 DEF MergeGoesOn
      <3> QED
        BY <3>1, <3>2
    <2>4. MergedNonLocal(locals, nonLocals)[n] = nonLocals[n]
      BY <1>2, <2>3 DEF MergedNonLocal
    <2>5. next \in MergeStates
      BY <2>2 DEF MergeStates
    <2>6. next.nonLocals = [m \in Names |-> IF m \in next.nonLocalItr THEN nonLocals[m]
                                            ELSE IF m \in N THEN MergedNonLocal(locals, nonLocals)[m]
                                            ELSE NoApp]
      BY <1>2, <2>2, <2>4 DEF MergeGoesOn
    <2>7. \A k \in next.localItr, m \in N \ next.nonLocalItr : m < k
      <3>1. \A k \in state.localItr : k \in Int /\ n < k
        BY <1>1, <1>2, <1>5 DEF MergeGoesOn
      <3> QED
        BY <2>2, <3>1 DEF MergeGoesOn
    <2> QED
      BY <1>1, <2>2, <2>5, <2>6, <2>7 DEF MergeGoesOn
  <1>6. CASE n = l
    <2>1. next = [locals |-> Insert(Erase(state.locals, l), l, merged),
                  nonLocals |-> Erase(state.nonLocals, n),
                  localItr |-> state.localItr \ {l}, nonLocalItr |-> state.nonLocalItr \ {n}]
      BY <1>1, <1>6 DEF MergeTurn, l, n
    <2>2. merged = [locals[l] EXCEPT !.dirs = nonLocals[l].dirs] /\ merged \in AppDetails
      BY <1>3, <1>6 DEF AppDetails
    <2>3. l \notin NamesIn(Erase(state.locals, l))
      BY <1>2 DEF MergeStates, AppSet, Erase, NamesIn
    <2>4. next.locals = [Erase(state.locals, l) EXCEPT ![l] = merged]
      BY <2>1, <2>3 DEF Insert
    <2>5. MergedLocal(locals, nonLocals)[l] = merged /\ MergedNonLocal(locals, nonLocals)[n] = NoApp
      BY <1>2, <1>6, <2>2 DEF MergedLocal, MergedNonLocal
    <2>6. next \in MergeStates
      BY <1>2, <2>1, <2>2, EraseType, InsertType DEF MergeStates
    <2>7. next.locals = [m \in Names |-> IF m \in next.localItr THEN locals[m]
                                         ELSE IF m \in L THEN MergedLocal(locals, nonLocals)[m]
                                         ELSE NoApp]
      <3> HIDE DEF merged
      <3> QED
        BY <1>2, <2>1, <2>4, <2>5 DEF MergeGoesOn, Erase
    <2>8. next.nonLocals = [m \in Names |-> IF m \in next.nonLocalItr THEN nonLocals[m]
                                            ELSE IF m \in N THEN MergedNonLocal(locals, nonLocals)[m]
                                            ELSE NoApp]
      BY <1>2, <2>1, <2>5 DEF MergeGoesOn, Erase
    <2>9. \A k \in state.localItr \ {l} : k \in Int /\ l < k
      BY <1>1, <1>2 DEF MergeGoesOn
    <2>10. \A m \in state.nonLocalItr \ {n} : m \in Int /\ n < m
      BY <1>1, <1>2 DEF MergeGoesOn
    <2>11. /\ \A k \in L \ next.localItr, m \in next.nonLocalItr : k < m
           /\ \A k \in next.localItr, m \in N \ next.nonLocalItr : m < k
      BY <1>6, <2>1, <2>9, <2>10 DEF MergeGoesOn
    <2> QED
      BY <1>1, <2>1, <2>6, <2>7, <2>8, <2>11 DEF MergeGoesOn
  <1> QED
    BY <1>1, <1>4, <1>5, <1>6

(* The iterators have less and less in front of them. *)
LEMMA MergeTurnsCount ==
    ASSUME NEW locals \in AppSet, NEW nonLocals \in AppSet, NEW state \in MergeStates,
           IsFiniteSet(NamesIn(locals)), IsFiniteSet(NamesIn(nonLocals)),
           MergeGoesOn(state, locals, nonLocals), ~ MergeEnded(state)
    PROVE  LET left(s) == Cardinality(s.localItr) + Cardinality(s.nonLocalItr)
           IN  left(MergeTurn(state)) < left(state)
  <1> DEFINE next == MergeTurn(state)
  <1>1. IsFiniteSet(state.localItr) /\ IsFiniteSet(state.nonLocalItr)
    BY FS_Subset DEF MergeGoesOn
  <1>2. /\ next.localItr \subseteq state.localItr
        /\ next.nonLocalItr \subseteq state.nonLocalItr
        /\ next.localItr # state.localItr \/ next.nonLocalItr # state.nonLocalItr
    BY MergeTurns
  <1> HIDE DEF next
  <1>3. \A S, T : IsFiniteSet(S) /\ T \subseteq S =>
            /\ Cardinality(T) \in Nat /\ Cardinality(S) \in Nat
            /\ Cardinality(T) <= Cardinality(S)
            /\ T # S => Cardinality(T) < Cardinality(S)
    BY FS_Subset, FS_CardinalityType
  <1>4. /\ Cardinality(next.localItr) \in Nat /\ Cardinality(state.localItr) \in Nat
        /\ Cardinality(next.nonLocalItr) \in Nat /\ Cardinality(state.nonLocalItr) \in Nat
        /\ Cardinality(next.localItr) <= Cardinality(state.localItr)
        /\ Cardinality(next.nonLocalItr) <= Cardinality(state.nonLocalItr)
        /\ \/ Cardinality(next.localItr) < Cardinality(state.localItr)
           \/ Cardinality(next.nonLocalItr) < Cardinality(state.nonLocalItr)
    BY <1>1, <1>2, <1>3
  <1>5. Cardinality(next.localItr) + Cardinality(next.nonLocalItr)
            < Cardinality(state.localItr) + Cardinality(state.nonLocalItr)
    BY <1>4
  <1> QED
    BY <1>5 DEF next

(* The loop as the code has it comes to its end, and leaves what Initialise of
   AppHandler.tla takes it to leave: however many apps there are, and however their
   names lie among each other. *)
THEOREM MergeIsTheLoop ==
    ASSUME NEW locals \in AppSet, NEW nonLocals \in AppSet,
           IsFiniteSet(NamesIn(locals)), IsFiniteSet(NamesIn(nonLocals))
    PROVE  LET end == MergeLoop(locals, nonLocals)
           IN  /\ MergeEnded(end)
               /\ end.locals = MergedLocal(locals, nonLocals)
               /\ end.nonLocals = MergedNonLocal(locals, nonLocals)
  <1> DEFINE V == {s \in MergeStates : MergeGoesOn(s, locals, nonLocals)}
             first == MergeBegin(locals, nonLocals)
             turn(s) == IF MergeEnded(s) THEN s ELSE MergeTurn(s)
             step == [x \in Nat \X V |-> turn(x[2])]
             Solves(h) == h = [k \in Nat |-> IF k = 0 THEN first ELSE turn(h[k - 1])]
             after == CHOOSE h : Solves(h)
             total == Cardinality(NamesIn(locals)) + Cardinality(NamesIn(nonLocals))
             left(s) == Cardinality(s.localItr) + Cardinality(s.nonLocalItr)
  <1>1. first \in V
    BY MergeBegins
  <1>2. \A s \in V : turn(s) \in V
    BY MergeTurns
  <1>3. MergeLoop(locals, nonLocals) = after[total]
    BY DEF MergeLoop
  <1>4. \A s \in V : left(s) \in Nat /\ (left(s) = 0 => MergeEnded(s))
    <2>1. SUFFICES ASSUME NEW s \in V
                   PROVE  left(s) \in Nat /\ (left(s) = 0 => MergeEnded(s))
      OBVIOUS
    <2>2. IsFiniteSet(s.localItr) /\ IsFiniteSet(s.nonLocalItr)
      BY FS_Subset DEF MergeGoesOn
    <2>3. Cardinality(s.localItr) \in Nat /\ Cardinality(s.nonLocalItr) \in Nat
      BY <2>2, FS_CardinalityType
    <2>4. Cardinality(s.localItr) = 0 => s.localItr = {}
      BY <2>2, FS_EmptySet
    <2> QED
      BY <2>3, <2>4 DEF MergeEnded
  <1>5. \A s \in V : MergeEnded(s) \/ left(turn(s)) < left(s)
    BY MergeTurnsCount
  <1>6. left(first) = total
    BY DEF MergeBegin
  <1> HIDE DEF turn, first, left, total, V
  <1>7. Solves(after)
    <2>1. step \in [Nat \X V -> V]
      BY <1>2
    <2>2. \A k \in Nat : \A s \in V : step[<<k, s>>] = turn(s)
      OBVIOUS
    <2> HIDE DEF step
    <2>3. PICK h : Recurses(h, Nat, V, first, step)
      BY <1>1, <2>1, RecursionHasSolution
    <2>4. ASSUME NEW k \in Nat
          PROVE  h[k] = IF k = 0 THEN first ELSE turn(h[k - 1])
      <3>1. k # 0 => k - 1 \in Nat /\ h[k - 1] \in V
        BY <2>3 DEF Recurses
      <3> QED
        BY <2>2, <2>3, <3>1 DEF Recurses
    <2>5. Solves(h)
      BY <2>3, <2>4 DEF Recurses
    <2> QED
      BY <2>5
  <1> HIDE DEF after
  <1>8. \A k \in Nat : after[k] \in V /\ (MergeEnded(after[k]) \/ left(after[k]) + k <= total)
    <2> DEFINE P == {k \in Nat : after[k] \in V /\ (MergeEnded(after[k]) \/ left(after[k]) + k <= total)}
    <2>1. 0 \in P
      <3>1. after[0] = first
        BY <1>7
      <3>2. left(first) \in Nat
        BY <1>1, <1>4
      <3> QED
        BY <1>1, <1>6, <3>1, <3>2
    <2>2. ASSUME NEW k \in Nat, k \in P
          PROVE  k + 1 \in P
      <3>1. after[k + 1] = turn(after[k])
        <4>1. k + 1 \in Nat /\ k + 1 # 0 /\ (k + 1) - 1 = k
          OBVIOUS
        <4> QED
          BY <1>7, <4>1
      <3>2. after[k] \in V /\ after[k + 1] \in V
        BY <1>2, <2>2, <3>1
      <3>3. CASE MergeEnded(after[k])
        BY <3>1, <3>2, <3>3 DEF turn
      <3>4. CASE ~ MergeEnded(after[k])
        <4>1. left(after[k + 1]) < left(after[k]) /\ left(after[k]) + k <= total
          BY <1>5, <2>2, <3>1, <3>2, <3>4
        <4>2. left(after[k + 1]) \in Nat /\ left(after[k]) \in Nat /\ total \in Nat
          BY <1>1, <1>4, <1>6, <3>2
        <4>3. left(after[k + 1]) + (k + 1) <= total
          BY <4>1, <4>2
        <4> QED
          BY <3>2, <4>3
      <3> QED
        BY <3>3, <3>4
    <2>3. \A k \in Nat : k \in P
      <3> HIDE DEF P
      <3> QED
        BY <2>1, <2>2, SetInduction
    <2> QED
      BY <2>3
  <1>9. total \in Nat
    BY <1>1, <1>4, <1>6
  <1>10. after[total] \in V /\ MergeEnded(after[total])
    <2>1. left(after[total]) \in Nat
      BY <1>4, <1>8, <1>9
    <2>2. left(after[total]) + total <= total => left(after[total]) = 0
      BY <1>9, <2>1
    <2> QED
      BY <1>4, <1>8, <1>9, <2>2
  <1> QED
    BY <1>3, <1>10, MergeEnds DEF V

-----------------------------------------------------------------------------
(* Types of what the AppHandler functions leave. *)

LEMMA NewAppType ==
    ASSUME NEW settings \in Settings, NEW icon \in Icons
    PROVE  /\ [settings |-> settings, dirs |-> {"appDir"}, icon |-> icon] \in AppDetails
           /\ AppAddedElsewhere(icon) \in AppDetails
  BY DEF AppDetails, Dirs, AppAddedElsewhere

LEMMA UpdatedType ==
    ASSUME NEW app \in AppDetails
    PROVE  /\ \A settings \in Settings : WithSettings(app, settings) \in AppDetails
           /\ \A icon \in Icons : WithIcon(app, icon) \in AppDetails
           /\ \A granted \in BOOLEAN : WithSafeDrive(app, granted) \in AppDetails
  BY DEF AppDetails, Dirs, WithSettings, WithIcon, WithSafeDrive

LEMMA FoundType ==
    ASSUME HandlerTypeOK, NEW n \in NamesIn(localApps) \cup NamesIn(nonLocalApps)
    PROVE  Found(n) \in AppDetails
  BY InSetHasDetails DEF Found, HandlerTypeOK

LEMMA CurrentSnapshotType ==
    ASSUME HandlerTypeOK
    PROVE  CurrentSnapshot \in Snapshots
  BY DEF CurrentSnapshot, Snapshots, HandlerTypeOK

LEMMA WriteType ==
    ASSUME HandlerTypeOK, NEW locals \in AppSet, NEW outcome \in Outcomes,
           WriteConfigFile(locals, outcome)
    PROVE  configFile' \in ConfigFile
  BY ConfigOfType, NoFileType DEF WriteConfigFile, HandlerTypeOK

LEMMA InitialiseType ==
    ASSUME HandlerTypeOK, NEW accountApps \in AppSet, Initialise(accountApps)
    PROVE  HandlerTypeOK'
  <1>1. ParseConfig(configFile) \in AppSet
    BY ParseConfigType DEF HandlerTypeOK
  <1> QED
    BY <1>1, MergedType DEF Initialise, HandlerTypeOK

LEMMA ApplySnapshotType ==
    ASSUME HandlerTypeOK, NEW snapshot \in Snapshots, NEW outcome \in Outcomes,
           ApplySnapshot(snapshot, outcome)
    PROVE  HandlerTypeOK'
  BY SetUnionType DEF ApplySnapshot, Snapshots, HandlerTypeOK

LEMMA AddType ==
    ASSUME HandlerTypeOK, NEW n \in Names, NEW settings \in Settings, NEW icon \in Icons,
           NEW outcome \in Outcomes, Add(n, settings, icon, outcome)
    PROVE  HandlerTypeOK'
  <1> DEFINE app == [settings |-> settings, dirs |-> {"appDir"}, icon |-> icon]
  <1>1. CASE UNCHANGED handlerVars
    BY <1>1 DEF handlerVars, HandlerTypeOK
  <1>2. CASE /\ apps' = Insert(apps, n, app)
             /\ localApps' = Insert(localApps, n, app)
             /\ UNCHANGED nonLocalApps
             /\ WriteConfigFile(Insert(localApps, n, app), outcome)
    <2>1. Insert(apps, n, app) \in AppSet /\ Insert(localApps, n, app) \in AppSet
      BY NewAppType, InsertType DEF HandlerTypeOK
    <2>2. configFile' \in ConfigFile
      BY <1>2, <2>1, WriteType
    <2> QED
      BY <1>2, <2>1, <2>2 DEF HandlerTypeOK
  <1> QED
    BY <1>1, <1>2 DEF Add

LEMMA ReplaceType ==
    ASSUME NEW set \in AppSet, NEW n \in Names, NEW m \in Names, NEW app \in AppDetails
    PROVE  Replace(set, n, m, app) \in AppSet
  BY EraseType, InsertType DEF Replace

LEMMA UpdateType ==
    ASSUME HandlerTypeOK, NEW n \in Names, NEW m \in Names, NEW updated,
           n \in NamesIn(localApps) \cup NamesIn(nonLocalApps) => updated \in AppDetails,
           NEW outcome \in Outcomes, Update(n, m, updated, outcome)
    PROVE  HandlerTypeOK'
  <1>1. CASE UNCHANGED handlerVars
    BY <1>1 DEF handlerVars, HandlerTypeOK
  <1>2. CASE n \in NamesIn(localApps) \cup NamesIn(nonLocalApps)
    <2>1. /\ Replace(localApps, n, m, updated) \in AppSet
          /\ Replace(nonLocalApps, n, m, updated) \in AppSet
          /\ Replace(apps, n, m, updated) \in AppSet
      BY <1>2, ReplaceType DEF HandlerTypeOK
    <2>2. localApps' \in AppSet /\ nonLocalApps' \in AppSet
      BY <1>2, <2>1 DEF Update, HandlerTypeOK
    <2>3. CASE UNCHANGED <<apps, configFile>>
      BY <2>2, <2>3 DEF HandlerTypeOK
    <2>4. CASE /\ apps' = Replace(apps, n, m, updated)
               /\ WriteConfigFile(IF n \in NamesIn(localApps)
                                  THEN Replace(localApps, n, m, updated)
                                  ELSE localApps, outcome)
      <3>1. configFile' \in ConfigFile
        BY <2>1, <2>4, WriteType DEF HandlerTypeOK
      <3> QED
        BY <2>1, <2>2, <2>4, <3>1 DEF HandlerTypeOK
    <2> QED
      BY <1>2, <2>3, <2>4 DEF Update
  <1> QED
    BY <1>1, <1>2 DEF Update

LEMMA RemoveLocallyType ==
    ASSUME HandlerTypeOK, NEW n \in Names, NEW outcome \in Outcomes, RemoveLocally(n, outcome)
    PROVE  HandlerTypeOK'
  <1>1. CASE UNCHANGED handlerVars
    BY <1>1 DEF handlerVars, HandlerTypeOK
  <1>2. CASE /\ localApps' = Erase(localApps, n)
             /\ UNCHANGED <<apps, nonLocalApps>>
             /\ WriteConfigFile(Erase(localApps, n), outcome)
    <2>1. Erase(localApps, n) \in AppSet
      BY EraseType DEF HandlerTypeOK
    <2>2. configFile' \in ConfigFile
      BY <1>2, <2>1, WriteType
    <2> QED
      BY <1>2, <2>1, <2>2 DEF HandlerTypeOK
  <1> QED
    BY <1>1, <1>2 DEF RemoveLocally

LEMMA RemoveFromNetworkType ==
    ASSUME HandlerTypeOK, NEW n \in Names, NEW outcome \in Outcomes,
           RemoveFromNetwork(n, outcome)
    PROVE  HandlerTypeOK'
  <1>1. CASE UNCHANGED handlerVars
    BY <1>1 DEF handlerVars, HandlerTypeOK
  <1>2. CASE /\ nonLocalApps' = Erase(nonLocalApps, n)
             /\ UNCHANGED localApps
             /\ \/ UNCHANGED <<apps, configFile>>
                \/ apps' = Erase(apps, n) /\ WriteConfigFile(localApps, outcome)
    <2>1. Erase(nonLocalApps, n) \in AppSet /\ Erase(apps, n) \in AppSet
      BY EraseType DEF HandlerTypeOK
    <2>2. configFile' \in ConfigFile
      BY <1>2, WriteType DEF HandlerTypeOK
    <2> QED
      BY <1>2, <2>1, <2>2 DEF HandlerTypeOK
  <1> QED
    BY <1>1, <1>2 DEF RemoveFromNetwork

-----------------------------------------------------------------------------
(* Types of the Launcher's own variables. *)

InCall == {"apply", "undo", "mark", "record"}

LEMMA ReturnType ==
    ASSUME TypeOK, NEW t \in Threads, Return(t)
    PROVE  /\ pc' \in [Threads -> PCs]
           /\ snap' \in [Threads -> SnapshotOrNone]
           /\ \A u \in Threads : pc'[u] \in InCall => snap'[u] # NoSnapshot
  BY DEF TypeOK, Return, GoTo, PCs, InCall, SnapshotOrNone

LEMMA GoToType ==
    ASSUME TypeOK, NEW t \in Threads, NEW label \in PCs, GoTo(t, label), UNCHANGED snap,
           label \in InCall => snap[t] # NoSnapshot
    PROVE  /\ pc' \in [Threads -> PCs]
           /\ snap' \in [Threads -> SnapshotOrNone]
           /\ \A u \in Threads : pc'[u] \in InCall => snap'[u] # NoSnapshot
  BY DEF TypeOK, GoTo, PCs, InCall

LEMMA SnapInCall ==
    ASSUME TypeOK, NEW t \in Threads, pc[t] \in InCall
    PROVE  snap[t] \in Snapshots
  BY DEF TypeOK, InCall, SnapshotOrNone

LEMMA UnsavedType ==
    ASSUME TypeOK, NEW t \in Threads, pc[t] = "apply", NEW outcome \in Outcomes,
           Unsaved(t, outcome), HandlerTypeOK', UNCHANGED <<sessionVars, rollback>>
    PROVE  TypeOK'
  <1>1. snap[t] # NoSnapshot
    BY DEF TypeOK
  <1>2. CASE outcome = "ok"
    BY <1>1, <1>2, GoToType DEF Unsaved, PCs, InCall, TypeOK, sessionVars
  <1>3. CASE outcome = "threw"
    BY <1>1, <1>3, GoToType DEF Unsaved, PCs, InCall, TypeOK, sessionVars
  <1> QED
    BY <1>2, <1>3 DEF Outcomes

LEMMA LocalOnlyType ==
    ASSUME TypeOK, NEW t \in Threads, pc[t] = "apply", NEW outcome \in Outcomes,
           LocalOnly(t, outcome), HandlerTypeOK', UNCHANGED <<sessionVars, rollback>>
    PROVE  TypeOK'
  <1>1. snap[t] # NoSnapshot
    BY DEF TypeOK
  <1>2. CASE Return(t)
    BY <1>2, ReturnType DEF TypeOK, InCall, sessionVars
  <1>3. CASE GoTo(t, "undo") /\ UNCHANGED snap
    BY <1>1, <1>3, GoToType DEF PCs, InCall, TypeOK, sessionVars
  <1> QED
    BY <1>2, <1>3 DEF LocalOnly

LEMMA DestroyedType ==
    ASSUME TypeOK, Destroyed, configFile' \in ConfigFile, saved' \in AppSet
    PROVE  TypeOK'
  BY EmptySetType DEF Destroyed, TypeOK, HandlerTypeOK, PCs, SnapshotOrNone

LEMMA InitType == Init => TypeOK
  <1> SUFFICES ASSUME Init PROVE TypeOK
    OBVIOUS
  <1>1. PICK there \in SUBSET Names, icon \in Icons :
            saved = [n \in Names |-> IF n \in there THEN AppAddedElsewhere(icon) ELSE NoApp]
    BY DEF Init
  <1>2. AppAddedElsewhere(icon) \in AppDetails
    BY DEF AppAddedElsewhere, AppDetails, Dirs
  <1>3. saved \in AppSet
    BY <1>1, <1>2 DEF AppSet
  <1> QED
    BY <1>3, EmptySetType, NoFileType DEF Init, TypeOK, HandlerTypeOK, PCs, SnapshotOrNone

LEMMA OutsideType == TypeOK /\ Outside => TypeOK'
  <1> SUFFICES ASSUME TypeOK, Outside PROVE TypeOK'
    OBVIOUS
  <1>1. CASE Login
    <2>1. HandlerTypeOK'
      BY <1>1, InitialiseType DEF Login, TypeOK
    <2> QED
      BY <1>1, <2>1 DEF Login, TypeOK, callVars
  <1>2. CASE LoginThrows
    BY <1>2 DEF LoginThrows, vars, TypeOK, HandlerTypeOK
  <1>3. CASE Crash
    <2>1. configFile' \in ConfigFile /\ saved' \in AppSet
      BY <1>3, NoFileType DEF Crash, TypeOK, HandlerTypeOK
    <2> QED
      BY <1>3, <2>1, DestroyedType DEF Crash
  <1>4. CASE SavedElsewhere
    <2>1. PICK n \in Names : \/ \E icon \in Icons : saved' = Insert(saved, n, AppAddedElsewhere(icon))
                             \/ saved' = Erase(saved, n)
      BY <1>4 DEF SavedElsewhere
    <2>2. \A icon \in Icons : AppAddedElsewhere(icon) \in AppDetails
      BY DEF AppAddedElsewhere, AppDetails, Dirs
    <2>3. saved' \in AppSet
      BY <2>1, <2>2, InsertType, EraseType DEF TypeOK
    <2> QED
      BY <1>4, <2>3 DEF SavedElsewhere, TypeOK, HandlerTypeOK, handlerVars, callVars
  <1>5. CASE LogoutAndStop
    <2>1. saved' \in AppSet /\ configFile' \in ConfigFile
      BY <1>5, PersistedType DEF LogoutAndStop, TypeOK, HandlerTypeOK
    <2> QED
      BY <1>5, <2>1, DestroyedType DEF LogoutAndStop
  <1> QED
    BY <1>1, <1>2, <1>3, <1>4, <1>5 DEF Outside

LEMMA ApplyType ==
    ASSUME TypeOK, NEW t \in Threads, Apply(t)
    PROVE  TypeOK'
  <1>0. HandlerTypeOK
    BY DEF TypeOK
  <1>1. CASE AddApp(t)
    <2>1. PICK n \in Names, settings \in Settings, icon \in Icons, outcome \in Outcomes :
              Add(n, settings, icon, outcome) /\ Unsaved(t, outcome)
      BY <1>1 DEF AddApp
    <2>2. HandlerTypeOK'
      BY <1>0, <2>1, AddType
    <2> QED
      BY <1>1, <2>1, <2>2, UnsavedType DEF AddApp, Calls
  <1>2. CASE LinkApp(t)
    <2>1. PICK n \in Names, outcome \in Outcomes : Link(n, outcome) /\ Unsaved(t, outcome)
      BY <1>2 DEF LinkApp
    <2>2. HandlerTypeOK'
      BY <1>0, <2>1 DEF Link, handlerVars, HandlerTypeOK
    <2> QED
      BY <1>2, <2>1, <2>2, UnsavedType DEF LinkApp, Calls
  <1>3. CASE LinkAppIsUndefined(t)
    <2>1. HandlerTypeOK'
      BY <1>0, <1>3 DEF LinkAppIsUndefined, handlerVars, HandlerTypeOK
    <2> QED
      BY <1>3, <2>1, GoToType DEF LinkAppIsUndefined, Calls, TypeOK, PCs, InCall, sessionVars
  <1>4. CASE UpdateAppName(t)
    <2>1. PICK n \in Names, m \in Names, outcome \in Outcomes :
              Update(n, m, Found(n), outcome) /\ Unsaved(t, outcome)
      BY <1>4 DEF UpdateAppName
    <2>2. HandlerTypeOK'
      BY <1>0, <2>1, FoundType, UpdateType
    <2> QED
      BY <1>4, <2>1, <2>2, UnsavedType DEF UpdateAppName, Calls
  <1>5. CASE UpdateAppSettings(t)
    <2>1. PICK n \in Names, settings \in Settings, outcome \in Outcomes :
              /\ Update(n, n, WithSettings(Found(n), settings), outcome)
              /\ LocalOnly(t, outcome)
      BY <1>5 DEF UpdateAppSettings
    <2>2. HandlerTypeOK'
      BY <1>0, <2>1, FoundType, UpdatedType, UpdateType
    <2> QED
      BY <1>5, <2>1, <2>2, LocalOnlyType DEF UpdateAppSettings, Calls
  <1>6. CASE UpdateAppSafeDriveAccess(t)
    <2>1. PICK n \in Names, granted \in BOOLEAN, outcome \in Outcomes :
              /\ Update(n, n, WithSafeDrive(Found(n), granted), outcome)
              /\ Unsaved(t, outcome)
      BY <1>6 DEF UpdateAppSafeDriveAccess
    <2>2. HandlerTypeOK'
      BY <1>0, <2>1, FoundType, UpdatedType, UpdateType
    <2> QED
      BY <1>6, <2>1, <2>2, UnsavedType DEF UpdateAppSafeDriveAccess, Calls
  <1>7. CASE UpdateAppIcon(t)
    <2>1. PICK n \in Names, icon \in Icons, outcome \in Outcomes :
              Update(n, n, WithIcon(Found(n), icon), outcome) /\ Unsaved(t, outcome)
      BY <1>7 DEF UpdateAppIcon
    <2>2. HandlerTypeOK'
      BY <1>0, <2>1, FoundType, UpdatedType, UpdateType
    <2> QED
      BY <1>7, <2>1, <2>2, UnsavedType DEF UpdateAppIcon, Calls
  <1>8. CASE RemoveAppLocally(t)
    <2>1. PICK n \in Names, outcome \in Outcomes :
              RemoveLocally(n, outcome) /\ LocalOnly(t, outcome)
      BY <1>8 DEF RemoveAppLocally
    <2>2. HandlerTypeOK'
      BY <1>0, <2>1, RemoveLocallyType
    <2> QED
      BY <1>8, <2>1, <2>2, LocalOnlyType DEF RemoveAppLocally
  <1>9. CASE RemoveAppFromNetwork(t)
    <2>1. PICK n \in Names, outcome \in Outcomes :
              RemoveFromNetwork(n, outcome) /\ Unsaved(t, outcome)
      BY <1>9 DEF RemoveAppFromNetwork
    <2>2. HandlerTypeOK'
      BY <1>0, <2>1, RemoveFromNetworkType
    <2> QED
      BY <1>9, <2>1, <2>2, UnsavedType DEF RemoveAppFromNetwork, Calls
  <1> QED
    BY <1>1, <1>2, <1>3, <1>4, <1>5, <1>6, <1>7, <1>8, <1>9 DEF Apply

LEMMA StepType ==
    ASSUME TypeOK, NEW t \in Threads, Start(t) \/ Continue(t) \/ RevertThrows(t)
    PROVE  TypeOK'
  <1>1. CASE Begin(t)
    <2>1. CurrentSnapshot \in Snapshots
      BY CurrentSnapshotType DEF TypeOK
    <2> QED
      BY <1>1, <2>1, NoSnapshotIsNone
      DEF Begin, GoTo, TypeOK, HandlerTypeOK, PCs, SnapshotOrNone, sessionVars, handlerVars
  <1>2. CASE SaveSession(t)
    BY <1>2, GoToType
    DEF SaveSession, TypeOK, HandlerTypeOK, PCs, InCall, sessionVars, handlerVars
  <1>3. CASE RevertToLastSavedSession(t)
    BY <1>3, GoToType
    DEF RevertToLastSavedSession, TypeOK, HandlerTypeOK, PCs, InCall, sessionVars, handlerVars
  <1>4. CASE Apply(t)
    BY <1>4, ApplyType
  <1>5. CASE Mark(t)
    <2>1. snap[t] # NoSnapshot
      BY <1>5 DEF Mark, TypeOK
    <2>2. CASE GoTo(t, "record") /\ UNCHANGED snap
      BY <1>5, <2>1, <2>2, GoToType
      DEF Mark, TypeOK, HandlerTypeOK, PCs, InCall, sessionVars, handlerVars
    <2>3. CASE Return(t)
      BY <1>5, <2>3, ReturnType
      DEF Mark, TypeOK, HandlerTypeOK, InCall, sessionVars, handlerVars
    <2> QED
      BY <1>5, <2>2, <2>3 DEF Mark
  <1>6. CASE Record(t)
    BY <1>6, ReturnType
    DEF Record, TypeOK, HandlerTypeOK, InCall, sessionVars, handlerVars
  <1>7. CASE Undo(t)
    <2>1. snap[t] \in Snapshots
      BY <1>7, SnapInCall DEF Undo, InCall
    <2>2. HandlerTypeOK'
      BY <1>7, <2>1, ApplySnapshotType DEF Undo, TypeOK
    <2> QED
      BY <1>7, <2>2, ReturnType DEF Undo, TypeOK, InCall, sessionVars
  <1>8. CASE SaveSucceeds(t)
    <2>1. Persisted(apps) \in AppSet
      BY PersistedType DEF TypeOK, HandlerTypeOK
    <2> QED
      BY <1>8, <2>1, ReturnType
      DEF SaveSucceeds, TypeOK, HandlerTypeOK, InCall, handlerVars, SnapshotOrNone
  <1>9. CASE SaveThrows(t)
    BY <1>9, ReturnType
    DEF SaveThrows, TypeOK, HandlerTypeOK, InCall, sessionVars, handlerVars
  <1>10. CASE RevertThrows(t)
    BY <1>10, ReturnType
    DEF RevertThrows, TypeOK, HandlerTypeOK, InCall, sessionVars, handlerVars
  <1> QED
    BY <1>1, <1>2, <1>3, <1>4, <1>5, <1>6, <1>7, <1>8, <1>9, <1>10 DEF Start, Continue

(* Every variable keeps its type, and a thread inside a call that changes apps
   always has the snapshot its scope guard needs. *)
THEOREM TypeCorrect == Spec => []TypeOK
  <1>1. Init => TypeOK
    BY InitType
  <1>2. TypeOK /\ [Next]_vars => TypeOK'
    <2> SUFFICES ASSUME TypeOK, [Next]_vars PROVE TypeOK'
      OBVIOUS
    <2>1. CASE Outside
      BY <2>1, OutsideType
    <2>2. CASE \E t \in Threads : Start(t) \/ Continue(t) \/ RevertThrows(t)
      BY <2>2, StepType
    <2>3. CASE UNCHANGED vars
      BY <2>3 DEF vars, TypeOK, HandlerTypeOK
    <2> QED
      BY <2>1, <2>2, <2>3 DEF Next
  <1> QED
    BY <1>1, <1>2, PTL DEF Spec

-----------------------------------------------------------------------------
(* Insert, Replace and SetUnion name by name. *)

LEMMA InsertValue ==
    ASSUME NEW set \in AppSet, NEW n \in Names, NEW app \in AppDetails, n \notin NamesIn(set)
    PROVE  Insert(set, n, app) = [k \in Names |-> IF k = n THEN app ELSE set[k]]
  BY DEF Insert, AppSet

LEMMA ReplaceValue ==
    ASSUME NEW set \in AppSet, NEW n \in Names, NEW m \in Names, NEW app \in AppDetails,
           n = m \/ m \notin NamesIn(set)
    PROVE  Replace(set, n, m, app) =
               [k \in Names |-> IF k = m THEN app ELSE IF k = n THEN NoApp ELSE set[k]]
  <1>1. Erase(set, n) \in AppSet /\ m \notin NamesIn(Erase(set, n))
    BY EraseType, NamesOfErase
  <1>2. Insert(Erase(set, n), m, app) =
            [k \in Names |-> IF k = m THEN app ELSE Erase(set, n)[k]]
    BY <1>1, InsertValue
  <1> QED
    BY <1>2 DEF Replace, Erase, AppSet

(* Coherent, name by name. *)
LEMMA CoherentValue ==
    ASSUME HandlerTypeOK
    PROVE  Coherent <=> /\ Disjoint(localApps, nonLocalApps)
                        /\ \A n \in Names : apps[n] = SetUnion(localApps, nonLocalApps)[n]
  <1>1. SetUnion(localApps, nonLocalApps) \in AppSet
    BY SetUnionType DEF HandlerTypeOK
  <1>2. (\A n \in Names : apps[n] = SetUnion(localApps, nonLocalApps)[n])
            => apps = SetUnion(localApps, nonLocalApps)
    BY <1>1 DEF AppSet, HandlerTypeOK
  <1> QED
    BY <1>2 DEF Coherent

-----------------------------------------------------------------------------
(* Each AppHandler function, seen as a step on account and sets. *)

Steady == /\ ShownOnce => ShownOnce'
          /\ ShownOnce /\ InStep => InStep'

SteadyAndCoherent == Steady /\ (ShownOnce /\ Coherent => Coherent')

LEMMA UnchangedIsSteady ==
    ASSUME UNCHANGED <<apps, localApps, nonLocalApps>>
    PROVE  SteadyAndCoherent
  BY DEF SteadyAndCoherent, Steady, ShownOnce, InStep, Coherent, Disjoint

LEMMA AddIsSteady ==
    ASSUME HandlerTypeOK, NEW n \in Names, NEW settings \in Settings, NEW icon \in Icons,
           NEW outcome \in Outcomes, Add(n, settings, icon, outcome)
    PROVE  SteadyAndCoherent
  <1> DEFINE app == [settings |-> settings, dirs |-> {"appDir"}, icon |-> icon]
  <1>1. CASE UNCHANGED handlerVars
    BY <1>1, UnchangedIsSteady DEF handlerVars
  <1>2. CASE /\ n \notin NamesIn(apps)
             /\ apps' = Insert(apps, n, app)
             /\ localApps' = Insert(localApps, n, app)
             /\ UNCHANGED nonLocalApps
    <2>1. app \in AppDetails
      BY NewAppType
    <2>2. NamesIn(apps') = NamesIn(apps) \cup {n} /\ NamesIn(localApps') = NamesIn(localApps) \cup {n}
      BY <1>2, <2>1, NamesOfInsert DEF HandlerTypeOK
    <2>3. ShownOnce => ShownOnce'
      BY <1>2, <2>2 DEF ShownOnce, Disjoint
    <2>4. apps' = [k \in Names |-> IF k = n THEN app ELSE apps[k]]
      <3> HIDE DEF app
      <3>1. Insert(apps, n, app) = [k \in Names |-> IF k = n THEN app ELSE apps[k]]
        BY <1>2, <2>1, InsertValue DEF HandlerTypeOK
      <3> QED
        BY <1>2, <3>1
    <2>5. ASSUME ShownOnce, InStep PROVE InStep'
      <3>1. n \notin NamesIn(localApps)
        BY <1>2, <2>5, NamesOfUnion DEF InStep, NamesIn, SetUnion
      <3>2. localApps' = [k \in Names |-> IF k = n THEN app ELSE localApps[k]]
        <4> HIDE DEF app
        <4>1. Insert(localApps, n, app) = [k \in Names |-> IF k = n THEN app ELSE localApps[k]]
          BY <2>1, <3>1, InsertValue DEF HandlerTypeOK
        <4> QED
          BY <1>2, <4>1
      <3> QED
        BY <1>2, <2>1, <2>2, <2>4, <2>5, <3>2 DEF InStep, SetUnion, NamesIn
    <2>6. ASSUME Coherent PROVE Coherent'
      <3>1. n \notin NamesIn(localApps) /\ n \notin NamesIn(nonLocalApps)
        BY <1>2, <2>6, NamesOfUnion DEF Coherent, HandlerTypeOK
      <3>2. localApps' = [k \in Names |-> IF k = n THEN app ELSE localApps[k]]
        <4> HIDE DEF app
        <4>1. Insert(localApps, n, app) = [k \in Names |-> IF k = n THEN app ELSE localApps[k]]
          BY <2>1, <3>1, InsertValue DEF HandlerTypeOK
        <4> QED
          BY <1>2, <4>1
      <3>3. \A k \in Names : apps'[k] = SetUnion(localApps', nonLocalApps')[k]
        BY <1>2, <2>1, <2>4, <2>6, <3>2, NoAppIsNoDetails, CoherentValue DEF SetUnion, NamesIn
      <3>4. Disjoint(localApps', nonLocalApps')
        BY <1>2, <2>2, <2>6, <3>1 DEF Coherent, Disjoint
      <3>5. HandlerTypeOK'
        BY AddType
      <3> QED
        BY <3>3, <3>4, <3>5, SetUnionType DEF Coherent, AppSet, HandlerTypeOK
    <2> QED
      BY <2>3, <2>5, <2>6 DEF SteadyAndCoherent, Steady
  <1> QED
    BY <1>1, <1>2 DEF Add

(* Where the new name is the old one or not in use, an update moves one app. *)
LEMMA UpdateIsSteady ==
    ASSUME HandlerTypeOK, NEW n \in Names, NEW m \in Names, NEW updated,
           n = m \/ ~InUse(m),
           n \in NamesIn(localApps) \cup NamesIn(nonLocalApps) => updated \in AppDetails,
           NEW outcome \in Outcomes, Update(n, m, updated, outcome)
    PROVE  SteadyAndCoherent
  <1> DEFINE Moved(set) == [k \in Names |-> IF k = m THEN updated
                                            ELSE IF k = n THEN NoApp ELSE set[k]]
  <1>1. CASE UNCHANGED handlerVars
    BY <1>1, UnchangedIsSteady DEF handlerVars
  <1>2. CASE n \in NamesIn(localApps) \cup NamesIn(nonLocalApps) /\ ~UNCHANGED handlerVars
    <2>1. updated \in AppDetails /\ updated # NoApp
      BY <1>2, NoAppIsNoDetails
    <2>2. /\ Replace(localApps, n, m, updated) = Moved(localApps)
          /\ Replace(nonLocalApps, n, m, updated) = Moved(nonLocalApps)
          /\ Replace(apps, n, m, updated) = Moved(apps)
      BY <2>1, ReplaceValue DEF HandlerTypeOK, InUse
    <2>3. \/ /\ n \in NamesIn(localApps)
             /\ localApps' = Moved(localApps)
             /\ nonLocalApps' = nonLocalApps
          \/ /\ n \notin NamesIn(localApps)
             /\ n \in NamesIn(nonLocalApps)
             /\ localApps' = localApps
             /\ nonLocalApps' = Moved(nonLocalApps)
      BY <1>2, <2>2 DEF Update, handlerVars
    <2>4. \/ n \notin NamesIn(apps) /\ apps' = apps
          \/ n \in NamesIn(apps) /\ apps' = Moved(apps)
      BY <1>2, <2>2 DEF Update, handlerVars
    <2>5. n = m \/ (/\ m \notin NamesIn(apps)
                    /\ m \notin NamesIn(localApps)
                    /\ m \notin NamesIn(nonLocalApps))
      BY DEF InUse
    <2>6. ShownOnce => ShownOnce'
      <3>1. SUFFICES ASSUME ShownOnce PROVE ShownOnce'
        OBVIOUS
      <3>2. CASE n \in NamesIn(localApps)
        <4>1. localApps' = Moved(localApps) /\ nonLocalApps' = nonLocalApps
          BY <2>3, <3>2
        <4>2. n \notin NamesIn(nonLocalApps) /\ m \notin NamesIn(nonLocalApps)
          BY <2>5, <3>1, <3>2 DEF ShownOnce, Disjoint
        <4>3. Disjoint(localApps', nonLocalApps')
          BY <4>1, <4>2, <3>1 DEF ShownOnce, Disjoint, NamesIn
        <4>4. NamesIn(nonLocalApps') \subseteq NamesIn(apps')
          BY <2>4, <4>1, <4>2, <3>1 DEF ShownOnce, NamesIn
        <4> QED
          BY <4>3, <4>4 DEF ShownOnce
      <3>3. CASE n \notin NamesIn(localApps)
        <4>1. localApps' = localApps /\ nonLocalApps' = Moved(nonLocalApps)
          BY <2>3, <3>3
        <4>2. n \in NamesIn(apps) /\ apps' = Moved(apps)
          BY <2>3, <2>4, <3>1, <3>3 DEF ShownOnce
        <4>3. m \notin NamesIn(localApps)
          BY <2>5, <3>3
        <4>4. Disjoint(localApps', nonLocalApps')
          BY <4>1, <4>3, <3>1 DEF ShownOnce, Disjoint, NamesIn
        <4>5. NamesIn(nonLocalApps') \subseteq NamesIn(apps')
          BY <2>1, <4>1, <4>2, <3>1 DEF ShownOnce, NamesIn
        <4> QED
          BY <4>4, <4>5 DEF ShownOnce
      <3> QED
        BY <3>2, <3>3
    <2>7. ASSUME InStep
          PROVE  /\ apps' = Moved(apps)
                 /\ \A k \in Names : SetUnion(localApps', nonLocalApps')[k] =
                        IF k = m THEN updated
                        ELSE IF k # n THEN SetUnion(localApps, nonLocalApps)[k]
                        ELSE IF n \in NamesIn(localApps) THEN nonLocalApps[n] ELSE NoApp
      <3>1. n \in NamesIn(apps)
        BY <2>3, <2>7 DEF InStep, SetUnion, NamesIn
      <3>2. CASE n \in NamesIn(localApps)
        BY <2>1, <2>3, <2>4, <3>1, <3>2 DEF SetUnion, NamesIn
      <3>3. CASE n \notin NamesIn(localApps)
        <4>1. localApps' = localApps /\ nonLocalApps' = Moved(nonLocalApps)
          BY <2>3, <3>3
        <4>2. m \notin NamesIn(localApps)
          BY <2>5, <3>3
        <4> QED
          BY <2>1, <2>4, <3>1, <3>3, <4>1, <4>2 DEF SetUnion, NamesIn
      <3> QED
        BY <3>2, <3>3
    <2>8. ASSUME ShownOnce PROVE n \in NamesIn(localApps) => nonLocalApps[n] = NoApp
      BY <2>8 DEF ShownOnce, Disjoint, NamesIn
    <2>9. ASSUME ShownOnce, InStep PROVE InStep'
      <3> SUFFICES ASSUME NEW k \in Names,
                          k \in NamesIn(localApps') \cup NamesIn(nonLocalApps')
                   PROVE  apps'[k] = SetUnion(localApps', nonLocalApps')[k]
        BY DEF InStep, NamesIn
      <3>1. CASE k = m
        BY <2>7, <2>9, <3>1
      <3>2. CASE k # m /\ k = n
        BY <2>7, <2>8, <2>9, <3>2
      <3>3. CASE k # m /\ k # n
        <4>1. k \in NamesIn(localApps) \cup NamesIn(nonLocalApps)
          BY <2>3, <3>3 DEF NamesIn
        <4> QED
          BY <2>7, <2>9, <3>3, <4>1 DEF InStep
      <3> QED
        BY <3>1, <3>2, <3>3
    <2>10. ASSUME ShownOnce, Coherent PROVE Coherent'
      <3>1. InStep
        BY <2>10 DEF Coherent, InStep
      <3>2. \A k \in Names : apps'[k] = SetUnion(localApps', nonLocalApps')[k]
        BY <2>7, <2>8, <2>10, <3>1 DEF Coherent
      <3>3. Disjoint(localApps', nonLocalApps')
        BY <2>6, <2>10 DEF ShownOnce
      <3>4. HandlerTypeOK'
        BY UpdateType
      <3> QED
        BY <3>2, <3>3, <3>4, SetUnionType DEF Coherent, AppSet, HandlerTypeOK
    <2> QED
      BY <2>6, <2>9, <2>10 DEF SteadyAndCoherent, Steady
  <1> QED
    BY <1>1, <1>2 DEF Update

LEMMA RemoveLocallyIsSteady ==
    ASSUME HandlerTypeOK, NEW n \in Names, NEW outcome \in Outcomes, RemoveLocally(n, outcome)
    PROVE  Steady
  <1>1. CASE UNCHANGED handlerVars
    BY <1>1, UnchangedIsSteady DEF handlerVars, SteadyAndCoherent
  <1>2. CASE /\ n \in NamesIn(localApps)
             /\ localApps' = Erase(localApps, n)
             /\ UNCHANGED <<apps, nonLocalApps>>
    <2>1. localApps' = [k \in Names |-> IF k = n THEN NoApp ELSE localApps[k]]
      BY <1>2 DEF Erase, HandlerTypeOK, AppSet
    <2>2. ShownOnce => ShownOnce'
      BY <1>2, <2>1 DEF ShownOnce, Disjoint, NamesIn
    <2>3. ASSUME ShownOnce, InStep PROVE InStep'
      <3>1. n \notin NamesIn(nonLocalApps)
        BY <1>2, <2>3 DEF ShownOnce, Disjoint
      <3> QED
        BY <1>2, <2>1, <2>3, <3>1 DEF InStep, SetUnion, NamesIn
    <2> QED
      BY <2>2, <2>3 DEF Steady
  <1> QED
    BY <1>1, <1>2 DEF RemoveLocally

LEMMA RemoveFromNetworkIsSteady ==
    ASSUME HandlerTypeOK, NEW n \in Names, NEW outcome \in Outcomes,
           RemoveFromNetwork(n, outcome)
    PROVE  SteadyAndCoherent
  <1>1. CASE UNCHANGED handlerVars
    BY <1>1, UnchangedIsSteady DEF handlerVars
  <1>2. CASE /\ n \in NamesIn(nonLocalApps)
             /\ nonLocalApps' = Erase(nonLocalApps, n)
             /\ UNCHANGED localApps
             /\ \/ n \notin NamesIn(apps) /\ apps' = apps
                \/ apps' = Erase(apps, n)
    <2>1. nonLocalApps' = [k \in Names |-> IF k = n THEN NoApp ELSE nonLocalApps[k]]
      BY <1>2 DEF Erase, HandlerTypeOK, AppSet
    <2>2. ASSUME ShownOnce
          PROVE  apps' = [k \in Names |-> IF k = n THEN NoApp ELSE apps[k]]
      BY <1>2, <2>2 DEF ShownOnce, Erase, HandlerTypeOK, AppSet
    <2>3. ShownOnce => ShownOnce'
      BY <1>2, <2>1, <2>2 DEF ShownOnce, Disjoint, NamesIn
    <2>4. ASSUME ShownOnce PROVE n \notin NamesIn(localApps)
      BY <1>2, <2>4 DEF ShownOnce, Disjoint
    <2>5. ASSUME ShownOnce, InStep PROVE InStep'
      BY <1>2, <2>1, <2>2, <2>4, <2>5 DEF InStep, SetUnion, NamesIn
    <2>6. ASSUME ShownOnce, Coherent PROVE Coherent'
      <3>1. \A k \in Names : apps'[k] = SetUnion(localApps', nonLocalApps')[k]
        BY <1>2, <2>1, <2>2, <2>4, <2>6 DEF Coherent, SetUnion, NamesIn
      <3>2. Disjoint(localApps', nonLocalApps')
        BY <2>3, <2>6 DEF ShownOnce
      <3>3. HandlerTypeOK'
        BY RemoveFromNetworkType
      <3> QED
        BY <3>1, <3>2, <3>3, SetUnionType DEF Coherent, AppSet, HandlerTypeOK
    <2> QED
      BY <2>3, <2>5, <2>6 DEF SteadyAndCoherent, Steady
  <1> QED
    BY <1>1, <1>2 DEF RemoveFromNetwork

(* Applying a snapshot leaves account and sets coherent, whatever they were. *)
LEMMA ApplySnapshotIsCoherent ==
    ASSUME NEW snapshot \in Snapshots, Disjoint(snapshot.local, snapshot.nonLocal),
           NEW outcome \in Outcomes, ApplySnapshot(snapshot, outcome)
    PROVE  Coherent' /\ InStep' /\ ShownOnce'
  <1>1. Coherent'
    BY DEF ApplySnapshot, Coherent
  <1>2. InStep'
    BY <1>1 DEF Coherent, InStep
  <1>3. NamesIn(nonLocalApps') \subseteq NamesIn(apps')
    BY NamesOfUnion DEF ApplySnapshot, Snapshots
  <1> QED
    BY <1>1, <1>2, <1>3 DEF Coherent, ShownOnce

-----------------------------------------------------------------------------
(* The inductive invariant.  ShownOnce alone is not inductive: an undo puts back
   sets that were read earlier, so the snapshots must be disjoint as well. *)

SnapshotsDisjoint ==
    \A t \in Threads : snap[t] # NoSnapshot => Disjoint(snap[t].local, snap[t].nonLocal)

ShownOnceInv == TypeOK /\ ShownOnce /\ SnapshotsDisjoint

(* What a step inside a session does to account and sets. *)
SessionStep(t) ==
    \/ SteadyAndCoherent
    \/ RemoveAppLocally(t) /\ Steady
    \/ Coherent' /\ InStep' /\ ShownOnce'

LEMMA ApplyIsSessionStep ==
    ASSUME TypeOK, ~CollidingRenames, NEW t \in Threads, Apply(t)
    PROVE  SessionStep(t)
  <1>0. HandlerTypeOK
    BY DEF TypeOK
  <1>1. CASE AddApp(t)
    BY <1>0, <1>1, AddIsSteady DEF AddApp, SessionStep
  <1>2. CASE LinkApp(t)
    BY <1>2, UnchangedIsSteady DEF LinkApp, Link, handlerVars, SessionStep
  <1>3. CASE LinkAppIsUndefined(t)
    BY <1>3, UnchangedIsSteady DEF LinkAppIsUndefined, handlerVars, SessionStep
  <1>4. CASE UpdateAppName(t)
    BY <1>0, <1>4, FoundType, UpdateIsSteady DEF UpdateAppName, SessionStep
  <1>5. CASE UpdateAppSettings(t)
    BY <1>0, <1>5, FoundType, UpdatedType, UpdateIsSteady DEF UpdateAppSettings, SessionStep
  <1>6. CASE UpdateAppSafeDriveAccess(t)
    BY <1>0, <1>6, FoundType, UpdatedType, UpdateIsSteady
    DEF UpdateAppSafeDriveAccess, SessionStep
  <1>7. CASE UpdateAppIcon(t)
    BY <1>0, <1>7, FoundType, UpdatedType, UpdateIsSteady DEF UpdateAppIcon, SessionStep
  <1>8. CASE RemoveAppLocally(t)
    BY <1>0, <1>8, RemoveLocallyIsSteady DEF RemoveAppLocally, SessionStep
  <1>9. CASE RemoveAppFromNetwork(t)
    BY <1>0, <1>9, RemoveFromNetworkIsSteady DEF RemoveAppFromNetwork, SessionStep
  <1> QED
    BY <1>1, <1>2, <1>3, <1>4, <1>5, <1>6, <1>7, <1>8, <1>9 DEF Apply

LEMMA CallIsSessionStep ==
    ASSUME ShownOnceInv, ~CollidingRenames, NEW t \in Threads,
           Start(t) \/ Continue(t) \/ RevertThrows(t)
    PROVE  SessionStep(t)
  <1>1. CASE Apply(t)
    BY <1>1, ApplyIsSessionStep DEF ShownOnceInv
  <1>2. CASE Undo(t)
    <2>1. snap[t] \in Snapshots /\ Disjoint(snap[t].local, snap[t].nonLocal)
      BY <1>2, SnapInCall, NoSnapshotIsNone DEF Undo, InCall, ShownOnceInv, SnapshotsDisjoint
    <2> QED
      BY <1>2, <2>1, ApplySnapshotIsCoherent DEF Undo, SessionStep
  <1>3. CASE ~Apply(t) /\ ~Undo(t)
    <2>1. UNCHANGED handlerVars
      BY <1>3 DEF Start, Continue, Begin, SaveSession, RevertToLastSavedSession, Mark, Record,
                  SaveSucceeds, SaveThrows, RevertThrows
    <2> QED
      BY <2>1, UnchangedIsSteady DEF handlerVars, SessionStep
  <1> QED
    BY <1>1, <1>2, <1>3

(* Every thread's snapshot was current when it was taken. *)
LEMMA SnapshotsStayDisjoint ==
    ASSUME ShownOnceInv, [Next]_vars
    PROVE  SnapshotsDisjoint'
  <1> USE DEF SnapshotsDisjoint
  <1>1. ASSUME NEW t \in Threads, Start(t) \/ Continue(t) \/ RevertThrows(t)
        PROVE  SnapshotsDisjoint'
    <2>1. CASE Begin(t)
      <3>1. Disjoint(CurrentSnapshot.local, CurrentSnapshot.nonLocal)
        BY DEF CurrentSnapshot, ShownOnceInv, ShownOnce
      <3> QED
        BY <2>1, <3>1 DEF Begin, ShownOnceInv, TypeOK
    <2>2. CASE Return(t)
      BY <2>2 DEF Return, ShownOnceInv, TypeOK
    <2>3. CASE UNCHANGED snap
      BY <2>3 DEF ShownOnceInv
    <2> QED
      BY <1>1, <2>1, <2>2, <2>3
      DEF Start, Continue, Apply, AddApp, LinkApp, LinkAppIsUndefined, UpdateAppName,
          UpdateAppSettings, UpdateAppSafeDriveAccess, UpdateAppIcon, RemoveAppLocally,
          RemoveAppFromNetwork, Unsaved, LocalOnly, SaveSession, RevertToLastSavedSession,
          Mark, Record, Undo, SaveSucceeds, SaveThrows, RevertThrows
  <1>2. CASE Outside
    BY <1>2 DEF Outside, Login, LoginThrows, Crash, SavedElsewhere, LogoutAndStop, Destroyed,
                callVars, vars, ShownOnceInv
  <1>3. CASE UNCHANGED vars
    BY <1>3 DEF vars, ShownOnceInv
  <1> QED
    BY <1>1, <1>2, <1>3 DEF Next

LEMMA OutsideShowsOnce ==
    ASSUME ShownOnceInv, Outside
    PROVE  ShownOnce'
  <1>1. CASE Login
    <2>1. ParseConfig(configFile) \in AppSet /\ saved \in AppSet
      BY ParseConfigType DEF ShownOnceInv, TypeOK, HandlerTypeOK
    <2> QED
      BY <1>1, <2>1, NamesOfMerged DEF Login, Initialise, ShownOnce, Disjoint
  <1>2. CASE Crash \/ LogoutAndStop
    BY <1>2, NamesOfEmptySet DEF Crash, LogoutAndStop, Destroyed, ShownOnce, Disjoint
  <1>3. CASE LoginThrows \/ SavedElsewhere
    BY <1>3 DEF LoginThrows, SavedElsewhere, vars, handlerVars, ShownOnceInv, ShownOnce, Disjoint
  <1> QED
    BY <1>1, <1>2, <1>3 DEF Outside

THEOREM InvariantHolds ==
    ASSUME ~CollidingRenames
    PROVE  Spec => []ShownOnceInv
  <1>1. Init => ShownOnceInv
    BY InitType, NamesOfEmptySet DEF Init, ShownOnceInv, ShownOnce, Disjoint, SnapshotsDisjoint
  <1>2. ShownOnceInv /\ [Next]_vars => ShownOnceInv'
    <2> SUFFICES ASSUME ShownOnceInv, [Next]_vars PROVE ShownOnceInv'
      OBVIOUS
    <2>1. TypeOK'
      BY OutsideType, StepType DEF ShownOnceInv, Next, vars, TypeOK, HandlerTypeOK
    <2>2. ShownOnce'
      <3>1. CASE Outside
        BY <3>1, OutsideShowsOnce
      <3>2. ASSUME NEW t \in Threads, Start(t) \/ Continue(t) \/ RevertThrows(t)
            PROVE  ShownOnce'
        BY <3>2, CallIsSessionStep DEF SessionStep, SteadyAndCoherent, Steady, ShownOnceInv
      <3>3. CASE UNCHANGED vars
        BY <3>3 DEF vars, ShownOnceInv, ShownOnce, Disjoint
      <3> QED
        BY <3>1, <3>2, <3>3 DEF Next
    <2> QED
      BY <2>1, <2>2, SnapshotsStayDisjoint DEF ShownOnceInv
  <1> QED
    BY <1>1, <1>2, PTL DEF Spec

(* The two sets are mutually exclusive and every non-local app is the
   account's, for any threads and in the middle of any calls, as long as nobody
   renames an app to a name in use. *)
THEOREM AppsAreShownOnce ==
    ASSUME ~CollidingRenames
    PROVE  Spec => []ShownOnce
  <1>1. ShownOnceInv => ShownOnce
    BY DEF ShownOnceInv
  <1> QED
    BY <1>1, InvariantHolds, PTL

(* A step that neither starts nor ends a session is a step of some thread. *)
LEMMA InSessionStep ==
    ASSUME running, running', Next
    PROVE  \E t \in Threads : Start(t) \/ Continue(t) \/ RevertThrows(t)
  BY DEF Next, Outside, Login, LoginThrows, Crash, SavedElsewhere, LogoutAndStop, Destroyed

(* Inside a session account and sets stay coherent under calls, their failures
   and their undoing by other threads, RemoveAppLocally apart. *)
THEOREM CoherenceIsKept ==
    ASSUME ~CollidingRenames
    PROVE  Spec => StaysCoherent
  <1>1. ShownOnceInv /\ [Next]_vars =>
            [(running /\ running' /\ Coherent) =>
                 (Coherent' \/ \E t \in Threads : RemoveAppLocally(t))]_vars
    <2> SUFFICES ASSUME ShownOnceInv, Next, running, running', Coherent
                 PROVE  Coherent' \/ \E t \in Threads : RemoveAppLocally(t)
      OBVIOUS
    <2>1. PICK t \in Threads : Start(t) \/ Continue(t) \/ RevertThrows(t)
      BY InSessionStep
    <2> QED
      BY <2>1, CallIsSessionStep DEF SessionStep, SteadyAndCoherent, ShownOnceInv
  <1> QED
    BY <1>1, InvariantHolds, PTL DEF Spec, StaysCoherent

(* Inside a session the sets never show what the account does not hold. *)
THEOREM StepIsKept ==
    ASSUME ~CollidingRenames
    PROVE  Spec => StaysInStep
  <1>1. ShownOnceInv /\ [Next]_vars => [(running /\ running' /\ InStep) => InStep']_vars
    <2> SUFFICES ASSUME ShownOnceInv, Next, running, running', InStep
                 PROVE  InStep'
      OBVIOUS
    <2>1. PICK t \in Threads : Start(t) \/ Continue(t) \/ RevertThrows(t)
      BY InSessionStep
    <2> QED
      BY <2>1, CallIsSessionStep DEF SessionStep, SteadyAndCoherent, Steady, ShownOnceInv
  <1> QED
    BY <1>1, InvariantHolds, PTL DEF Spec, StaysInStep

-----------------------------------------------------------------------------
(* What the loop of AppHandler::Initialise makes of an app of the account. *)
LEMMA MergedShowsApp ==
    ASSUME NEW locals \in AppSet, NEW nonLocals \in AppSet, NEW n \in NamesIn(nonLocals)
    PROVE  LET local == MergedLocal(locals, nonLocals)
               other == MergedNonLocal(locals, nonLocals)
           IN  /\ (n \in NamesIn(local)) # (n \in NamesIn(other))
               /\ SetUnion(local, other)[n].dirs = nonLocals[n].dirs
  <1> DEFINE local == MergedLocal(locals, nonLocals)
             other == MergedNonLocal(locals, nonLocals)
  <1>1. n \in Names /\ nonLocals[n] # NoApp
    BY DEF NamesIn
  <1>2. CASE n \in NamesIn(locals)
    <2>1. local[n] = [locals[n] EXCEPT !.dirs = nonLocals[n].dirs] /\ other[n] = NoApp
      BY <1>1, <1>2 DEF MergedLocal, MergedNonLocal
    <2>2. locals[n] \in AppDetails /\ nonLocals[n] \in AppDetails
      BY <1>2, InSetHasDetails
    <2>3. local[n] \in AppDetails /\ local[n].dirs = nonLocals[n].dirs
      BY <2>1, <2>2 DEF AppDetails
    <2>4. n \in NamesIn(local) /\ n \notin NamesIn(other)
      BY <1>1, <2>1, <2>3, NoAppIsNoDetails DEF NamesIn
    <2>5. SetUnion(local, other)[n] = local[n]
      BY <1>1, <2>4 DEF SetUnion
    <2> QED
      BY <2>3, <2>4, <2>5
  <1>3. CASE n \notin NamesIn(locals)
    <2>1. other[n] = nonLocals[n] /\ n \in NamesIn(other)
      BY <1>1, <1>3 DEF MergedNonLocal, NamesIn
    <2>2. n \notin NamesIn(local)
      BY <1>3, NamesOfMerged
    <2>3. SetUnion(local, other)[n] = other[n]
      BY <1>1, <2>2 DEF SetUnion
    <2> QED
      BY <2>1, <2>2, <2>3
  <1> QED
    BY <1>2, <1>3

(* No call begins a session. *)
LEMMA CallKeepsRunning ==
    ASSUME NEW t \in Threads, Start(t) \/ Continue(t) \/ RevertThrows(t)
    PROVE  running' = running
  <1>1. CASE Apply(t)
    BY <1>1 DEF Apply, AddApp, LinkApp, LinkAppIsUndefined, UpdateAppName, UpdateAppSettings,
                UpdateAppSafeDriveAccess, UpdateAppIcon, RemoveAppLocally,
                RemoveAppFromNetwork, Calls, sessionVars
  <1> QED
    BY <1>1 DEF Start, Continue, Begin, SaveSession, RevertToLastSavedSession, Mark, Record,
                Undo, SaveSucceeds, SaveThrows, RevertThrows, sessionVars

(* A login shows each app of the account in exactly one set, with the directories
   the account grants it, whatever the config file holds and whoever wrote it. *)
THEOREM LoginShowsEachApp == Spec => LoginShowsAccount
  <1> DEFINE Shown ==
          \A n \in NamesIn(saved) :
              /\ (n \in NamesIn(localApps')) # (n \in NamesIn(nonLocalApps'))
              /\ SetUnion(localApps', nonLocalApps')[n].dirs = saved[n].dirs
  <1>1. TypeOK /\ [Next]_vars => [~running /\ running' => Shown]_vars
    <2> SUFFICES ASSUME TypeOK, Next, ~running, running' PROVE Shown
      OBVIOUS
    <2>1. CASE Login
      <3>1. /\ localApps' = MergedLocal(ParseConfig(configFile), saved)
            /\ nonLocalApps' = MergedNonLocal(ParseConfig(configFile), saved)
        BY <2>1 DEF Login, Initialise
      <3>2. saved \in AppSet /\ ParseConfig(configFile) \in AppSet
        BY ParseConfigType DEF TypeOK, HandlerTypeOK
      <3> QED
        BY <3>1, <3>2, MergedShowsApp
    <2>2. CASE Outside /\ ~Login
      BY <2>2 DEF Outside, LoginThrows, LogoutAndStop, Crash, SavedElsewhere, vars, sessionVars
    <2>3. ASSUME NEW t \in Threads, Start(t) \/ Continue(t) \/ RevertThrows(t)
          PROVE  FALSE
      BY <2>3, CallKeepsRunning
    <2> QED
      BY <2>1, <2>2, <2>3 DEF Next
  <1> QED
    BY <1>1, TypeCorrect, PTL DEF Spec, LoginShowsAccount
=============================================================================
