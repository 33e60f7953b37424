------------------------ MODULE MinimumEntropyProofs ------------------------
(* The cheapest match sequence, for passwords of any length and any matches. *)
EXTENDS MinimumEntropy, InductionLemmas, SequenceTheorems

(* How far k and d go. *)
Scanned == IF phase = "scan" THEN pos ELSE length

Inputs ==
    /\ length \in Nat
    /\ bits \in Nat
    /\ matches \in SUBSET Matches

FoundTypes ==
    /\ least \in [0 .. Scanned -> Nat]
    /\ ending \in [1 .. Scanned -> matches \cup {NoMatch}]

Types ==
    /\ Inputs
    /\ phase \in {"scan", "walk", "fill", "done"}
    /\ pos \in 0 .. length
    /\ FoundTypes
    /\ path \in Seq(matches)
    /\ parts \in Seq(Parts)

(* A password ends with the match that is remembered, or with one character more,
   and that is what it costs. *)
Explains(m) == least[m.j + 1] = least[m.i] + m.entropy

GapCosts(first, next) == least[next] = least[first] + bits * (next - first)

EndsWith(p) ==
    IF ending[p] = NoMatch THEN GapCosts(p - 1, p)
    ELSE ending[p].j + 1 = p /\ Explains(ending[p])

EndsAreExplained == \A p \in 1 .. Scanned : EndsWith(p)

(* The matches that are walked over follow each other, with gaps that cost what
   brute force does, from where the walk, or the filling, has come to. *)
After(q) == IF q < Len(path) THEN path[q + 1].i ELSE length

First == IF path = <<>> THEN length ELSE path[1].i

PathIsExplained ==
    \A q \in 1 .. Len(path) :
        /\ path[q].j < After(q) /\ path[q].j < length
        /\ GapCosts(path[q].j + 1, After(q))
        /\ Explains(path[q])

PathIsReached == pos <= First /\ GapCosts(pos, First)

(* The parts cover the first n characters, each once. *)
Tiles(s, n) ==
    /\ (s = <<>>) = (n = 0)
    /\ s # <<>> => s[1].i = 0 /\ s[Len(s)].j = n - 1
    /\ \A q \in 1 .. Len(s) - 1 : s[q + 1].i = s[q].j + 1

AreExplained(s) == \A q \in 1 .. Len(s) : Explains(s[q])

IInv ==
    /\ Types
    /\ least[0] = 0
    /\ NoCheaperEnd
    /\ EndsAreExplained
    /\ phase \in {"scan", "done"} => path = <<>>
    /\ phase \in {"walk", "fill"} => PathIsExplained /\ PathIsReached
    /\ phase \in {"scan", "walk"} => parts = <<>>
    /\ phase = "fill" => Tiles(parts, pos) /\ AreExplained(parts)
    /\ phase = "done" => Tiles(parts, length) /\ AreExplained(parts)

-----------------------------------------------------------------------------
LEMMA MatchFields ==
    ASSUME NEW m \in Matches
    PROVE  m.i \in Nat /\ m.j \in Nat /\ m.entropy \in Nat /\ m.i <= m.j /\ m \in Parts
  BY DEF Matches, Parts

LEMMA NoMatchIsNone == NoMatch \notin Matches
  <1>1. \A m \in Matches : m.pattern # "none"
    BY DEF Matches, Patterns
  <1> QED
    BY <1>1 DEF NoMatch

(* A part more. *)
LEMMA AddPart ==
    ASSUME NEW s \in Seq(Parts), NEW n \in Nat, Tiles(s, n), AreExplained(s),
           NEW m \in Parts, m.i = n, m.i <= m.j, Explains(m)
    PROVE  /\ s \o <<m>> \in Seq(Parts)
           /\ Tiles(s \o <<m>>, m.j + 1)
           /\ AreExplained(s \o <<m>>)
  <1> DEFINE t == s \o <<m>>
  <1>1. <<m>> \in Seq(Parts) /\ Len(<<m>>) = 1 /\ <<m>>[1] = m
    OBVIOUS
  <1>2. /\ t \in Seq(Parts)
        /\ Len(t) = Len(s) + 1
        /\ \A q \in 1 .. Len(s) : t[q] = s[q]
        /\ t[Len(s) + 1] = m
    <2> HIDE DEF t
    <2>1. /\ t \in Seq(Parts)
          /\ Len(t) = Len(s) + Len(<<m>>)
          /\ \A q \in 1 .. Len(s) + Len(<<m>>) :
                 t[q] = IF q <= Len(s) THEN s[q] ELSE <<m>>[q - Len(s)]
      BY <1>1, ConcatProperties DEF t
    <2>2. Len(s) \in Nat
      BY LenProperties
    <2> QED
      BY <1>1, <2>1, <2>2
  <1>3. Len(s) \in Nat /\ m.j \in Nat /\ (s = <<>> <=> Len(s) = 0)
    BY LenProperties, EmptySeq DEF Parts
  <1> HIDE DEF t
  <1>4. t # <<>>
    BY <1>2, <1>3
  <1>5. t[1].i = 0 /\ t[Len(t)].j = m.j + 1 - 1
    <2>1. CASE s = <<>>
      BY <2>1, <1>2, <1>3 DEF Tiles
    <2>2. CASE s # <<>>
      BY <2>2, <1>2, <1>3 DEF Tiles
    <2> QED
      BY <2>1, <2>2
  <1>6. ASSUME NEW q \in 1 .. Len(t) - 1
        PROVE  t[q + 1].i = t[q].j + 1
    <2>1. CASE q < Len(s)
      BY <2>1, <1>2, <1>3 DEF Tiles
    <2>2. CASE q = Len(s)
      <3>1. s[q].j = n - 1 /\ s[q].j \in Int
        BY <2>2, <1>2, <1>3 DEF Tiles, Parts
      <3> QED
        BY <2>2, <3>1, <1>2, <1>3
    <2> QED
      BY <2>1, <2>2, <1>2, <1>3
  <1>7. AreExplained(t)
    BY <1>2, <1>3 DEF AreExplained
  <1>8. Tiles(t, m.j + 1)
    BY <1>3, <1>4, <1>5, <1>6 DEF Tiles
  <1> QED
    BY <1>2, <1>7, <1>8 DEF t

(* A gap more, which may be empty. *)
LEMMA AddGap ==
    ASSUME NEW s \in Seq(Parts), NEW n \in Nat, Tiles(s, n), AreExplained(s),
           NEW next \in Nat, n <= next, bits \in Nat, GapCosts(n, next)
    PROVE  /\ s \o Gap(n, next) \in Seq(Parts)
           /\ Tiles(s \o Gap(n, next), next)
           /\ AreExplained(s \o Gap(n, next))
  <1>1. CASE n = next
    <2>1. Gap(n, next) = <<>>
      BY <1>1 DEF Gap
    <2>2. s \o <<>> = s
      BY ConcatEmptySeq
    <2> QED
      BY <1>1, <2>1, <2>2
  <1>2. CASE n < next
    <2> DEFINE m == [pattern |-> "bruteforce", i |-> n, j |-> next - 1,
                     entropy |-> bits * (next - n)]
    <2>1. Gap(n, next) = <<m>>
      BY <1>2 DEF Gap
    <2>2. bits * (next - n) \in Nat /\ next - 1 \in Nat
      BY <1>2
    <2>3. m \in Parts /\ m.i = n /\ m.i <= m.j /\ m.j + 1 = next
      BY <1>2, <2>2 DEF Parts
    <2>4. Explains(m)
      BY <2>3 DEF Explains, GapCosts
    <2> HIDE DEF m
    <2> QED
      BY <2>1, <2>3, <2>4, AddPart
  <1> QED
    BY <1>1, <1>2

-----------------------------------------------------------------------------
LEMMA InitIInv == EntropyInit => IInv
  <1> SUFFICES ASSUME EntropyInit PROVE IInv
    OBVIOUS
  <1> USE DEF EntropyInit
  <1>1. Types
    BY DEF Types, Inputs, FoundTypes, Scanned
  <1>2. NoCheaperEnd
    BY DEF NoCheaperEnd
  <1>3. EndsAreExplained
    BY DEF EndsAreExplained, Scanned
  <1>4. Tiles(parts, length) /\ AreExplained(parts)
    BY DEF Tiles, AreExplained
  <1> QED
    BY <1>1, <1>2, <1>3, <1>4 DEF IInv

LEMMA CallIInv == ASSUME IInv, Call PROVE IInv'
  <1> USE DEF Call, Begin
  <1>1. Types'
    BY DEF Types, Inputs, FoundTypes, Scanned
  <1>2. NoCheaperEnd'
    BY DEF NoCheaperEnd
  <1>3. EndsAreExplained'
    BY DEF EndsAreExplained, Scanned
  <1> QED
    BY <1>1, <1>2, <1>3 DEF IInv

(* What is known of the least entropies when one more is found. *)
LEMMA FoundKeeps ==
    ASSUME IInv, phase = "scan", pos < length,
           NEW cost \in Nat, NEW m \in matches \cup {NoMatch}, Found(cost, m),
           UNCHANGED inputVars, phase' = "scan", pos' = pos + 1
    PROVE  /\ FoundTypes'
           /\ \A p \in 0 .. pos : least'[p] = least[p]
           /\ least'[pos + 1] = cost
           /\ \A p \in 1 .. pos : ending'[p] = ending[p]
           /\ ending'[pos + 1] = m
  <1> USE DEF IInv, Types, Inputs, FoundTypes, Scanned
  <1>1. pos \in Nat
    OBVIOUS
  <1>2. least \in [0 .. pos -> Nat] /\ ending \in [1 .. pos -> matches \cup {NoMatch}]
    OBVIOUS
  <1>3. least' \in [0 .. pos + 1 -> Nat]
    BY <1>1, <1>2 DEF Found
  <1>4. ending' \in [1 .. pos + 1 -> matches \cup {NoMatch}]
    BY <1>1, <1>2 DEF Found
  <1> QED
    BY <1>1, <1>2, <1>3, <1>4 DEF Found, inputVars

LEMMA ScanIInv == ASSUME IInv, Scan PROVE IInv'
  <1> USE DEF Scan
  <1>1. /\ Inputs /\ pos \in 0 .. length /\ pos < length
        /\ least \in [0 .. pos -> Nat] /\ ending \in [1 .. pos -> matches \cup {NoMatch}]
    BY DEF IInv, Types, Inputs, FoundTypes, Scanned
  <1>2. bits \in Nat /\ length \in Nat /\ pos \in Nat /\ matches \subseteq Matches
    BY <1>1 DEF Inputs
  <1>3. CostWithout \in Nat
    BY <1>1, <1>2 DEF CostWithout
  <1>4. ASSUME NEW m \in EndingHere
        PROVE  m \in matches /\ m.j = pos /\ m.i \in 0 .. pos /\ CostWith(m) \in Nat
    <2>1. m \in matches /\ m.j = pos
      BY DEF EndingHere
    <2>2. m.i \in Nat /\ m.entropy \in Nat /\ m.i <= pos
      BY <2>1, <1>2, MatchFields
    <2> QED
      BY <1>1, <1>2, <2>1, <2>2 DEF CostWith
  <1>5. PICK cost \in Nat, m \in matches \cup {NoMatch} :
            /\ Found(cost, m)
            /\ cost <= CostWithout
            /\ \A other \in EndingHere : cost <= CostWith(other)
            /\ IF m = NoMatch THEN cost = CostWithout
               ELSE m \in EndingHere /\ cost = CostWith(m)
    <2>1. CASE ScanFindsMatch
      <3>1. PICK m \in EndingHere :
                /\ CostWith(m) < CostWithout
                /\ \A other \in EndingHere : CostWith(m) <= CostWith(other)
                /\ Found(CostWith(m), m)
        BY <2>1 DEF ScanFindsMatch
      <3>2. m # NoMatch
        BY <1>2, <1>4, NoMatchIsNone
      <3> QED
        BY <1>3, <1>4, <3>1, <3>2
    <2>2. CASE ScanFindsNone
      BY <1>3, <1>4, <2>2 DEF ScanFindsNone
    <2> QED
      BY <2>1, <2>2
  <1>6. UNCHANGED inputVars /\ phase = "scan" /\ phase' = "scan" /\ pos' = pos + 1
    BY DEF inputVars
  <1>7. /\ FoundTypes'
        /\ \A p \in 0 .. pos : least'[p] = least[p]
        /\ least'[pos + 1] = cost
        /\ \A p \in 1 .. pos : ending'[p] = ending[p]
        /\ ending'[pos + 1] = m
    BY <1>1, <1>5, <1>6, FoundKeeps
  <1>8. Types'
    BY <1>1, <1>2, <1>7 DEF IInv, Types, Inputs, inputVars
  <1>9. DOMAIN least = 0 .. pos /\ DOMAIN least' = 0 .. pos + 1
    BY <1>1, <1>6, <1>7 DEF FoundTypes, Scanned
  <1>10. NoCheaperEnd'
    <2> SUFFICES ASSUME NEW p \in 1 .. pos + 1
                 PROVE  /\ least'[p] <= least'[p - 1] + bits
                        /\ \A n \in matches :
                               n.j + 1 = p => least'[p] <= least'[n.i] + n.entropy
      BY <1>2, <1>6, <1>9 DEF NoCheaperEnd, inputVars
    <2>1. ASSUME NEW n \in matches, n.j + 1 = p
          PROVE  n.i \in 0 .. pos /\ n.i <= p - 1 /\ n.j \in Nat
      BY <1>2, <2>1, MatchFields
    <2>2. CASE p <= pos
      <3>1. p \in DOMAIN least \ {0} /\ p \in 0 .. pos /\ p - 1 \in 0 .. pos
        BY <1>2, <1>9, <2>2
      <3>2. least[p] <= least[p - 1] + bits
        BY <3>1 DEF IInv, NoCheaperEnd
      <3>3. \A n \in matches : n.j + 1 = p => least[p] <= least[n.i] + n.entropy
        BY <3>1 DEF IInv, NoCheaperEnd
      <3> QED
        BY <1>7, <2>1, <3>1, <3>2, <3>3
    <2>3. CASE p = pos + 1
      <3>1. least'[p] = cost /\ least'[p - 1] = least[pos]
        BY <1>2, <1>7, <2>3
      <3>2. ASSUME NEW n \in matches, n.j + 1 = p
            PROVE  cost <= least'[n.i] + n.entropy
        <4>1. n \in EndingHere
          BY <1>2, <2>1, <2>3, <3>2 DEF EndingHere
        <4> QED
          BY <1>5, <1>7, <2>1, <3>2, <4>1 DEF CostWith
      <3> QED
        BY <1>5, <3>1, <3>2 DEF CostWithout
    <2> QED
      BY <1>2, <2>2, <2>3
  <1>11. EndsAreExplained'
    <2> SUFFICES ASSUME NEW p \in 1 .. pos + 1
                 PROVE  EndsWith(p)'
      BY <1>6 DEF EndsAreExplained, Scanned
    <2>1. CASE p <= pos
      <3>1. EndsWith(p) /\ p \in 1 .. pos /\ p - 1 \in 0 .. pos
        BY <1>2, <1>6, <2>1 DEF IInv, EndsAreExplained, Scanned
      <3>2. ending'[p] = ending[p] /\ least'[p] = least[p] /\ least'[p - 1] = least[p - 1]
        BY <1>7, <3>1
      <3>3. CASE ending[p] = NoMatch
        BY <1>6, <3>1, <3>2, <3>3 DEF EndsWith, GapCosts, inputVars
      <3>4. CASE ending[p] # NoMatch
        <4>1. ending[p] \in Matches
          BY <1>1, <1>2, <3>1, <3>4
        <4>2. ending[p].j + 1 = p
          BY <3>1, <3>4 DEF EndsWith
        <4>3. ending[p].i \in Nat /\ ending[p].j \in Nat /\ ending[p].i <= ending[p].j
          BY <4>1, MatchFields
        <4>4. ending[p].i \in 0 .. pos
          BY <1>2, <3>1, <4>2, <4>3
        <4> QED
          BY <1>7, <3>1, <3>2, <3>4, <4>2, <4>4 DEF EndsWith, Explains
      <3> QED
        BY <3>3, <3>4
    <2>2. CASE p = pos + 1
      <3>1. ending'[p] = m /\ least'[p] = cost /\ p - 1 = pos /\ p - (p - 1) = 1
        BY <1>2, <1>7, <2>2
      <3>2. CASE m = NoMatch
        <4>1. cost = least[pos] + bits /\ least'[pos] = least[pos]
          BY <1>2, <1>5, <1>7, <3>2 DEF CostWithout
        <4> QED
          BY <1>2, <1>6, <3>1, <3>2, <4>1 DEF EndsWith, GapCosts, inputVars
      <3>3. CASE m # NoMatch
        <4>1. m.j = pos /\ m.i \in 0 .. pos /\ cost = least[m.i] + m.entropy
          BY <1>4, <1>5, <3>3 DEF CostWith
        <4> QED
          BY <1>7, <2>2, <3>1, <3>3, <4>1 DEF EndsWith, Explains
      <3> QED
        BY <3>2, <3>3
    <2> QED
      BY <1>2, <2>1, <2>2
  <1>12. least'[0] = 0
    <2>1. 0 \in 0 .. pos /\ least[0] = 0
      BY <1>2 DEF IInv
    <2> QED
      BY <1>7, <2>1
  <1> QED
    BY <1>6, <1>8, <1>10, <1>11, <1>12 DEF IInv

LEMMA ScanEndsIInv == ASSUME IInv, ScanEnds PROVE IInv'
  <1> USE DEF ScanEnds
  <1>1. /\ UNCHANGED <<length, bits, matches, least, ending, pos, path, parts>>
        /\ path = <<>> /\ parts = <<>> /\ pos = length /\ phase' = "walk"
        /\ length \in Nat /\ bits \in Nat
    BY DEF IInv, Types, Inputs, inputVars, foundVars
  <1>2. Types' /\ EndsAreExplained' /\ NoCheaperEnd'
    BY <1>1 DEF IInv, Types, Inputs, FoundTypes, Scanned, EndsAreExplained, EndsWith,
                GapCosts, Explains, NoCheaperEnd
  <1>3. PathIsExplained'
    BY <1>1 DEF PathIsExplained
  <1>4. least[length] \in Nat
    BY <1>1 DEF IInv, Types, FoundTypes, Scanned
  <1>5. PathIsReached'
    BY <1>1, <1>4 DEF PathIsReached, First, GapCosts
  <1> QED
    BY <1>1, <1>2, <1>3, <1>5 DEF IInv

(* What the walk and the filling leave alone. *)
LEMMA Keeps ==
    ASSUME IInv, phase \in {"walk", "fill"}, phase' \in {"walk", "fill", "done"},
           UNCHANGED <<inputVars, foundVars>>
    PROVE  /\ Inputs' /\ FoundTypes' /\ NoCheaperEnd' /\ EndsAreExplained' /\ least'[0] = 0
           /\ least \in [0 .. length -> Nat]
           /\ length \in Nat /\ bits \in Nat /\ matches \subseteq Matches
  <1>1. /\ UNCHANGED <<length, bits, matches, least, ending>>
        /\ Scanned = length /\ Scanned' = length
    BY DEF inputVars, foundVars, Scanned
  <1> QED
    BY <1>1 DEF IInv, Types, Inputs, FoundTypes, EndsAreExplained, EndsWith, GapCosts,
                Explains, NoCheaperEnd

(* An element of the path lies in the password. *)
LEMMA OnPath ==
    ASSUME Types, phase \in {"walk", "fill"}, PathIsExplained, NEW q \in 1 .. Len(path)
    PROVE  /\ path[q] \in matches /\ path[q] \in Matches
           /\ After(q) \in 0 .. length
           /\ path[q].i \in Nat /\ path[q].j \in Nat /\ path[q].i <= path[q].j
           /\ path[q].j < length
  <1>1. path \in Seq(matches) /\ matches \subseteq Matches /\ Len(path) \in Nat
    BY LenProperties DEF Types, Inputs
  <1>2. \A r \in 1 .. Len(path) :
            /\ path[r] \in matches /\ path[r] \in Matches
            /\ path[r].i \in Nat /\ path[r].j \in Nat /\ path[r].i <= path[r].j
    BY <1>1, ElementOfSeq, MatchFields
  <1>3. After(q) \in 0 .. length /\ path[q].j < length
    <2>1. CASE q = Len(path)
      BY <1>1, <1>2, <2>1 DEF After, PathIsExplained, Types, Inputs
    <2>2. CASE q < Len(path)
      <3>1. q + 1 \in 1 .. Len(path)
        BY <1>1, <2>2
      <3>2. path[q + 1].j < length /\ path[q + 1].i <= path[q + 1].j /\ path[q + 1].i \in Nat
        BY <1>2, <3>1 DEF PathIsExplained
      <3> QED
        BY <1>1, <1>2, <2>2, <3>1, <3>2 DEF After, PathIsExplained, Types, Inputs
    <2> QED
      BY <1>1, <2>1, <2>2
  <1> QED
    BY <1>2, <1>3

LEMMA FirstIsPosition ==
    ASSUME Types, phase \in {"walk", "fill"}, PathIsExplained
    PROVE  First \in 0 .. length
  <1>1. CASE path = <<>>
    BY <1>1 DEF First, Types, Inputs
  <1>2. CASE path # <<>>
    <2>1. 1 \in 1 .. Len(path)
      BY <1>2, LenProperties, EmptySeq DEF Types
    <2>2. path[1].i \in Nat /\ path[1].j \in Nat /\ path[1].i <= path[1].j /\ path[1].j < length
      BY <2>1, OnPath
    <2> QED
      BY <1>2, <2>2 DEF First, Types, Inputs
  <1> QED
    BY <1>1, <1>2

(* The walk goes over a match. *)
LEMMA PathGrows ==
    ASSUME Types, phase = "walk", PathIsExplained, PathIsReached,
           NEW m \in matches, m.j + 1 = pos, Explains(m),
           path' = <<m>> \o path, pos' = m.i, UNCHANGED <<inputVars, foundVars>>
    PROVE  path' \in Seq(matches) /\ PathIsExplained' /\ PathIsReached'
  <1>1. /\ m \in Matches /\ m.i \in Nat /\ m.j \in Nat /\ m.i <= m.j /\ m.j < length
        /\ path \in Seq(matches) /\ length \in Nat /\ pos \in Nat
        /\ UNCHANGED <<length, bits, least>>
    BY MatchFields DEF Types, Inputs, inputVars, foundVars
  <1>2. <<m>> \in Seq(matches) /\ Len(<<m>>) = 1 /\ <<m>>[1] = m
    OBVIOUS
  <1>3. Len(path) \in Nat /\ (path = <<>> <=> Len(path) = 0)
    BY <1>1, LenProperties, EmptySeq
  <1>4. /\ path' \in Seq(matches)
        /\ Len(path') = Len(path) + 1
        /\ path'[1] = m
        /\ \A q \in 1 .. Len(path) : path'[q + 1] = path[q]
    <2> DEFINE t == <<m>> \o path
    <2>1. /\ t \in Seq(matches)
          /\ Len(t) = Len(<<m>>) + Len(path)
          /\ \A q \in 1 .. Len(<<m>>) + Len(path) :
                 t[q] = IF q <= Len(<<m>>) THEN <<m>>[q] ELSE path[q - Len(<<m>>)]
      BY <1>1, <1>2, ConcatProperties
    <2> HIDE DEF t
    <2>2. path' = t
      BY DEF t
    <2>3. t[1] = m
      BY <1>2, <1>3, <2>1
    <2>4. ASSUME NEW q \in 1 .. Len(path)
          PROVE  t[q + 1] = path[q]
      <3>1. q + 1 \in 1 .. Len(<<m>>) + Len(path) /\ ~(q + 1 <= Len(<<m>>)) /\ q + 1 - Len(<<m>>) = q
        BY <1>2, <1>3
      <3> QED
        BY <2>1, <3>1
    <2>5. Len(t) = Len(path) + 1
      BY <1>2, <1>3, <2>1
    <2> QED
      BY <2>1, <2>2, <2>3, <2>4, <2>5
  <1>5. path' # <<>> /\ First' = m.i
    BY <1>3, <1>4 DEF First
  <1>6. ASSUME NEW q \in 1 .. Len(path')
        PROVE  /\ (path[q].j < After(q))' /\ (path[q].j < length)'
               /\ GapCosts(path[q].j + 1, After(q))' /\ Explains(path[q])'
    <2>1. CASE q = 1
      <3>1. After(1)' = First
        BY <1>1, <1>3, <1>4 DEF After, First
      <3>2. First \in 0 .. length /\ pos <= First /\ GapCosts(pos, First)
        BY FirstIsPosition DEF PathIsReached
      <3>3. m.j < First
        BY <1>1, <3>2
      <3> QED
        BY <1>1, <1>4, <2>1, <3>1, <3>2, <3>3 DEF GapCosts, Explains
    <2>2. CASE q > 1
      <3>1. q - 1 \in 1 .. Len(path) /\ path'[q] = path[q - 1]
        BY <1>3, <1>4, <2>2
      <3>2. After(q)' = After(q - 1)
        BY <1>1, <1>3, <1>4, <2>2, <3>1 DEF After
      <3> QED
        BY <1>1, <3>1, <3>2 DEF PathIsExplained, GapCosts, Explains
    <2> QED
      BY <1>3, <1>4, <2>1, <2>2
  <1>7. PathIsExplained'
    BY <1>6 DEF PathIsExplained
  <1>8. least[m.i] \in Nat
    BY <1>1 DEF Types, FoundTypes, Scanned
  <1>9. PathIsReached'
    BY <1>1, <1>5, <1>8 DEF PathIsReached, GapCosts, Types, Inputs
  <1> QED
    BY <1>4, <1>7, <1>9

(* b more for one character more. *)
LEMMA OneMore == \A b \in Nat, n \in Int : b + b * n = b * (n + 1)
  OBVIOUS

LEMMA WalkIInv == ASSUME IInv, Walk PROVE IInv'
  <1> USE DEF Walk
  <1>1. /\ phase = "walk" /\ phase' = "walk" /\ UNCHANGED <<inputVars, foundVars, parts>>
        /\ Types /\ PathIsExplained /\ PathIsReached
    BY DEF IInv
  <1>2. /\ Inputs' /\ FoundTypes' /\ NoCheaperEnd' /\ EndsAreExplained' /\ least'[0] = 0
        /\ least \in [0 .. length -> Nat]
        /\ length \in Nat /\ bits \in Nat /\ matches \subseteq Matches
    BY <1>1, Keeps
  <1>3. /\ pos \in 1 .. length /\ EndsWith(pos) /\ ending[pos] \in matches \cup {NoMatch}
        /\ UNCHANGED <<length, bits, matches, least>>
    BY <1>1 DEF IInv, Types, Inputs, FoundTypes, Scanned, EndsAreExplained, inputVars, foundVars
  <1>4. path' \in Seq(matches) /\ PathIsExplained' /\ PathIsReached' /\ pos' \in 0 .. length
    <2>1. CASE ending[pos] # NoMatch
      <3>1. ending[pos] \in matches /\ ending[pos].j + 1 = pos /\ Explains(ending[pos])
        BY <1>3, <2>1 DEF EndsWith
      <3>2. path' = <<ending[pos]>> \o path /\ pos' = ending[pos].i
        BY <2>1
      <3>3. ending[pos].i \in 0 .. length
        BY <1>2, <1>3, <3>1, MatchFields
      <3> QED
        BY <1>1, <3>1, <3>2, <3>3, PathGrows
    <2>2. CASE ending[pos] = NoMatch
      <3>1. path' = path /\ pos' = pos - 1 /\ GapCosts(pos - 1, pos)
        BY <1>3, <2>2 DEF EndsWith
      <3>2. PathIsExplained' /\ First' = First
        BY <1>1, <1>3, <3>1 DEF PathIsExplained, After, First, GapCosts, Explains
      <3>3. First \in 0 .. length
        BY <1>1, FirstIsPosition
      <3>4. PathIsReached'
        <4> DEFINE f == First
        <4>1. f \in 0 .. length /\ pos <= f /\ GapCosts(pos, f) /\ GapCosts(pos - 1, pos)
          BY <1>1, <3>1, <3>3 DEF PathIsReached
        <4> HIDE DEF f
        <4>2. least[pos] \in Nat /\ least[pos - 1] \in Nat /\ least[f] \in Nat
          BY <1>2, <1>3, <4>1
        <4>3. least[pos] = least[pos - 1] + bits
          BY <1>2, <1>3, <4>1, <4>2 DEF GapCosts
        <4>4. bits + bits * (f - pos) = bits * (f - (pos - 1)) /\ bits * (f - pos) \in Int
          BY <1>2, <1>3, <4>1, OneMore
        <4>5. least[f] = least[pos - 1] + bits * (f - (pos - 1))
          BY <1>2, <4>1, <4>2, <4>3, <4>4 DEF GapCosts
        <4> QED
          BY <1>3, <3>1, <3>2, <4>1, <4>5 DEF PathIsReached, GapCosts, f
      <3> QED
        BY <1>1, <1>2, <1>3, <3>1, <3>2, <3>4 DEF Types
    <2> QED
      BY <2>1, <2>2
  <1>5. Types' /\ parts' = <<>>
    BY <1>1, <1>2, <1>3, <1>4 DEF IInv, Types
  <1> QED
    BY <1>1, <1>2, <1>4, <1>5 DEF IInv

LEMMA WalkEndsIInv == ASSUME IInv, WalkEnds PROVE IInv'
  <1> USE DEF WalkEnds
  <1>1. /\ phase = "walk" /\ phase' = "fill" /\ pos = 0 /\ parts = <<>>
        /\ UNCHANGED <<inputVars, foundVars, pos, path, parts>>
        /\ Types /\ PathIsExplained /\ PathIsReached
    BY DEF IInv
  <1>2. /\ Inputs' /\ FoundTypes' /\ NoCheaperEnd' /\ EndsAreExplained' /\ least'[0] = 0
    BY <1>1, Keeps
  <1>3. Types' /\ PathIsExplained' /\ PathIsReached'
    BY <1>1, <1>2 DEF Types, PathIsExplained, PathIsReached, After, First, GapCosts, Explains,
                      inputVars, foundVars
  <1>4. Tiles(parts', pos') /\ AreExplained(parts)'
    BY <1>1 DEF Tiles, AreExplained
  <1> QED
    BY <1>1, <1>2, <1>3, <1>4 DEF IInv, Tiles, AreExplained

LEMMA FillIInv == ASSUME IInv, Fill PROVE IInv'
  <1> USE DEF Fill
  <1>1. /\ phase = "fill" /\ phase' = "fill" /\ UNCHANGED <<inputVars, foundVars>>
        /\ Types /\ PathIsExplained /\ PathIsReached /\ path # <<>>
        /\ Tiles(parts, pos) /\ AreExplained(parts) /\ parts \in Seq(Parts)
    BY DEF IInv, Types
  <1>2. /\ Inputs' /\ FoundTypes' /\ NoCheaperEnd' /\ EndsAreExplained' /\ least'[0] = 0
        /\ least \in [0 .. length -> Nat]
        /\ length \in Nat /\ bits \in Nat /\ matches \subseteq Matches
        /\ UNCHANGED <<length, bits, matches, least>>
    BY <1>1, Keeps DEF inputVars, foundVars
  <1>3. path \in Seq(matches) /\ Len(path) \in Nat /\ 1 \in 1 .. Len(path) /\ pos \in Nat
    BY <1>1, <1>2, LenProperties, EmptySeq DEF Types
  <1> DEFINE m == Head(path)
  <1>4. m = path[1]
    BY <1>1, <1>3
  <1>5. /\ m \in matches /\ m \in Parts
        /\ m.i \in Nat /\ m.j \in Nat /\ m.i <= m.j /\ m.j < length
        /\ After(1) \in 0 .. length
    BY <1>1, <1>2, <1>3, <1>4, OnPath, MatchFields
  <1>6. m.j < After(1) /\ GapCosts(m.j + 1, After(1)) /\ Explains(m)
    BY <1>1, <1>3, <1>4 DEF PathIsExplained
  <1>7. pos <= m.i /\ GapCosts(pos, m.i)
    BY <1>1, <1>4 DEF PathIsReached, First
  <1> HIDE DEF m
  <1>8. parts' = (parts \o Gap(pos, m.i)) \o <<m>> /\ pos' = m.j + 1 /\ path' = Tail(path)
    BY DEF m
  <1> DEFINE s == parts \o Gap(pos, m.i)
  <1>9. s \in Seq(Parts) /\ Tiles(s, m.i) /\ AreExplained(s)
    BY <1>1, <1>2, <1>3, <1>5, <1>7, AddGap
  <1> HIDE DEF s
  <1>10. s \o <<m>> \in Seq(Parts) /\ Tiles(s \o <<m>>, m.j + 1) /\ AreExplained(s \o <<m>>)
    BY <1>5, <1>6, <1>9, AddPart
  <1>11. parts' \in Seq(Parts) /\ Tiles(parts', pos') /\ AreExplained(parts')
    BY <1>8, <1>10 DEF s
  <1>12. AreExplained(parts)' /\ Tiles(parts, pos)'
    BY <1>2, <1>11 DEF AreExplained, Explains, Tiles
  <1>13. /\ path' \in Seq(matches) /\ Len(path') = Len(path) - 1
         /\ \A q \in 1 .. Len(path') : path'[q] = path[q + 1]
    BY <1>1, <1>3, <1>8, HeadTailProperties
  <1>14. ASSUME NEW q \in 1 .. Len(path')
         PROVE  q + 1 \in 1 .. Len(path) /\ After(q)' = After(q + 1) /\ path'[q] = path[q + 1]
    <2>1. q + 1 \in 1 .. Len(path) /\ path'[q] = path[q + 1]
      BY <1>3, <1>13
    <2>2. CASE q = Len(path')
      <3>1. After(q)' = length' /\ After(q + 1) = length
        BY <1>3, <1>13, <2>2 DEF After
      <3> QED
        BY <1>2, <2>1, <3>1
    <2>3. CASE q < Len(path')
      <3>1. path'[q + 1] = path[q + 1 + 1]
        BY <1>3, <1>13, <2>3
      <3>2. After(q)' = path'[q + 1].i /\ After(q + 1) = path[q + 1 + 1].i
        BY <1>3, <1>13, <2>3 DEF After
      <3> QED
        BY <2>1, <3>1, <3>2
    <2>4. q = Len(path') \/ q < Len(path')
      <3>1. Len(path') \in Nat
        BY <1>13, LenProperties
      <3> QED
        BY <3>1
    <2> QED
      BY <2>2, <2>3, <2>4
  <1>15. PathIsExplained'
    <2> SUFFICES ASSUME NEW q \in 1 .. Len(path')
                 PROVE  /\ (path[q].j < After(q))' /\ (path[q].j < length)'
                        /\ GapCosts(path[q].j + 1, After(q))' /\ Explains(path[q])'
      BY DEF PathIsExplained
    <2> QED
      BY <1>1, <1>2, <1>14 DEF PathIsExplained, GapCosts, Explains
  <1>16. First' = After(1)
    <2>1. path' = <<>> <=> Len(path') = 0
      BY <1>13, EmptySeq
    <2>2. CASE path' = <<>>
      BY <1>2, <1>3, <1>13, <2>1, <2>2 DEF First, After
    <2>3. CASE path' # <<>>
      <3>1. 1 \in 1 .. Len(path') /\ path'[1] = path[2]
        BY <1>3, <1>13, <2>1, <2>3
      <3> QED
        BY <1>3, <1>13, <2>3, <3>1 DEF First, After
    <2> QED
      BY <2>2, <2>3
  <1>17. PathIsReached' /\ pos' \in 0 .. length
    <2>1. pos' = m.j + 1 /\ pos' \in 0 .. length /\ pos' <= After(1)
      BY <1>2, <1>5, <1>6, <1>8
    <2>2. least[After(1)] = least[pos'] + bits * (After(1) - pos')
      BY <1>6, <2>1 DEF GapCosts
    <2>3. GapCosts(pos, First)'
      BY <1>2, <1>16, <2>2 DEF GapCosts
    <2> QED
      BY <1>16, <2>1, <2>3 DEF PathIsReached
  <1>18. Types'
    BY <1>1, <1>2, <1>11, <1>13, <1>17 DEF Types
  <1> QED
    BY <1>1, <1>2, <1>12, <1>15, <1>17, <1>18 DEF IInv

LEMMA FillEndsIInv == ASSUME IInv, FillEnds PROVE IInv'
  <1> USE DEF FillEnds
  <1>1. /\ phase = "fill" /\ phase' = "done" /\ UNCHANGED <<inputVars, foundVars, pos, path>>
        /\ Types /\ PathIsReached /\ path = <<>>
        /\ Tiles(parts, pos) /\ AreExplained(parts) /\ parts \in Seq(Parts)
    BY DEF IInv, Types
  <1>2. /\ Inputs' /\ FoundTypes' /\ NoCheaperEnd' /\ EndsAreExplained' /\ least'[0] = 0
        /\ length \in Nat /\ bits \in Nat
        /\ UNCHANGED <<length, bits, matches, least>>
    BY <1>1, Keeps DEF inputVars, foundVars
  <1>3. pos \in Nat /\ pos <= length /\ GapCosts(pos, length)
    BY <1>1, <1>2 DEF PathIsReached, First, Types
  <1>4. parts' = parts \o Gap(pos, length)
    OBVIOUS
  <1> DEFINE s == parts \o Gap(pos, length)
  <1>5. s \in Seq(Parts) /\ Tiles(s, length) /\ AreExplained(s)
    BY <1>1, <1>2, <1>3, AddGap
  <1> HIDE DEF s
  <1>6. parts' = s
    BY <1>4 DEF s
  <1>7. AreExplained(parts)' /\ Tiles(parts, length)' /\ parts' \in Seq(Parts)
    BY <1>2, <1>5, <1>6 DEF AreExplained, Explains, Tiles
  <1>8. Types'
    BY <1>1, <1>2, <1>7 DEF Types
  <1> QED
    BY <1>1, <1>2, <1>7, <1>8 DEF IInv

LEMMA StutterIInv == ASSUME IInv, UNCHANGED entropyVars PROVE IInv'
  <1>1. UNCHANGED <<length, bits, matches, phase, pos, least, ending, path, parts>>
    BY DEF entropyVars, inputVars, foundVars
  <1>2. Types' /\ NoCheaperEnd' /\ EndsAreExplained'
    BY <1>1 DEF IInv, Types, Inputs, FoundTypes, Scanned, NoCheaperEnd, EndsAreExplained,
                EndsWith, GapCosts, Explains
  <1>3. (PathIsExplained /\ PathIsReached) = (PathIsExplained /\ PathIsReached)'
    BY <1>1 DEF PathIsExplained, PathIsReached, After, First, GapCosts, Explains
  <1>4. (Tiles(parts, pos) /\ AreExplained(parts)) = (Tiles(parts, pos) /\ AreExplained(parts))'
    BY <1>1 DEF Tiles, AreExplained, Explains
  <1>5. (Tiles(parts, length) /\ AreExplained(parts))
        = (Tiles(parts, length) /\ AreExplained(parts))'
    BY <1>1 DEF Tiles, AreExplained, Explains
  <1> QED
    BY <1>1, <1>2, <1>3, <1>4, <1>5 DEF IInv

LEMMA Inductive == EntropySpec => []IInv
  <1>1. IInv /\ [EntropyNext]_entropyVars => IInv'
    BY CallIInv, ScanIInv, ScanEndsIInv, WalkIInv, WalkEndsIInv, FillIInv, FillEndsIInv,
       StutterIInv DEF EntropyNext, Compute
  <1> QED
    BY InitIInv, <1>1, PTL DEF EntropySpec

-----------------------------------------------------------------------------
(* The variables keep their types: no loop of minimum_entropy_match_sequence reads
   behind what an earlier one has written. *)
THEOREM TypesHold == EntropySpec => []EntropyTypeOK
  <1>1. IInv => EntropyTypeOK
    <2> SUFFICES ASSUME IInv PROVE EntropyTypeOK
      OBVIOUS
    <2>1. Scanned \in 0 .. length
      BY DEF IInv, Types, Inputs, Scanned
    <2> QED
      BY <2>1 DEF IInv, Types, Inputs, FoundTypes, Scanned, EntropyTypeOK
  <1> QED
    BY Inductive, <1>1, PTL

(* The least entropy that the scan finds for the password and its beginnings is one
   that no match and no further character undercuts. *)
THEOREM NothingIsCheaper == EntropySpec => []NoCheaperEnd
  <1>1. IInv => NoCheaperEnd
    BY DEF IInv
  <1> QED
    BY Inductive, <1>1, PTL

(* The match sequence covers the password, each character once, whatever matches
   overlap. *)
THEOREM PartsCoverPassword == EntropySpec => []PartsTile
  <1>1. IInv => PartsTile
    BY DEF IInv, Tiles, PartsTile
  <1> QED
    BY Inductive, <1>1, PTL

(* Its parts cost together what the least entropy is. *)
THEOREM PartsAddUp == EntropySpec => []PartsExplainEntropy
  <1>1. IInv => PartsExplainEntropy
    BY DEF IInv, AreExplained, Explains, PartsExplainEntropy
  <1> QED
    BY Inductive, <1>1, PTL

-----------------------------------------------------------------------------
(* The result is the least entropy.  What is known of it when the scan is over: *)
Solved ==
    /\ Inputs
    /\ least \in [0 .. length -> Nat]
    /\ ending \in [1 .. length -> matches \cup {NoMatch}]
    /\ least[0] = 0
    /\ NoCheaperEnd
    /\ \A p \in 1 .. length : EndsWith(p)

Costs(i, j) == {bits * (j - i)} \cup {m.entropy : m \in {n \in matches : n.i = i /\ n.j = j - 1}}

LEMMA PieceCostIsLeast ==
    ASSUME Inputs, NEW i \in Nat, NEW j \in Nat, i < j
    PROVE  /\ PieceCost(i, j) \in Costs(i, j) /\ PieceCost(i, j) \in Nat
           /\ \A cost \in Costs(i, j) : PieceCost(i, j) <= cost
  <1>1. bits * (j - i) \in Nat
    BY DEF Inputs
  <1>2. \A m \in matches : m.entropy \in Nat
    BY MatchFields DEF Inputs
  <1>3. Costs(i, j) \subseteq Nat /\ Costs(i, j) # {}
    BY <1>1, <1>2 DEF Costs
  <1>4. PieceCost(i, j) = Min(Costs(i, j))
    BY DEF PieceCost, Costs
  <1> QED
    BY <1>3, <1>4, MinOfNumbers

(* As many characters as one likes cost no less than what brute force costs. *)
LEMMA GapIsNoCheaper ==
    ASSUME Solved, NEW i \in 0 .. length, NEW j \in 0 .. length, i <= j
    PROVE  least[j] <= least[i] + bits * (j - i)
  <1> DEFINE P == {k \in Nat : i + k <= length => least[i + k] <= least[i] + bits * k}
  <1>1. bits \in Nat /\ length \in Nat /\ least \in [0 .. length -> Nat]
    BY DEF Solved, Inputs
  <1>2. 0 \in P
    BY <1>1
  <1>3. ASSUME NEW k \in Nat, k \in P
        PROVE  k + 1 \in P
    <2> SUFFICES ASSUME i + (k + 1) <= length
                 PROVE  least[i + (k + 1)] <= least[i] + bits * (k + 1)
      OBVIOUS
    <2>1. least[i + k] <= least[i] + bits * k
      BY <1>1, <1>3
    <2>2. i + (k + 1) \in DOMAIN least \ {0} /\ i + (k + 1) - 1 = i + k
      BY <1>1
    <2>3. least[i + (k + 1)] <= least[i + k] + bits
      BY <2>2 DEF Solved, NoCheaperEnd
    <2>4. bits + bits * k = bits * (k + 1) /\ bits * k \in Nat
      BY <1>1, OneMore
    <2>5. least[i + k] \in Nat /\ least[i] \in Nat /\ least[i + (k + 1)] \in Nat
      BY <1>1
    <2> QED
      BY <1>1, <2>1, <2>3, <2>4, <2>5
  <1>4. \A k \in Nat : k \in P
    <2> HIDE DEF P
    <2> QED
      BY <1>2, <1>3, SetInduction
  <1>5. j - i \in P /\ i + (j - i) = j
    <2>1. j - i \in Nat /\ i + (j - i) = j
      BY <1>1
    <2> HIDE DEF P
    <2> QED
      BY <1>4, <2>1
  <1> QED
    BY <1>1, <1>5

LEMMA PieceIsNoCheaper ==
    ASSUME Solved, NEW i \in 0 .. length, NEW j \in 0 .. length, i < j
    PROVE  least[j] <= least[i] + PieceCost(i, j)
  <1>1. Inputs /\ length \in Nat /\ i \in Nat /\ j \in Nat /\ least \in [0 .. length -> Nat]
    BY DEF Solved, Inputs
  <1>2. PieceCost(i, j) \in Costs(i, j)
    BY <1>1, PieceCostIsLeast
  <1>3. CASE PieceCost(i, j) = bits * (j - i)
    BY <1>1, <1>3, GapIsNoCheaper
  <1>4. ASSUME NEW m \in matches, m.i = i, m.j = j - 1, PieceCost(i, j) = m.entropy
        PROVE  least[j] <= least[i] + PieceCost(i, j)
    <2>1. j \in DOMAIN least \ {0} /\ m.j + 1 = j
      BY <1>1, <1>4
    <2> QED
      BY <1>4, <2>1 DEF Solved, NoCheaperEnd
  <1> QED
    BY <1>2, <1>3, <1>4 DEF Costs

(* Cuts of the first p characters, and what the pieces cost together. *)
CutsUpTo(p) == {cuts \in SUBSET (0 .. p) : 0 \in cuts /\ p \in cuts}

PiecesOf(cuts, p) == [i \in cuts \ {p} |-> PieceCost(i, NextCut(cuts, i))]

CostUpTo(cuts, p) == SumFunctionOnSet(PiecesOf(cuts, p), cuts \ {p})

LEMMA CutsArePositions ==
    ASSUME NEW p \in Nat, NEW cuts \in CutsUpTo(p)
    PROVE  /\ 0 \in cuts /\ p \in cuts
           /\ \A c \in cuts : c \in Nat /\ c <= p /\ c \in 0 .. p
  BY DEF CutsUpTo

LEMMA NextCutIs ==
    ASSUME NEW p \in Nat, NEW cuts \in CutsUpTo(p), NEW i \in cuts \ {p}
    PROVE  /\ NextCut(cuts, i) \in cuts /\ NextCut(cuts, i) > i
           /\ \A c \in cuts : c > i => NextCut(cuts, i) <= c
           /\ NextCut(cuts, i) \in Nat
  <1> DEFINE S == {c \in cuts : c > i}
  <1>1. p \in cuts /\ i \in Nat /\ i <= p /\ \A c \in cuts : c \in Nat
    BY CutsArePositions
  <1>2. S \subseteq Nat
    BY <1>1
  <1>3. p \in S
    BY <1>1
  <1>4. NextCut(cuts, i) = Min(S)
    BY DEF NextCut
  <1>5. Min(S) \in S /\ \A x \in S : Min(S) <= x
    <2> HIDE DEF S
    <2> QED
      BY <1>2, <1>3, MinOfNumbers
  <1> QED
    BY <1>2, <1>4, <1>5

LEMMA PiecesAreNumbers ==
    ASSUME Inputs, NEW p \in Nat, NEW cuts \in CutsUpTo(p)
    PROVE  /\ IsFiniteSet(cuts)
           /\ \A i \in cuts \ {p} : PiecesOf(cuts, p)[i] \in Nat
           /\ CostUpTo(cuts, p) \in Nat
  <1>1. cuts \subseteq 0 .. p
    BY DEF CutsUpTo
  <1>2. IsFiniteSet(cuts) /\ IsFiniteSet(cuts \ {p})
    <2>1. IsFiniteSet(0 .. p)
      BY FS_Interval
    <2> QED
      BY <1>1, <2>1, FS_Subset
  <1>3. ASSUME NEW i \in cuts \ {p}
        PROVE  PiecesOf(cuts, p)[i] \in Nat
    <2>1. NextCut(cuts, i) \in Nat /\ NextCut(cuts, i) > i /\ i \in Nat
      BY <1>1, NextCutIs
    <2>2. PieceCost(i, NextCut(cuts, i)) \in Nat
      BY <2>1, PieceCostIsLeast
    <2> QED
      BY <2>2 DEF PiecesOf
  <1> QED
    BY <1>2, <1>3, SumType DEF CostUpTo

(* No way to cut the password costs less than the result. *)
LEMMA NoCutIsCheaper ==
    ASSUME Solved, NEW cuts \in CutsUpTo(length)
    PROVE  least[length] <= CostUpTo(cuts, length)
  <1> DEFINE f == PiecesOf(cuts, length)
             before(p) == {c \in cuts : c < p}
             P == {p \in Nat : p \in cuts => least[p] <= SumFunctionOnSet(f, before(p))}
  <1>1. /\ Inputs /\ length \in Nat /\ least \in [0 .. length -> Nat] /\ least[0] = 0
        /\ 0 \in cuts /\ length \in cuts
        /\ \A c \in cuts : c \in Nat /\ c <= length /\ c \in 0 .. length
    BY CutsArePositions DEF Solved, Inputs
  <1>2. IsFiniteSet(cuts) /\ \A i \in cuts \ {length} : f[i] \in Nat
    BY <1>1, PiecesAreNumbers
  <1>3. ASSUME NEW p \in cuts
        PROVE  /\ IsFiniteSet(before(p)) /\ \A i \in before(p) : f[i] \in Nat
               /\ SumFunctionOnSet(f, before(p)) \in Nat
    <2>1. before(p) \subseteq cuts \ {length}
      BY <1>1
    <2>2. IsFiniteSet(before(p))
      BY <1>2, <2>1, FS_Subset
    <2> HIDE DEF before, f
    <2> QED
      BY <1>2, <2>1, <2>2, SumType
  <1>4. ASSUME NEW p \in Nat, \A k \in Nat : k < p => k \in P
        PROVE  p \in P
    <2> SUFFICES ASSUME p \in cuts PROVE least[p] <= SumFunctionOnSet(f, before(p))
      OBVIOUS
    <2>1. CASE p = 0
      <3>1. SumFunctionOnSet(f, before(p)) \in Nat
        BY <1>3
      <3> HIDE DEF f, before
      <3> QED
        BY <1>1, <2>1, <3>1
    <2>2. CASE p # 0
      <3>1. before(p) \subseteq Nat /\ 0 \in before(p) /\ \A k \in before(p) : k <= p
        <4>1. \A k \in before(p) : k \in Nat /\ k < p
          BY <1>1
        <4>2. 0 \in before(p)
          BY <1>1, <2>2
        <4> HIDE DEF before
        <4> QED
          BY <4>1, <4>2
      <3>2. PICK i \in before(p) : \A k \in before(p) : k <= i
        <4> HIDE DEF before
        <4> QED
          BY <3>1, GreatestElement
      <3>3. i \in cuts \ {length} /\ i < p /\ i \in Nat /\ i \in 0 .. length /\ p \in 0 .. length
        BY <1>1, <3>2
      <3>4. before(p) \ {i} = before(i)
        <4>1. \A c \in before(p) : c \in Nat /\ c <= i
          BY <1>1, <3>2
        <4>2. \A c \in before(p) \ {i} : c \in before(i)
          BY <3>3, <4>1
        <4>3. \A c \in before(i) : c \in before(p) \ {i}
          BY <1>1, <3>3
        <4> HIDE DEF before
        <4> QED
          BY <4>2, <4>3
      <3>5. NextCut(cuts, i) = p
        <4>1. /\ NextCut(cuts, i) \in cuts /\ NextCut(cuts, i) > i
              /\ NextCut(cuts, i) <= p /\ NextCut(cuts, i) \in Nat
          BY <1>1, <3>3, NextCutIs
        <4>2. NextCut(cuts, i) \notin before(p)
          BY <3>2, <3>3, <4>1
        <4> QED
          BY <4>1, <4>2
      <3>6. f[i] = PieceCost(i, p)
        BY <3>3, <3>5 DEF PiecesOf
      <3>7. SumFunctionOnSet(f, before(p)) = f[i] + SumFunctionOnSet(f, before(i))
        <4>1. IsFiniteSet(before(p)) /\ \A k \in before(p) : f[k] \in Nat
          BY <1>3
        <4> HIDE DEF before, f
        <4> QED
          BY <3>2, <3>4, <4>1, SumWithout
      <3>8. least[i] <= SumFunctionOnSet(f, before(i))
        BY <1>4, <3>3
      <3>9. least[p] <= least[i] + PieceCost(i, p)
        BY <3>3, PieceIsNoCheaper
      <3>10. /\ least[i] \in Nat /\ least[p] \in Nat /\ f[i] \in Nat
             /\ SumFunctionOnSet(f, before(i)) \in Nat
        BY <1>1, <1>2, <1>3, <3>3
      <3> HIDE DEF before, f
      <3> QED
        BY <3>6, <3>7, <3>8, <3>9, <3>10
    <2> QED
      BY <2>1, <2>2
  <1>5. \A p \in Nat : p \in P
    <2> HIDE DEF P
    <2> QED
      BY <1>4, StrongSetInduction
  <1>6. before(length) = cuts \ {length}
    <2>1. \A c \in cuts : c < length <=> c # length
      BY <1>1
    <2> QED
      BY <2>1
  <1> QED
    BY <1>1, <1>5, <1>6 DEF CostUpTo

(* The last piece of some cuts. *)
LEMMA AddCut ==
    ASSUME Inputs, NEW i \in Nat, NEW p \in Nat, i < p, NEW cuts \in CutsUpTo(i)
    PROVE  /\ cuts \cup {p} \in CutsUpTo(p)
           /\ CostUpTo(cuts \cup {p}, p) = CostUpTo(cuts, i) + PieceCost(i, p)
  <1> DEFINE new == cuts \cup {p}
             f == PiecesOf(cuts, i)
             g == PiecesOf(new, p)
             rest == cuts \ {i}
  <1>1. /\ 0 \in cuts /\ i \in cuts
        /\ \A c \in cuts : c \in Nat /\ c <= i /\ c \in 0 .. p /\ c # p
    BY CutsArePositions
  <1>2. new \in CutsUpTo(p) /\ new \ {p} = cuts
    BY <1>1 DEF CutsUpTo
  <1>3. NextCut(new, i) = p
    <2>1. NextCut(new, i) \in new /\ NextCut(new, i) > i
      BY <1>1, <1>2, NextCutIs
    <2>2. \A c \in cuts : ~ (c > i)
      BY <1>1
    <2> QED
      BY <2>1, <2>2
  <1>4. ASSUME NEW c \in rest
        PROVE  NextCut(new, c) = NextCut(cuts, c)
    <2>1. /\ NextCut(cuts, c) \in cuts /\ NextCut(cuts, c) > c
          /\ \A x \in cuts : x > c => NextCut(cuts, c) <= x
          /\ NextCut(cuts, c) \in Nat
      BY NextCutIs
    <2>2. c \in new \ {p}
      BY <1>2
    <2>3. /\ NextCut(new, c) \in new /\ NextCut(new, c) > c
          /\ \A x \in new : x > c => NextCut(new, c) <= x
          /\ NextCut(new, c) \in Nat
      BY <1>2, <2>2, NextCutIs
    <2>4. NextCut(new, c) <= NextCut(cuts, c)
      BY <2>1, <2>3
    <2>5. NextCut(new, c) \in cuts
      BY <1>1, <2>1, <2>3, <2>4
    <2>6. NextCut(cuts, c) <= NextCut(new, c)
      BY <2>1, <2>3, <2>5
    <2> QED
      BY <2>1, <2>3, <2>4, <2>6
  <1>5. /\ IsFiniteSet(cuts) /\ IsFiniteSet(rest)
        /\ \A c \in cuts : g[c] \in Nat
        /\ \A c \in rest : f[c] \in Nat
    <2>1. IsFiniteSet(cuts) /\ \A c \in cuts \ {i} : f[c] \in Nat
      BY PiecesAreNumbers
    <2>2. \A c \in new \ {p} : g[c] \in Nat
      BY <1>2, PiecesAreNumbers
    <2>3. IsFiniteSet(rest)
      BY <2>1, FS_Subset
    <2> QED
      BY <1>2, <2>1, <2>2, <2>3
  <1>6. \A c \in rest : f[c] = g[c]
    BY <1>2, <1>4 DEF PiecesOf
  <1>7. g[i] = PieceCost(i, p)
    BY <1>1, <1>2, <1>3 DEF PiecesOf
  <1>8. CostUpTo(new, p) = SumFunctionOnSet(g, cuts)
    BY <1>2 DEF CostUpTo
  <1>9. CostUpTo(cuts, i) = SumFunctionOnSet(f, rest)
    BY DEF CostUpTo
  <1> HIDE DEF f, g, new, rest
  <1>10. SumFunctionOnSet(g, cuts) = g[i] + SumFunctionOnSet(g, cuts \ {i})
    <2>1. i \in cuts
      BY <1>1
    <2>2. IsFiniteSet(cuts)
      BY <1>5
    <2>3. \A c \in cuts : g[c] \in Nat
      BY <1>5
    <2> QED
      BY <2>1, <2>2, <2>3, SumWithout, ZenonT(60)
  <1>11. SumFunctionOnSet(f, rest) = SumFunctionOnSet(g, rest)
    BY <1>5, <1>6, SumIsSame
  <1>12. g[i] \in Nat /\ SumFunctionOnSet(f, rest) \in Nat
    BY <1>1, <1>5, SumType
  <1> QED
    BY <1>2, <1>7, <1>8, <1>9, <1>10, <1>11, <1>12 DEF rest, new

(* Some way to cut it costs no more. *)
LEMMA SomeCutCosts ==
    ASSUME Solved
    PROVE  \E cuts \in CutsUpTo(length) : CostUpTo(cuts, length) <= least[length]
  <1> DEFINE P == {p \in Nat : p <= length =>
                      \E cuts \in CutsUpTo(p) : CostUpTo(cuts, p) <= least[p]}
  <1>1. /\ Inputs /\ length \in Nat /\ bits \in Nat /\ matches \subseteq Matches
        /\ least \in [0 .. length -> Nat] /\ least[0] = 0
        /\ ending \in [1 .. length -> matches \cup {NoMatch}]
    BY DEF Solved, Inputs
  <1>2. ASSUME NEW p \in Nat, \A k \in Nat : k < p => k \in P
        PROVE  p \in P
    <2> SUFFICES ASSUME p <= length
                 PROVE  \E cuts \in CutsUpTo(p) : CostUpTo(cuts, p) <= least[p]
      OBVIOUS
    <2>1. CASE p = 0
      <3>1. {0} \in CutsUpTo(p) /\ {0} \ {p} = {}
        BY <2>1 DEF CutsUpTo
      <3>2. CostUpTo({0}, p) = 0
        BY <3>1, SumOfNone DEF CostUpTo
      <3> QED
        BY <1>1, <2>1, <3>1, <3>2
    <2>2. CASE p # 0
      <3>1. p \in 1 .. length /\ EndsWith(p) /\ ending[p] \in matches \cup {NoMatch}
        BY <1>1, <2>2 DEF Solved
      <3>2. PICK i \in 0 .. p - 1 : \E c \in Costs(i, p) : least[p] = least[i] + c
        <4>1. CASE ending[p] = NoMatch
          <5>1. least[p] = least[p - 1] + bits * (p - (p - 1))
            BY <3>1, <4>1 DEF EndsWith, GapCosts
          <5>2. bits * (p - (p - 1)) \in Costs(p - 1, p) /\ p - 1 \in 0 .. p - 1
            BY <3>1 DEF Costs
          <5> QED
            BY <5>1, <5>2
        <4>2. CASE ending[p] # NoMatch
          <5> DEFINE m == ending[p]
          <5>1. m \in matches /\ m.j + 1 = p /\ least[m.j + 1] = least[m.i] + m.entropy
            BY <3>1, <4>2 DEF EndsWith, Explains
          <5>2. m.i \in Nat /\ m.j \in Nat /\ m.i <= m.j
            BY <1>1, <5>1, MatchFields
          <5>3. m.i \in 0 .. p - 1 /\ m.j = p - 1
            BY <5>1, <5>2
          <5>4. m.entropy \in Costs(m.i, p)
            BY <5>1, <5>3 DEF Costs
          <5> QED
            BY <5>1, <5>3, <5>4
        <4> QED
          BY <4>1, <4>2
      <3> PICK cost \in Costs(i, p) : least[p] = least[i] + cost
        BY <3>2
      <3>3. i \in Nat /\ i < p /\ i \in P /\ i <= length
        <4>1. i \in Nat /\ i < p /\ i <= length
          BY <1>1
        <4> HIDE DEF P
        <4> QED
          BY <1>2, <4>1
      <3>4. PICK cuts \in CutsUpTo(i) : CostUpTo(cuts, i) <= least[i]
        BY <3>3
      <3>5. PieceCost(i, p) <= cost /\ PieceCost(i, p) \in Nat /\ cost \in Nat
        <4>1. cost \in Nat
          BY <1>1, <3>2, <3>3, MatchFields DEF Costs
        <4> QED
          BY <1>1, <3>3, <4>1, PieceCostIsLeast
      <3>6. /\ cuts \cup {p} \in CutsUpTo(p)
            /\ CostUpTo(cuts \cup {p}, p) = CostUpTo(cuts, i) + PieceCost(i, p)
        BY <1>1, <3>3, AddCut
      <3>7. CostUpTo(cuts, i) \in Nat /\ least[i] \in Nat
        BY <1>1, <3>3, PiecesAreNumbers
      <3>8. CostUpTo(cuts \cup {p}, p) <= least[p]
        BY <3>2, <3>4, <3>5, <3>6, <3>7
      <3> QED
        BY <3>6, <3>8
    <2> QED
      BY <2>1, <2>2
  <1>3. \A p \in Nat : p \in P
    <2> HIDE DEF P
    <2> QED
      BY <1>2, StrongSetInduction
  <1> QED
    BY <1>1, <1>3

LEMMA AllCutsAreCuts ==
    ASSUME length \in Nat
    PROVE  AllCuts = CutsUpTo(length)
  <1>1. ASSUME NEW cuts \in CutsUpTo(length)
        PROVE  cuts \in AllCuts
    <2> DEFINE inner == cuts \cap (1 .. length - 1)
    <2>1. /\ 0 \in cuts /\ length \in cuts
          /\ \A c \in cuts : c \in Nat /\ c <= length
      BY CutsArePositions
    <2>2. \A c \in cuts : c \in inner \/ c = 0 \/ c = length
      BY <2>1
    <2>3. cuts = inner \cup {0, length}
      BY <2>1, <2>2
    <2>4. inner \in SUBSET (1 .. length - 1)
      OBVIOUS
    <2> HIDE DEF inner
    <2> QED
      BY <2>3, <2>4 DEF AllCuts
  <1>2. ASSUME NEW inner \in SUBSET (1 .. length - 1)
        PROVE  inner \cup {0, length} \in CutsUpTo(length)
    <2>1. \A c \in inner \cup {0, length} : c \in 0 .. length
      OBVIOUS
    <2> QED
      BY <2>1 DEF CutsUpTo
  <1>3. AllCuts \subseteq CutsUpTo(length)
    BY <1>2 DEF AllCuts
  <1> QED
    BY <1>1, <1>3

LEMMA SolutionIsLeast ==
    ASSUME Solved
    PROVE  least[length] = LeastEntropy
  <1> DEFINE S == {CutCost(cuts) : cuts \in AllCuts}
  <1>1. Inputs /\ length \in Nat /\ least[length] \in Nat
    BY DEF Solved, Inputs
  <1>2. AllCuts = CutsUpTo(length)
    BY <1>1, AllCutsAreCuts
  <1>3. \A cuts : CutCost(cuts) = CostUpTo(cuts, length)
    BY DEF CutCost, CostUpTo, PiecesOf
  <1>4. \A cuts \in AllCuts : CutCost(cuts) \in Nat /\ least[length] <= CutCost(cuts)
    BY <1>1, <1>2, <1>3, PiecesAreNumbers, NoCutIsCheaper
  <1>5. PICK cuts \in AllCuts : CutCost(cuts) <= least[length]
    BY <1>2, <1>3, SomeCutCosts
  <1>6. CutCost(cuts) = least[length]
    BY <1>1, <1>4, <1>5
  <1>7. S \subseteq Nat /\ least[length] \in S /\ \A x \in S : least[length] <= x
    BY <1>4, <1>6
  <1> HIDE DEF S
  <1>8. Min(S) = least[length]
    BY <1>7, MinIs
  <1> QED
    BY <1>8 DEF LeastEntropy, S

(* When the loops are through, the last of the entropies is what the cheapest way to
   cut the password into matches and brute force costs, of all ways there are. *)
THEOREM EntropyIsLeast == EntropySpec => [](phase = "done" => least[length] = LeastEntropy)
  <1>1. IInv => (phase = "done" => least[length] = LeastEntropy)
    <2> SUFFICES ASSUME IInv, phase = "done" PROVE least[length] = LeastEntropy
      OBVIOUS
    <2>1. Solved
      BY DEF IInv, Types, FoundTypes, Scanned, EndsAreExplained, Solved
    <2> QED
      BY <2>1, SolutionIsLeast
  <1> QED
    BY Inductive, <1>1, PTL

-----------------------------------------------------------------------------
(* The loops end: no password and no matches make a turn that gets nowhere. *)

(* More turns than this are not to come. *)
TurnsLeft ==
    CASE phase = "scan" -> length - pos + 2 * length + 3
      [] phase = "walk" -> 2 * pos + Len(path) + 2
      [] phase = "fill" -> Len(path) + 1
      [] phase = "done" -> 0

LEMMA TurnsAreNumbers == ASSUME IInv PROVE TurnsLeft \in Nat
  <1>1. length \in Nat /\ pos \in 0 .. length /\ Len(path) \in Nat
    BY LenProperties DEF IInv, Types, Inputs
  <1> QED
    BY <1>1 DEF IInv, Types, TurnsLeft

LEMMA LoopsEnd == ASSUME IInv, Compute PROVE TurnsLeft' < TurnsLeft
  <1>1. /\ length \in Nat /\ pos \in 0 .. length
        /\ path \in Seq(matches) /\ Len(path) \in Nat /\ (path = <<>> <=> Len(path) = 0)
    BY LenProperties, EmptySeq DEF IInv, Types, Inputs
  <1>2. CASE Scan
    <2>1. phase = "scan" /\ phase' = "scan" /\ pos' = pos + 1 /\ length' = length
      BY <1>2 DEF Scan, inputVars
    <2> QED
      BY <1>1, <2>1 DEF TurnsLeft
  <1>3. CASE ScanEnds
    <2>1. /\ phase = "scan" /\ phase' = "walk" /\ pos' = length /\ pos = length
          /\ path' = <<>>
      BY <1>3 DEF ScanEnds, IInv
    <2> QED
      BY <1>1, <2>1 DEF TurnsLeft
  <1>4. CASE Walk
    <2>1. phase = "walk" /\ phase' = "walk" /\ pos \in 1 .. length
      BY <1>1, <1>4 DEF Walk
    <2>2. EndsWith(pos) /\ ending[pos] \in matches \cup {NoMatch} /\ matches \subseteq Matches
      BY <2>1 DEF IInv, Types, Inputs, FoundTypes, Scanned, EndsAreExplained
    <2>3. CASE ending[pos] # NoMatch
      <3>1. path' = <<ending[pos]>> \o path /\ pos' = ending[pos].i
        BY <1>4, <2>3 DEF Walk
      <3>2. ending[pos].i \in Nat /\ ending[pos].i < pos
        BY <2>1, <2>2, <2>3, MatchFields DEF EndsWith
      <3>3. Len(path') = Len(path) + 1
        BY <1>1, <2>2, <2>3, <3>1
      <3> QED
        BY <1>1, <2>1, <3>1, <3>2, <3>3 DEF TurnsLeft
    <2>4. CASE ending[pos] = NoMatch
      <3>1. path' = path /\ pos' = pos - 1
        BY <1>4, <2>4 DEF Walk
      <3> QED
        BY <1>1, <2>1, <3>1 DEF TurnsLeft
    <2> QED
      BY <2>3, <2>4
  <1>5. CASE WalkEnds
    <2>1. phase = "walk" /\ phase' = "fill" /\ pos = 0 /\ path' = path
      BY <1>5 DEF WalkEnds
    <2> QED
      BY <1>1, <2>1 DEF TurnsLeft
  <1>6. CASE Fill
    <2>1. phase = "fill" /\ phase' = "fill" /\ path # <<>> /\ path' = Tail(path)
      BY <1>6 DEF Fill
    <2>2. Len(path') = Len(path) - 1
      BY <1>1, <2>1
    <2> QED
      BY <1>1, <2>1, <2>2 DEF TurnsLeft
  <1>7. CASE FillEnds
    <2>1. phase = "fill" /\ phase' = "done"
      BY <1>7 DEF FillEnds
    <2> QED
      BY <1>1, <2>1 DEF TurnsLeft
  <1> QED
    BY <1>2, <1>3, <1>4, <1>5, <1>6, <1>7 DEF Compute

(* Each turn of the loops of minimum_entropy_match_sequence leaves fewer of them to
   come: a walk back over a match begins before where the match ended. *)
THEOREM EveryTurnShortens ==
    EntropySpec => [][Compute => TurnsLeft \in Nat /\ TurnsLeft' < TurnsLeft]_entropyVars
  <1>1. IInv /\ [EntropyNext]_entropyVars =>
            [Compute => TurnsLeft \in Nat /\ TurnsLeft' < TurnsLeft]_entropyVars
    BY TurnsAreNumbers, LoopsEnd
  <1> QED
    BY Inductive, <1>1, PTL DEF EntropySpec

(* Where the scan is not at its end, there is a turn for it to take: it finds a match
   that is cheapest, or that none is cheaper than one character more.  (The other
   loops have their turn by the form of their guards.) *)
ScanFinds ==
    \/ \E m \in EndingHere : /\ CostWith(m) < CostWithout
                             /\ \A other \in EndingHere : CostWith(m) <= CostWith(other)
    \/ \A m \in EndingHere : CostWith(m) >= CostWithout

THEOREM ScanGoesOn == EntropySpec => [](phase = "scan" /\ pos < length => ScanFinds)
  <1>1. ASSUME IInv, phase = "scan", pos < length PROVE ScanFinds
    <2>1. /\ length \in Nat /\ bits \in Nat /\ matches \subseteq Matches /\ pos \in 0 .. length
          /\ least \in [0 .. pos -> Nat]
      BY <1>1 DEF IInv, Types, Inputs, FoundTypes, Scanned
    <2>2. CostWithout \in Nat /\ \A m \in EndingHere : CostWith(m) \in Nat
      BY <2>1, MatchFields DEF EndingHere, CostWith, CostWithout
    <2>3. CASE EndingHere = {}
      BY <2>3 DEF ScanFinds
    <2>4. CASE EndingHere # {}
      <3> DEFINE AllCosts == {CostWith(m) : m \in EndingHere}
      <3>1. PICK n \in AllCosts : \A k \in AllCosts : n <= k
        BY <2>2, <2>4, LeastElement
      <3>2. PICK m \in EndingHere : n = CostWith(m)
        BY <3>1
      <3>3. \A other \in EndingHere : CostWith(m) <= CostWith(other)
        BY <3>1, <3>2
      <3>4. CASE CostWith(m) < CostWithout
        BY <3>2, <3>3, <3>4 DEF ScanFinds
      <3>5. CASE ~(CostWith(m) < CostWithout)
        <4>1. \A other \in EndingHere : CostWith(other) >= CostWithout
          BY <2>2, <3>2, <3>3, <3>5
        <4> QED
          BY <4>1 DEF ScanFinds
      <3> QED
        BY <3>4, <3>5
    <2> QED
      BY <2>3, <2>4
  <1> QED
    BY Inductive, <1>1, PTL
=============================================================================
