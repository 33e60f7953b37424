--------------------------- MODULE MinimumEntropy ---------------------------
(***************************************************************************)
(* The loops of minimum_entropy_match_sequence (the function 'ia' of       *)
(* password_strength.js): from the matches that were found in a password,  *)
(* and the entropy of a character that is part of none, it picks the       *)
(* matches that make the password cheapest, and fills the gaps between     *)
(* them with brute force.                                                  *)
(*                                                                         *)
(* Positions count from 0, and a match goes from its i to its j, both      *)
(* included, as in the code.  least[p] is the entropy of the first p       *)
(* characters (the code's k[p-1]) and ending[p] the match that ends there  *)
(* (d[p-1]).  One step is one turn of a loop:                              *)
(*   "scan"    for each end, the least entropy up to it                    *)
(*   "walk"    from the end back, the matches that made up that entropy    *)
(*   "fill"    from the beginning, gaps filled between those matches       *)
(*   "done"    the result is there                                         *)
(* Entropies are whole numbers, of some unit of a bit.                     *)
(***************************************************************************)
EXTENDS Integers, Sequences, FiniteSetsExt

Patterns == {"dictionary", "spatial", "repeat", "sequence", "digits", "year", "date"}

(* What the matchers find.  j may lie behind the end of the password. *)
Matches == {m \in [pattern : Patterns, i : Nat, j : Nat, entropy : Nat] : m.i <= m.j}

NoMatch == [pattern |-> "none"]

VARIABLES
    length,    \* of the password
    bits,      \* lg(C(password)): the entropy of a character by brute force
    matches,   \* what the matchers found in it
    phase,
    pos,       \* the f of the loop that runs
    least,     \* k
    ending,    \* d
    path,      \* the matches walked over and not yet filled between
    parts      \* the match_sequence

inputVars == <<length, bits, matches>>
foundVars == <<least, ending>>
entropyVars == <<inputVars, phase, pos, foundVars, path, parts>>

EntropyInit ==
    /\ length = 0
    /\ bits = 0
    /\ matches = {}
    /\ phase = "done"
    /\ pos = 0
    /\ least = [p \in {0} |-> 0]
    /\ ending = [p \in {} |-> NoMatch]
    /\ path = <<>>
    /\ parts = <<>>

BeginKeepsLeast ==     \* slip: k is not reset
    /\ phase = "done"
    /\ phase' = "scan"
    /\ pos' = 0
    /\ UNCHANGED least
    /\ ending' = [p \in {} |-> NoMatch]
    /\ path' = <<>>
    /\ parts' = <<>>

(* The locals, when a call begins. *)
Begin ==
    /\ phase = "done"
    /\ phase' = "scan"
    /\ pos' = 0
    /\ least' = [p \in {0} |-> 0]
    /\ ending' = [p \in {} |-> NoMatch]
    /\ path' = <<>>
    /\ parts' = <<>>

(* A call with any password; it is over before the next one begins. *)
Call ==
    /\ Begin
    /\ length' \in Nat
    /\ bits' \in Nat
    /\ matches' \in SUBSET Matches

-----------------------------------------------------------------------------
CostAlone(m) == m.entropy     \* slip: what is before the match not added

(* The entropy of the password up to the end of match m, if it ends with m. *)
CostWith(m) == least[m.i] + m.entropy

(* Up to pos, if the character there is part of no match. *)
CostWithout == least[pos] + bits

EndingHere == {m \in matches : m.j = pos}

Found(cost, m) ==
    /\ least' = [p \in 0 .. pos + 1 |-> IF p <= pos THEN least[p] ELSE cost]
    /\ ending' = [p \in 1 .. pos + 1 |-> IF p <= pos THEN ending[p] ELSE m]

(* A match counts only when it is cheaper, and the cheapest one counts; the
   order of matches that are alike is that of a sort that need not be stable. *)
ScanTakesAnyMatch ==      \* slip: a later match replaces a cheaper one
    \E m \in EndingHere : Found(CostWith(m), m)

ScanFindsMatch ==
    \E m \in EndingHere :
        /\ CostWith(m) < CostWithout
        /\ \A other \in EndingHere : CostWith(m) <= CostWith(other)
        /\ Found(CostWith(m), m)

ScanFindsNone ==
    /\ \A m \in EndingHere : CostWith(m) >= CostWithout
    /\ Found(CostWithout, NoMatch)

Scan ==
    /\ phase = "scan"
    /\ pos < length
    /\ ScanFindsMatch \/ ScanFindsNone
    /\ pos' = pos + 1
    /\ UNCHANGED <<inputVars, phase, path, parts>>

ScanEnds ==
    /\ phase = "scan"
    /\ pos = length
    /\ phase' = "walk"
    /\ UNCHANGED <<inputVars, pos, foundVars, path, parts>>

-----------------------------------------------------------------------------
WalkSkips ==     \* slip: f = h.i - 2 in the place of f = h.i - 1
    /\ phase = "walk"
    /\ pos > 0
    /\ \/ /\ ending[pos] # NoMatch
          /\ path' = <<ending[pos]>> \o path
          /\ pos' = IF ending[pos].i > 0 THEN ending[pos].i - 1 ELSE 0
       \/ /\ ending[pos] = NoMatch
          /\ pos' = pos - 1
          /\ UNCHANGED path
    /\ UNCHANGED <<inputVars, phase, foundVars, parts>>

WalkStays ==     \* slip: only a match moves it on
    /\ phase = "walk"
    /\ pos > 0
    /\ ending[pos] # NoMatch
    /\ path' = <<ending[pos]>> \o path
    /\ pos' = ending[pos].i
    /\ UNCHANGED <<inputVars, phase, foundVars, parts>>

Walk ==
    /\ phase = "walk"
    /\ pos > 0
    /\ \/ /\ ending[pos] # NoMatch
          /\ path' = <<ending[pos]>> \o path
          /\ pos' = ending[pos].i
       \/ /\ ending[pos] = NoMatch
          /\ pos' = pos - 1
          /\ UNCHANGED path
    /\ UNCHANGED <<inputVars, phase, foundVars, parts>>

WalkEnds ==
    /\ phase = "walk"
    /\ pos = 0
    /\ phase' = "fill"
    /\ UNCHANGED <<inputVars, pos, foundVars, path, parts>>

-----------------------------------------------------------------------------
(* make_bruteforce_match, from 'first' up to and without 'next'; for a gap of
   no character there is none. *)
Gap(first, next) ==
    IF first < next
    THEN <<[pattern |-> "bruteforce", i |-> first, j |-> next - 1,
            entropy |-> bits * (next - first)]>>
    ELSE <<>>

FillWithoutGap ==     \* slip: the match pushed, the gap before it not
    /\ phase = "fill"
    /\ path # <<>>
    /\ parts' = Append(parts, Head(path))
    /\ pos' = Head(path).j + 1
    /\ path' = Tail(path)
    /\ UNCHANGED <<inputVars, phase, foundVars>>

Fill ==
    /\ phase = "fill"
    /\ path # <<>>
    /\ parts' = parts \o Gap(pos, Head(path).i) \o <<Head(path)>>
    /\ pos' = Head(path).j + 1
    /\ path' = Tail(path)
    /\ UNCHANGED <<inputVars, phase, foundVars>>

FillEnds ==
    /\ phase = "fill"
    /\ path = <<>>
    /\ parts' = parts \o Gap(pos, length)
    /\ phase' = "done"
    /\ UNCHANGED <<inputVars, pos, foundVars, path>>

Compute == Scan \/ ScanEnds \/ Walk \/ WalkEnds \/ Fill \/ FillEnds

EntropyNext == Call \/ Compute

EntropySpec == EntropyInit /\ [][EntropyNext]_entropyVars

-----------------------------------------------------------------------------
Parts == [pattern : Patterns \cup {"bruteforce"}, i : Nat, j : Nat, entropy : Nat]

EntropyTypeOK ==
    /\ length \in Nat
    /\ bits \in Nat
    /\ matches \in SUBSET Matches
    /\ phase \in {"scan", "walk", "fill", "done"}
    /\ pos \in 0 .. length
    /\ \E scanned \in 0 .. length :
           /\ least \in [0 .. scanned -> Nat]
           /\ ending \in [1 .. scanned -> matches \cup {NoMatch}]
           /\ phase = "scan" => scanned = pos
           /\ phase # "scan" => scanned = length
    /\ path \in Seq(matches)
    /\ parts \in Seq(Parts)

(* No way to end the password, or any beginning of it, is cheaper than the one
   that was found: neither with a match that was found, nor with one character
   more.  So no choice of matches, however they lie, beats the result. *)
NoCheaperEnd ==
    \A p \in DOMAIN least \ {0} :
        /\ least[p] <= least[p - 1] + bits
        /\ \A m \in matches : m.j + 1 = p => least[p] <= least[m.i] + m.entropy

(* The match sequence covers the password from its first character to its last,
   each once. *)
PartsTile ==
    phase = "done" =>
        /\ (parts = <<>>) = (length = 0)
        /\ parts # <<>> => parts[1].i = 0 /\ parts[Len(parts)].j = length - 1
        /\ \A q \in 1 .. Len(parts) - 1 : parts[q + 1].i = parts[q].j + 1

(* Each part adds what it costs, and no more, to the least entropy; with
   PartsTile, the sequence explains the whole of it. *)
PartsExplainEntropy ==
    phase = "done" =>
        \A q \in 1 .. Len(parts) :
            least[parts[q].j + 1] = least[parts[q].i] + parts[q].entropy

-----------------------------------------------------------------------------
(* The least entropy, as what it is meant to be: of all ways to cut the password
   into pieces, the one whose pieces cost least together. *)

(* A piece, from i up to and without j, costs what it costs by brute force, or as one
   of the matches that it is as a whole. *)
PieceCost(i, j) ==
    Min({bits * (j - i)} \cup {m.entropy : m \in {n \in matches : n.i = i /\ n.j = j - 1}})

(* Each cut but the last begins a piece, which goes up to the next cut. *)
NextCut(cuts, i) == Min({c \in cuts : c > i})

CutCost(cuts) ==
    LET begins == cuts \ {length}
    IN  SumFunctionOnSet([i \in begins |-> PieceCost(i, NextCut(cuts, i))], begins)

AllCuts == {cuts \cup {0, length} : cuts \in SUBSET (1 .. length - 1)}

LeastEntropy == Min({CutCost(cuts) : cuts \in AllCuts})
=============================================================================
