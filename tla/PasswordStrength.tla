-------------------------- MODULE PasswordStrength --------------------------
(***************************************************************************)
(* The field in which a new keyword or password is chosen                  *)
(* (CreateAccount.qml), and the box beside it that rates the text after    *)
(* each change: the field's handler runs the matchers of                   *)
(* password_strength.js over the text, then the loops of MinimumEntropy    *)
(* over what they found, and shows a word for the result.                  *)
(***************************************************************************)
EXTENDS MinimumEntropy, PasswordMatching

CONSTANTS
    Alphabets,    \* strings: the characters that are typed together
    MaxTyped,     \* how long a text is typed
    Pasted        \* strings that are put into the empty field as a whole

ASSUME TypingIsBounded == MaxTyped \in Nat

(* True of any strings, but nothing that a proof knows. *)
ASSUME StringsHaveLengths == \A string \in Pasted : Len(string) \in Nat

VARIABLES
    text,    \* of the field
    box      \* what the FloatingStatusBox says

fieldVars == <<text, box>>
vars == <<entropyVars, fieldVars>>

Ratings == {"Weak", "Medium", "Strong"}

Init ==
    /\ EntropyInit
    /\ text = <<>>
    /\ box = "hidden"

-----------------------------------------------------------------------------
(* onTextChanged hides the box, and then checks the text. *)
TextChanged(new) ==
    /\ box # "checking"
    /\ text' = new
    /\ box' = "checking"
    /\ Begin
    /\ length' = Len(new)
    /\ bits' = BruteForceBits(new)
    /\ matches' = Omnimatch(new)

Type ==
    /\ Len(text) < MaxTyped
    /\ \E alphabet \in Alphabets : \E c \in Range(Chars(alphabet)) :
           /\ Range(text) \subseteq Range(Chars(alphabet))
           /\ TextChanged(Append(text, c))

Erase ==
    /\ text # <<>>
    /\ TextChanged(Front(text))

Paste ==
    /\ text = <<>>
    /\ \E string \in Pasted : TextChanged(Chars(string))

(* checkPasswordStrength shows the score. *)
Show ==
    /\ box = "checking" /\ phase = "done"
    /\ box' = ScoreText(least[length])
    /\ UNCHANGED <<entropyVars, text>>

(* A tab or the button hides the box, and what is shown for another field takes it
   away.  resetFields empties the text as well: an Erase, its check and Hide. *)
Hide ==
    /\ box \in Ratings
    /\ box' = "hidden"
    /\ UNCHANGED <<entropyVars, text>>

Check == (Compute /\ UNCHANGED fieldVars) \/ Show

Next == Type \/ Erase \/ Paste \/ Hide \/ Check

(* The handler runs through. *)
Spec == Init /\ [][Next]_vars /\ WF_vars(Check)

-----------------------------------------------------------------------------
TypeOK ==
    /\ EntropyTypeOK
    /\ length = Len(text)
    /\ box \in {"hidden", "checking"} \cup Ratings

(* What the box says of the text beside it is right, after however many changes:
   no other way to cut the text up gives it another strength. *)
ShownStrengthIsRight ==
    box \in Ratings => box = ScoreText(LeastEntropy)

(* A text reads as a word when each character is the letter in that place, large
   or small, or stands in for it: the same one for the same letter, and for no
   other letter.  A word that has such characters itself is read in plain only:
   in l33t, each of them has to mean a letter. *)
ReadsAs(word) ==
    LET meansLetter(p) ==
            \/ text[p] = word[p]
            \/ text[p] \in DOMAIN SmallLetter /\ SmallLetter[text[p]] = word[p]
        isLeet(p) == \E entry \in Range(Leet) : entry[1] = word[p] /\ text[p] \in entry[2]
        disguised == {p \in DOMAIN text : ~meansLetter(p)}
    IN  /\ Len(text) = Len(word)
        /\ \A p \in disguised : isLeet(p)
        /\ \A p, q \in disguised : text[p] = text[q] <=> word[p] = word[q]
        /\ disguised # {} => Range(word) \cap LeetCharacters = {}

(* What disguises may add to the entropy of a word: a bit for each character for
   capitals, and another one for l33t. *)
DisguiseBits ==
    LET hasAny(set) == IF Range(text) \cap set # {} THEN 1 ELSE 0
    IN  Bit * Len(text) * (hasAny(DOMAIN Upper) + hasAny(LeetCharacters))

(* A word of the lists is weak in plain, and however it is disguised by capitals and
   by l33t that is used consistently, if its rank leaves room for that: of the ways
   in which the l33t characters can be meant, one that takes each to mean the letter
   it stands for is among those that are tried. *)
CommonWordsAreWeak ==
    box \in Ratings =>
        \A ranks \in Dictionaries : \A word \in DOMAIN ranks :
            ReadsAs(word) /\ Lg(ranks[word]) + DisguiseBits < MediumFrom => box = "Weak"

(* Four characters or more that follow each other, up or down, are found as a
   sequence, but for the first of them, which may belong to what is before.  Lost
   is one that goes down to the first of its space at the end of the text: its
   match has an end behind the text. *)
SequencesAreFound ==
    phase = "done" =>
        \A space \in Spaces, step \in {1, -1}, run \in Spans(text) :
            LET i == run[1]
                j == run[2]
                index(p) == space[At(text, p)]
            IN  /\ j - i >= 3
                /\ \A p \in i .. j : At(text, p) \in DOMAIN space
                /\ \A p \in i + 1 .. j : index(p) - index(p - 1) = step
                /\ j < Len(text) - 1 =>
                       ~(At(text, j + 1) \in DOMAIN space /\ index(j + 1) - index(j) = step)
                /\ ~(step = -1 /\ index(j) = 0 /\ j = Len(text) - 1)
                => \E m \in matches :
                       m.pattern = "sequence" /\ m.i <= i + 1 /\ j <= m.j /\ m.j < Len(text)

(* The check comes to an end, and the box is shown. *)
CheckIsShown == box = "checking" ~> box \in Ratings
=============================================================================
