-------------------------- MODULE PasswordMatching --------------------------
(***************************************************************************)
(* The matchers of password_strength.js: what each finds in a text, and    *)
(* what each of its matches costs.  A text is a sequence of characters;    *)
(* positions in it count from 0, and a match goes from i to j, both        *)
(* included.                                                               *)
(*                                                                         *)
(* Entropies are in 1024ths of a bit, and logarithms rounded down to them. *)
(***************************************************************************)
EXTENDS PasswordTables, SequencesExt, FiniteSetsExt, Combinatorics

(* The spaces of sequences, as indexOf has it: the index of each character. *)
Space(string) ==
    [c \in Range(Chars(string)) |-> SelectInSeq(Chars(string), LAMBDA d : d = c) - 1]

Lower == Space("abcdefghijklmnopqrstuvwxyz")
Upper == Space("ABCDEFGHIJKLMNOPQRSTUVWXYZ")
Digits == Space("01234567890")

IsLower(c) == c \in DOMAIN Lower
IsUpper(c) == c \in DOMAIN Upper
IsDigit(c) == c \in DOMAIN Digits
Symbols == Range(Chars(" !\"#$%&'()*+,-./:;<=>?@[\\]^_\t{|}~"))

At(text, p) == text[p + 1]

Slice(text, i, j) == SubSeq(text, i + 1, j + 1)

SmallLetter == [c \in DOMAIN Upper |-> CHOOSE d \in DOMAIN Lower : Lower[d] = Upper[c]]

LowerCase(text) ==
    [p \in DOMAIN text |-> IF IsUpper(text[p]) THEN SmallLetter[text[p]] ELSE text[p]]

Number(text) == FoldLeft(LAMBDA number, c : 10 * number + Digits[c], 0, text)

Count(text, Is(_)) == Quantify(DOMAIN text, LAMBDA p : Is(text[p]))

Positions(text) == 0 .. Len(text) - 1

Spans(text) == {s \in Positions(text) \X Positions(text) : s[1] <= s[2]}

-----------------------------------------------------------------------------
(* Logarithms, by squaring a mantissa of 14 binary places. *)

Bit == 1024

Whole(n) == CHOOSE e \in 0 .. 30 : 2 ^ e <= n /\ (e = 30 \/ n < 2 ^ (e + 1))

Mantissa(n) ==
    IF Whole(n) > 14 THEN n \div 2 ^ (Whole(n) - 14) ELSE n * 2 ^ (14 - Whole(n))

(* One binary place more, of <<mantissa, fraction>>. *)
Squared(binary) ==
    LET square == (binary[1] * binary[1]) \div 2 ^ 14
    IN  IF square >= 2 ^ 15 THEN <<square \div 2, 2 * binary[2] + 1>>
        ELSE <<square, 2 * binary[2]>>

Lg(n) ==
    LET binary[places \in 0 .. 10] ==
            IF places = 0 THEN <<Mantissa(n), 0>> ELSE Squared(binary[places - 1])
    IN  Bit * Whole(n) + binary[10][2]

(* The characters among which an attacker who uses brute force has to choose. *)
CardinalityOf(text) ==
    LET has(Is(_)) == \E c \in Range(text) : Is(c)
        isOther(c) == ~(IsDigit(c) \/ IsUpper(c) \/ IsLower(c) \/ c \in Symbols)
        isSymbol(c) == c \in Symbols
    IN  (IF has(IsDigit) THEN 10 ELSE 0) + (IF has(IsUpper) THEN 26 ELSE 0)
        + (IF has(IsLower) THEN 26 ELSE 0) + (IF has(isSymbol) THEN 33 ELSE 0)
        + (IF has(isOther) THEN 100 ELSE 0)

BruteForceBits(text) == IF text = <<>> THEN 0 ELSE Lg(CardinalityOf(text))

(* To choose which of a + b characters are of one kind, at most as many as are
   of the rarer kind. *)
Ways(a, b) ==
    LET chosen == 0 .. Min({a, b})
    IN  SumFunctionOnSet([k \in chosen |-> choose(a + b, k)], chosen)

-----------------------------------------------------------------------------
(* findall of a regular expression: of the candidates, the leftmost and there the
   longest, and then again from behind it. *)
Leftmost(candidates, text) ==
    LET from[p \in 0 .. Len(text)] ==
            LET here == {m \in candidates : m.i = p}
                longest == CHOOSE m \in here : \A other \in here : other.j <= m.j
            IN  IF p = Len(text) THEN {}
                ELSE IF here = {} THEN from[p + 1]
                ELSE {longest} \cup from[longest.j + 1]
    IN  from[0]

(* Where the text goes on from one character to the next, as far as it does. *)
MaximalRuns(text, GoesOn(_)) ==
    {s \in Spans(text) :
        /\ \A p \in s[1] + 1 .. s[2] : GoesOn(p)
        /\ s[1] > 0 => ~GoesOn(s[1])
        /\ s[2] + 1 < Len(text) => ~GoesOn(s[2] + 1)}

Span(i, j) == [i |-> i, j |-> j]

AreDigits(text, i, j) == \A p \in i .. j : IsDigit(At(text, p))

DigitSpans(text, lengths) ==
    Leftmost({Span(s[1], s[2]) : s \in {t \in Spans(text) :
                  t[2] - t[1] + 1 \in lengths /\ AreDigits(text, t[1], t[2])}}, text)

DigitMatches(text) ==
    {[pattern |-> "digits", i |-> s.i, j |-> s.j, entropy |-> (s.j - s.i + 1) * Lg(10)] :
        s \in DigitSpans(text, 3 .. Len(text))}

IsYear(year) == year \in 1900 .. 2019

YearSpans(text) ==
    {Span(s[1], s[2]) : s \in {t \in Spans(text) :
        /\ t[2] = t[1] + 3
        /\ AreDigits(text, t[1], t[2])
        /\ IsYear(Number(Slice(text, t[1], t[2])))}}

YearMatches(text) ==
    {[pattern |-> "year", i |-> s.i, j |-> s.j, entropy |-> Lg(119)] :
        s \in Leftmost(YearSpans(text), text)}

-----------------------------------------------------------------------------
(* Dates.  Years have four digits: where the code splits off two, what it gets is
   no year that it accepts. *)

(* check_date, which has a day and a month change places when that helps. *)
IsDate(day, month, year) ==
    LET swapped == month \in 12 .. 31 /\ day <= 12
    IN  /\ (IF swapped THEN month ELSE day) <= 31
        /\ (IF swapped THEN day ELSE month) <= 12
        /\ IsYear(year)

IsDayAndMonth(digits, year) ==
    \E k \in 1 .. 2 :
        /\ Len(digits) - k \in 1 .. 2
        /\ IsDate(Number(SubSeq(digits, 1, k)),
                  Number(SubSeq(digits, k + 1, Len(digits))), year)

(* date_without_sep_match: the year comes first or last. *)
IsDateWithoutSeparators(digits) ==
    LET n == Len(digits)
        first == SubSeq(digits, 1, 4)
        last == SubSeq(digits, n - 3, n)
    IN  n >= 6 /\ (\/ IsDayAndMonth(SubSeq(digits, 5, n), Number(first))
                   \/ IsDayAndMonth(SubSeq(digits, 1, n - 4), Number(last)))

Separators == {" ", "-", "/", "\\", "_", "."}

(* Three numbers of so many digits, with the same separator between them, that
   begin at i. *)
Separated(text, i, widths) ==
    LET ends == <<i + widths[1], i + widths[1] + 1 + widths[2]>>
        j == ends[2] + widths[3]
        number(k) == Number(Slice(text, IF k = 1 THEN i ELSE ends[k - 1] + 1,
                                  IF k = 3 THEN j ELSE ends[k] - 1))
    IN  IF /\ j < Len(text)
           /\ \A p \in i .. j : IF p \in Range(ends) THEN At(text, p) \in Separators
                                ELSE IsDigit(At(text, p))
           /\ At(text, ends[1]) = At(text, ends[2])
        THEN {[i |-> i, j |-> j, first |-> number(1), second |-> number(2), third |-> number(3)]}
        ELSE {}

(* The regular expressions take a year of two digits where there is none of four. *)
DayFirst(text) ==
    UNION {Separated(text, i, <<day, month, 2>>)
           \cup {s \in Separated(text, i, <<day, month, 4>>) : IsYear(s.third)} :
               i \in Positions(text), day \in 1 .. 2, month \in 1 .. 2}

YearFirst(text) ==
    UNION {Separated(text, i, <<2, month, day>>)
           \cup {s \in Separated(text, i, <<4, month, day>>) : IsYear(s.first)} :
               i \in Positions(text), day \in 1 .. 2, month \in 1 .. 2}

DateSpans(text) ==
    {s \in DigitSpans(text, 4 .. 8) : IsDateWithoutSeparators(Slice(text, s.i, s.j))}

SeparatedDates(text) ==
    {s \in Leftmost(DayFirst(text), text) : IsDate(s.first, s.second, s.third)}
    \cup {s \in Leftmost(YearFirst(text), text) : IsDate(s.third, s.second, s.first)}

DateEntropy == Lg(44268)

DateMatches(text) ==
    {[pattern |-> "date", i |-> s.i, j |-> s.j, entropy |-> DateEntropy] : s \in DateSpans(text)}
    \cup {[pattern |-> "date", i |-> s.i, j |-> s.j, entropy |-> DateEntropy + 2 * Bit] :
             s \in SeparatedDates(text)}

-----------------------------------------------------------------------------
(* Repetitions and sequences of characters. *)

RepeatMatches(text) ==
    {[pattern |-> "repeat", i |-> s[1], j |-> s[2],
      entropy |-> Lg(CardinalityOf(Slice(text, s[1], s[2])) * (s[2] - s[1] + 1))] :
        s \in {t \in MaximalRuns(text, LAMBDA p : At(text, p) = At(text, p - 1)) :
                  t[2] - t[1] + 1 > 2}}

Spaces == {Lower, Upper, Digits}

StepsUp == {1}     \* slip: what goes down is no sequence

Steps == {1, -1}

SequenceEntropy(token, step) ==
    LET start == CASE token[1] \in {"a", "1"} -> Bit
                   [] IsDigit(token[1]) -> Lg(10)
                   [] IsLower(token[1]) -> Lg(26)
                   [] OTHER -> Lg(26) + Bit
    IN  start + (IF step = 1 THEN 0 ELSE Bit) + Lg(Len(token))

(* What is not in the space has the index -1, and so has what lies behind the end
   where a sequence goes on: the second of a slice of one, undefined.  Where one
   begins it is charAt's "", whose index is 0; but what begins there with the last
   character has nothing behind it, and is too short to be kept. *)
Index(text, space, p) ==
    IF p < Len(text) /\ At(text, p) \in DOMAIN space THEN space[At(text, p)] ELSE -1

StepFrom(text, space, p) == Index(text, space, p + 1) - Index(text, space, p)

Begun(text, f) ==
    {space \in Spaces :
        /\ Index(text, space, f) > -1 /\ Index(text, space, f + 1) > -1
        /\ StepFrom(text, space, f) \in Steps}

(* A sequence goes on as long as the index of the characters in their space grows
   by the step: one that goes down to the first of its space takes in what is
   behind as well. *)
SequenceEnd(text, space, f) ==
    LET GoesOn(p) == StepFrom(text, space, p) = StepFrom(text, space, f)
    IN  CHOOSE g \in f + 2 .. Len(text) + 1 :
            (\A p \in f + 1 .. g - 2 : GoesOn(p)) /\ ~GoesOn(g - 1)

SequenceMatches(text) ==
    LET from[f \in 0 .. Len(text) + 1] ==
            LET space == CHOOSE s \in Begun(text, f) : TRUE
                g == SequenceEnd(text, space, f)
                token == Slice(text, f, Min({g, Len(text)}) - 1)
            IN  IF f >= Len(text) THEN {}
                ELSE IF Begun(text, f) = {} THEN from[f + 1]
                ELSE from[g] \cup
                     (IF g - f > 2
                      THEN {[pattern |-> "sequence", i |-> f, j |-> g - 1,
                             entropy |-> SequenceEntropy(token, StepFrom(text, space, f))]}
                      ELSE {})
    IN  from[0]

(* Facts about the tables, of which a proof can read no string. *)
ASSUME SpacesAreDisjoint ==
    /\ \A space \in Spaces : space \in [DOMAIN space -> Nat]
    /\ \A space, other \in Spaces : space # other => DOMAIN space \cap DOMAIN other = {}

-----------------------------------------------------------------------------
(* Walks on a keyboard. *)

(* For each character, the keys next to its own, in the order of the directions. *)
Graph(rows, directions) ==
    LET places == {k \in (1 .. 14) \X DOMAIN rows : k[1] \in DOMAIN rows[k[2]]}
        key(k) == IF k \in places THEN Chars(rows[k[2]][k[1]]) ELSE <<>>
        around(k) == [r \in DOMAIN directions |->
                         key(<<k[1] + directions[r][1], k[2] + directions[r][2]>>)]
    IN  [c \in UNION {Range(key(k)) : k \in places} |->
            around(CHOOSE k \in places : c \in Range(key(k)))]

Qwerty == Graph(QwertyRows, Slanted)
Dvorak == Graph(DvorakRows, Slanted)
Keypad == Graph(KeypadRows, Aligned)
MacKeypad == Graph(MacKeypadRows, Aligned)

(* In which of the directions the graph has character d next to c; 0 if in none. *)
Direction(graph, c, d) ==
    IF c \in DOMAIN graph THEN SelectInSeq(graph[c], LAMBDA key : d \in Range(key)) ELSE 0

NeedsShift(graph, c, d) ==
    LET key == graph[c][Direction(graph, c, d)]
    IN  Len(key) = 2 /\ d = key[2]

(* calc_average_degree, as the sum of the neighbours and the number of characters. *)
Degree(graph) ==
    <<MapThenSumSet(LAMBDA c : Quantify(DOMAIN graph[c], LAMBDA r : graph[c][r] # <<>>),
                    DOMAIN graph),
      Cardinality(DOMAIN graph)>>

QwertyDegree == Degree(Qwerty)
KeypadDegree == Degree(Keypad)

ASSUME KeysHaveNeighbours ==
    \A degree \in {QwertyDegree, KeypadDegree} :
        /\ degree \in Nat \X (Nat \ {0})
        /\ degree[1] >= degree[2]

(* The number of walks of up to so many characters, with up to so many turns, is
   the number of characters times this number of 1024ths. *)
WalksFromOne(degree, characters, turns) ==
    LET power[e \in Nat] == IF e = 0 THEN 1024 ELSE (power[e - 1] * degree[1]) \div degree[2]
        walks(c) == LET used == 1 .. Min({turns, c - 1})
                    IN  SumFunctionOnSet([e \in used |-> choose(c - 1, e - 1) * power[e]], used)
    IN  SumFunctionOnSet([c \in 2 .. characters |-> walks(c)], 2 .. characters)

SpatialEntropy(degree, characters, turns, shifted) ==
    Lg(degree[2]) + Lg(WalksFromOne(degree, characters, turns)) - 10 * Bit
    + (IF shifted = 0 THEN 0 ELSE Lg(Ways(shifted, characters - shifted)))

WalksOn(graph, degree, text) ==
    LET turn(p) == Direction(graph, At(text, p - 1), At(text, p))
        turns(i, j) == Quantify(i + 1 .. j, LAMBDA p : p = i + 1 \/ turn(p) # turn(p - 1))
        shifted(i, j) ==
            Quantify(i + 1 .. j, LAMBDA p : NeedsShift(graph, At(text, p - 1), At(text, p)))
    IN  {[pattern |-> "spatial", i |-> s[1], j |-> s[2],
          entropy |-> SpatialEntropy(degree, s[2] - s[1] + 1, turns(s[1], s[2]),
                                     shifted(s[1], s[2]))] :
            s \in {t \in MaximalRuns(text, LAMBDA p : turn(p) # 0) : t[2] - t[1] + 1 > 2}}

(* The degree of the one stands for both kinds of keyboards, and of keypads. *)
SpatialMatches(text) ==
    WalksOn(Qwerty, QwertyDegree, text) \cup WalksOn(Dvorak, QwertyDegree, text)
    \cup WalksOn(Keypad, KeypadDegree, text) \cup WalksOn(MacKeypad, KeypadDegree, text)

-----------------------------------------------------------------------------
(* Words, and words in l33t. *)

Ranks(list) ==
    [word \in {Chars(entry[1]) : entry \in list} |->
        (CHOOSE entry \in list : Chars(entry[1]) = word)[2]]

Dictionaries == {Ranks(list) : list \in {Passwords, English, MaleNames, FemaleNames, Surnames}}

(* Capital letters at the beginning, at the end or everywhere make one bit. *)
UppercaseEntropy(token) ==
    LET capitals == Count(token, IsUpper)
        small == Count(token, IsLower)
        n == Len(token)
        atAnEnd == n > 1 /\ capitals = 1 /\ (IsUpper(token[1]) \/ IsUpper(token[n]))
    IN  IF capitals = 0 THEN 0 ELSE IF atAnEnd \/ small = 0 THEN Bit ELSE Lg(Ways(capitals, small))

LeetCharacters == UNION {entry[2] : entry \in Range(Leet)}

(* enumerate_l33t_subs: which letter each l33t character may be meant for.  For
   each letter one of its characters is taken, even if the text has two. *)
Taken(sub, c, letter) == [d \in {c} \cup DOMAIN sub |-> IF d = c THEN letter ELSE sub[d]]

ExtensionsOverwrite(sub, c, letter) == {Taken(sub, c, letter)}     \* slip: the last one only

Extensions(sub, c, letter) ==
    IF c \in DOMAIN sub THEN {sub, Taken(sub, c, letter)} ELSE {Taken(sub, c, letter)}

Subs(text) ==
    LET after[k \in 0 .. Len(Leet)] ==
            LET used == Leet[k][2] \cap Range(text)
            IN  IF k = 0 THEN {<<>>}
                ELSE IF used = {} THEN after[k - 1]
                ELSE UNION {Extensions(sub, c, Leet[k][1]) : sub \in after[k - 1], c \in used}
    IN  after[Len(Leet)]

Translate(text, sub) ==
    [p \in DOMAIN text |-> IF text[p] \in DOMAIN sub THEN sub[text[p]] ELSE text[p]]

L33tEntropy(token, sub) ==
    LET used == DOMAIN sub \cap Range(token)
        number(c) == Count(token, LAMBDA d : d = c)
        ways == SumFunctionOnSet([c \in used |-> Ways(number(c), number(sub[c]))], used)
    IN  IF used = {} THEN 0 ELSE IF ways = 1 THEN Bit ELSE Lg(ways)

(* The words of a text in which the l33t characters of sub mean letters; with no
   substitution, those that are there in plain. *)
WordsMeant(text, sub) ==
    LET meant == LowerCase(Translate(text, sub))
        plain == LowerCase(text)
        inL33t(s) == sub = <<>> \/ Slice(plain, s[1], s[2]) # Slice(meant, s[1], s[2])
        entropy(token, rank) == Lg(rank) + UppercaseEntropy(token) + L33tEntropy(token, sub)
    IN  UNION {LET word == Slice(meant, s[1], s[2])
               IN  {[pattern |-> "dictionary", i |-> s[1], j |-> s[2],
                     entropy |-> entropy(Slice(text, s[1], s[2]), ranks[word])] :
                       ranks \in {r \in Dictionaries : word \in DOMAIN r}} :
                  s \in {t \in Spans(text) : inL33t(t)}}

DictionaryMatches(text) == UNION {WordsMeant(text, sub) : sub \in Subs(text) \cup {<<>>}}

(* What else is true of the tables. *)
ASSUME WordsAreInSmallLetters ==
    \A ranks \in Dictionaries : \A word \in DOMAIN ranks :
        /\ Len(word) \in Nat \ {0}
        /\ DOMAIN word = 1 .. Len(word)
        /\ \A p \in DOMAIN word : ~IsUpper(word[p])

ASSUME CapitalsAreCapitals == DOMAIN Upper \cap (DOMAIN Lower \cup LeetCharacters) = {}

-----------------------------------------------------------------------------
Omnimatch(text) ==
    DictionaryMatches(text) \cup DigitMatches(text) \cup YearMatches(text)
    \cup DateMatches(text) \cup RepeatMatches(text) \cup SequenceMatches(text)
    \cup SpatialMatches(text)

(* The score is 0 or 1 below 2 * 10^8 guesses, 2 below 2 * 10^10, of which half are
   tried at 10^-4 seconds each. *)
MediumFrom == Lg(2 * 10 ^ 8)
StrongFrom == MediumFrom + 2 * Lg(10)

ScoreText(entropy) ==
    IF entropy < MediumFrom THEN "Weak" ELSE IF entropy < StrongFrom THEN "Medium" ELSE "Strong"
=============================================================================
