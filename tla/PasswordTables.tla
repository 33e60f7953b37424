--------------------------- MODULE PasswordTables ---------------------------
(***************************************************************************)
(* The data of password_strength.js.  The keyboards are whole, as the rows *)
(* of keys from which the code's tables of neighbours are computed again.  *)
(* Of the five frequency lists, which have 85088 words, there are those    *)
(* that can be read in the texts of MCPasswordStrength, with their ranks.  *)
(***************************************************************************)
EXTENDS Integers, Sequences

(* The characters of a string. *)
Chars(string) == [p \in 1 .. Len(string) |-> SubSeq(string, p, p)]

-----------------------------------------------------------------------------
(* Rows of keys from the upper left on; a key is what it types, without and
   with shift.  "" is a place without a key, and a tab stands for the grave accent,
   which strings cannot hold here. *)

QwertyRows == <<
    <<"\t~", "1!", "2@", "3#", "4$", "5%", "6^", "7&", "8*", "9(", "0)", "-_", "=+">>,
    <<"", "qQ", "wW", "eE", "rR", "tT", "yY", "uU", "iI", "oO", "pP", "[{", "]}", "\\|">>,
    <<"", "aA", "sS", "dD", "fF", "gG", "hH", "jJ", "kK", "lL", ";:", "'\"">>,
    <<"", "zZ", "xX", "cC", "vV", "bB", "nN", "mM", ",<", ".>", "/?">> >>

DvorakRows == <<
    <<"\t~", "1!", "2@", "3#", "4$", "5%", "6^", "7&", "8*", "9(", "0)", "[{", "]}">>,
    <<"", "'\"", ",<", ".>", "pP", "yY", "fF", "gG", "cC", "rR", "lL", "/?", "=+", "\\|">>,
    <<"", "aA", "oO", "eE", "uU", "iI", "dD", "hH", "tT", "nN", "sS", "-_">>,
    <<"", ";:", "qQ", "jJ", "kK", "xX", "bB", "mM", "wW", "vV", "zZ">> >>

KeypadRows == <<
    <<"", "/", "*", "-">>, <<"7", "8", "9", "+">>, <<"4", "5", "6">>,
    <<"1", "2", "3">>, <<"", "0", ".">> >>

MacKeypadRows == <<
    <<"", "=", "/", "*">>, <<"7", "8", "9", "-">>, <<"4", "5", "6", "+">>,
    <<"1", "2", "3">>, <<"", "0", ".">> >>

(* Where the neighbours of a key lie, as <<across, down>>, in the order of the
   tables: with rows that are shifted by half a key, and with straight ones. *)
Slanted == << <<-1, 0>>, <<0, -1>>, <<1, -1>>, <<1, 0>>, <<0, 1>>, <<-1, 1>> >>

Aligned == << <<-1, 0>>, <<-1, -1>>, <<0, -1>>, <<1, -1>>,
              <<1, 0>>, <<1, 1>>, <<0, 1>>, <<-1, 1>> >>

-----------------------------------------------------------------------------
(* What l33t characters stand in for, in the order of the code's table. *)
Leet == <<
    <<"a", {"4", "@"}>>, <<"b", {"8"}>>, <<"c", {"(", "{", "[", "<"}>>, <<"e", {"3"}>>,
    <<"g", {"6", "9"}>>, <<"i", {"1", "!", "|"}>>, <<"l", {"1", "|", "7"}>>, <<"o", {"0"}>>,
    <<"s", {"$", "5"}>>, <<"t", {"+", "7"}>>, <<"x", {"%"}>>, <<"z", {"2"}>> >>

(* The frequency lists, as pairs of a word and its rank. *)

Passwords == {
    <<"password", 1>>, <<"qwerty", 5>>, <<"dragon", 7>>, <<"2000", 19>>,
    <<"pass", 35>>, <<"1111", 67>>, <<"banana", 136>>, <<"4444", 316>>,
    <<"11111", 342>>, <<"qwert", 358>>, <<"passw0rd", 416>>, <<"aaaa", 428>>,
    <<"4321", 458>>, <<"9999", 576>>, <<"qwerty1", 593>>, <<"abcd", 612>>,
    <<"qwer", 655>>, <<"aaaaa", 947>>, <<"1999", 1049>>, <<"qqqq", 1505>>,
    <<"bbbb", 1641>>, <<"assword", 1666>>, <<"dddd", 1670>>,
    <<"qwertyu", 1799>>, <<"sword", 1854>>, <<"gggg", 1930>>,
    <<"bbbbb", 2002>>, <<"ddddd", 2082>>, <<"cccc", 2114>>, <<"741852", 2142>>,
    <<"ssss", 2160>>, <<"99999", 2166>>, <<"1919", 2278>>, <<"iiii", 2355>>,
    <<"wwww", 2377>>, <<"eeee", 2399>>, <<"ggggg", 2530>>, <<"ccccc", 2550>>,
    <<"sssss", 2565>>, <<"llll", 2626>>, <<"iiiii", 2725>>,
    <<"passwor", 2748>>, <<"qqqqq", 2807>>, <<"eeeee", 2945>>,
    <<"lllll", 2986>>, <<"cafc91", 3224>>, <<"wwwww", 3288>>,
    <<"44444", 3655>>, <<"wert", 3855>>, <<"baba", 4055>>, <<"1231", 4393>>,
    <<"1991", 4541>>, <<"caca", 4877>>, <<"dada", 6103>>, <<"abba", 6585>>,
    <<"acdc", 6587>>, <<"1911", 6999>>}

English == {
    <<"i", 2>>, <<"a", 5>>, <<"on", 26>>, <<"we", 29>>, <<"go", 57>>,
    <<"as", 71>>, <<"or", 92>>, <<"an", 102>>, <<"bad", 214>>, <<"dad", 220>>,
    <<"dr", 363>>, <<"ago", 404>>, <<"word", 419>>, <<"lie", 566>>,
    <<"ass", 611>>, <<"add", 1469>>, <<"drag", 1598>>, <<"cab", 1694>>,
    <<"ill", 2139>>, <<"gig", 2657>>, <<"zoo", 2892>>, <<"mill", 3763>>,
    <<"ooo", 3952>>, <<"wee", 4177>>, <<"eww", 4429>>, <<"rag", 4745>>,
    <<"iii", 7713>>, <<"ban", 8329>>, <<"pas", 9120>>, <<"mil", 9129>>,
    <<"dab", 10177>>, <<"ewww", 10291>>, <<"eee", 11221>>, <<"cdc", 11428>>,
    <<"caf", 11433>>, <<"abc", 12262>>, <<"gon", 13161>>, <<"ewwww", 22345>>,
    <<"weee", 24957>>, <<"badda", 26269>>, <<"bada", 26270>>,
    <<"eeew", 27533>>, <<"anan", 30012>>, <<"wewe", 30156>>, <<"eeww", 31865>>,
    <<"baaad", 32402>>}

MaleNames == {
    <<"ed", 333>>, <<"al", 378>>, <<"ty", 556>>, <<"asa", 937>>}

FemaleNames == {
    <<"ana", 180>>, <<"ada", 306>>, <<"nan", 961>>, <<"lai", 1792>>,
    <<"gigi", 1972>>, <<"nana", 2421>>, <<"wei", 2677>>, <<"tai", 2832>>}

Surnames == {
    <<"miller", 7>>, <<"baca", 1177>>, <<"babb", 1607>>, <<"sass", 6716>>,
    <<"abad", 8197>>, <<"drago", 12964>>, <<"caba", 15124>>,
    <<"ragon", 18392>>, <<"rago", 22588>>, <<"cada", 23100>>,
    <<"dadd", 25006>>, <<"mille", 28419>>, <<"saas", 29746>>,
    <<"laib", 30218>>, <<"ille", 30345>>, <<"bacca", 31011>>}

=============================================================================
