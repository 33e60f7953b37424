------------------------- MODULE MCPasswordStrength -------------------------
(***************************************************************************)
(* Texts for PasswordStrength: all short ones of four sets of characters,  *)
(* that have in them sequences, years, l33t, or walks on the keyboard with *)
(* shift; and some that are longer, with their beginnings.                 *)
(***************************************************************************)
EXTENDS PasswordStrength

MCAlphabets == {"abcd", "19/", "as4$", "qWe!"}

MCPasted == {
    "banana", "b4n4n4", "Dragon", "DRAGON", "dRaGoN", "p4ssw0rd", "P4$$W0RD",
    "1/1/2000", "2000-31-12", "19991231", "1131999", "qwertyu", "QwErTy1", "741852",
    "edcba!", "bcdcba", "43210!", "cbcdef", "aQ1!e", "xk7!Rq2#", "c@fc91", "m1ller"}
=============================================================================
