----------------------------- MODULE Characters -----------------------------
(***************************************************************************)
(* What the program's readers of patterns and of numbers make of a         *)
(* character.                                                              *)
(***************************************************************************)
EXTENDS Integers

\* The hexadecimal digits, of either case, with their values.
HexDigit ==
    LET digits == <<{"0"}, {"1"}, {"2"}, {"3"}, {"4"}, {"5"}, {"6"}, {"7"}, {"8"}, {"9"},
                    {"a", "A"}, {"b", "B"}, {"c", "C"}, {"d", "D"}, {"e", "E"}, {"f", "F"}>>
    IN  [c \in UNION {digits[k] : k \in 1 .. 16} |->
            (CHOOSE k \in 1 .. 16 : c \in digits[k]) - 1]
=============================================================================
