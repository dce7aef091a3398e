---------------------------- MODULE MCInputDialog -----------------------------
(* Instances of InputDialog for TLC. *)
EXTENDS InputDialog

MCChar == 0 .. 9 \cup {Backslash, Underscore, Space}

\* A digit, so that 9, 99 and 999, which is beyond the mask, are typed, and a
\* backslash, which ends a number.
MCKeys == {Backslash, 9}

\* An empty text, one that fits in the line, and one that does not.
MCTexts == {<< >>, << Underscore >>, << 9, Backslash, 9 >>}

\* Numbers of two and three digits, one beyond the mask.
MCNumbers == {5, 119, 200}

\* StrDecimalToUintn reads the digits that follow the leading spaces, up to the
\* first other character, and nothing else.
ASSUME ReadsDecimals ==
  \A x \in 0 .. 999, pad \in {<< >>, << Space >>, << Space, Space >>},
     tail \in {<< >>, << Backslash, 7 >>, << Space, 7 >>} :
    StrDecimalToUintn(pad \o << x \div 100, (x \div 10) % 10, x % 10 >> \o tail) = x % Modulus
===============================================================================
