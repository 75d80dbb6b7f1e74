---------------------------- MODULE MCCommandLine ----------------------------
(***************************************************************************)
(* Up to two options with texts at the limits.  Numbers of 64 and 32 bits  *)
(* have 20 and 18 here.                                                    *)
(***************************************************************************)
EXTENDS CommandLine

Plain(n) ==
    [space |-> FALSE, minus |-> FALSE, digits |-> n, clean |-> TRUE,
     length |-> 5, printable |-> TRUE]

Minus(n) == [Plain(n) EXCEPT !.minus = TRUE]

Numbers == {0, 1, 16, 90, 91, 250, 251, 4096, 65535, 65536, MaxSeed + 1,
            2 * Wide + 16, 2 * Wide - 256}

NumberTexts ==
    {Plain(n) : n \in Numbers \cup {None}}
    \cup {Minus(n) : n \in {None, 0, 1, 20, 2 * Wide - 256}}
    \cup {[Plain(20) EXCEPT !.space = TRUE, !.printable = FALSE],
          [Minus(20) EXCEPT !.space = TRUE, !.printable = FALSE],
          [Plain(20) EXCEPT !.clean = FALSE]}

NameTexts ==
    {[Plain(None) EXCEPT !.length = 0]}
    \cup {[Plain(None) EXCEPT !.clean = FALSE, !.length = k] : k \in {1, 20, 21}}
    \cup {[Plain(None) EXCEPT !.clean = FALSE, !.printable = FALSE]}

Opt(letter, t) == [letter |-> letter, text |-> t]

NumberOptions ==
    {Opt(l, t) : l \in {"p", "s", "t", "v", "w", "h", "r"}, t \in NumberTexts}

OtherOptions ==
    {Opt("n", t) : t \in NameTexts} \cup {Opt(l, Plain(None)) : l \in {"i", "?"}}

\* One of few, so that pairs stay manageable.
FewOptions ==
    {Opt(l, t) : l \in {"p", "v", "w", "r"},
                    t \in {Plain(1), Plain(90), Minus(20),
                           [Plain(20) EXCEPT !.space = TRUE, !.printable = FALSE]}}
    \cup OtherOptions

Options ==
    {<<>>} \cup {<<o>> : o \in NumberOptions}
    \cup {<<o>> : o \in OtherOptions}
    \cup {<<o, f>> : o \in NumberOptions \cup OtherOptions, f \in FewOptions}

MCCommandLines ==
    {[options |-> os, operands |-> k] : os \in Options, k \in 0..2}
=============================================================================
