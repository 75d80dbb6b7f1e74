------------------------------ MODULE MCScreen ------------------------------
(***************************************************************************)
(* Five games in the sizes of the code.  A byte has 64 values here, so a   *)
(* char is negative from 32 on.                                            *)
(***************************************************************************)
EXTENDS Wire

\* k dots of two worms in turn, on four places that lie a step apart.
Dots(k, step) ==
    [i \in 1..k |-> [kind |-> "PIXEL", player |-> (i - 1) % 2,
                     at |-> <<2 + step * (i % 4), 7>>]]

Eliminated(p) == <<[kind |-> "PLAYER_ELIMINATED", player |-> p]>>

\* Event 96 has, as client 1 reads it, number 32; a board that is misread.
LongGame ==
    [board |-> <<620, 30>>, lengths |-> <<1, 2>>,
     body |-> Dots(98, 150) \o Eliminated(1), turns |-> <<1, 30, 101>>]

\* NEW_GAME, 23 dots and an elimination fill a datagram to 550 bytes.
FullDatagram ==
    [board |-> <<30, 30>>, lengths |-> <<1, 2>>,
     body |-> Dots(23, 5) \o Eliminated(0), turns |-> <<1, 24, 26>>]

\* The length of NEW_GAME, 96, is misread as 32, where the second name ends.
LongNames ==
    [board |-> <<30, 30>>, lengths |-> <<8, 9, 15, 15, 15, 15>>,
     body |-> Dots(2, 5) \o Eliminated(5) \o Eliminated(3) \o Eliminated(4)
                \o Eliminated(0) \o Eliminated(2),
     turns |-> <<3, 9>>]

\* A short game that every reader reads right, with a dot at the edge of the
\* board; the third player does not fit into the list of the GUI.
ShortGame ==
    [board |-> <<18, 30>>, lengths |-> <<1, 1, 2>>,
     body |-> Dots(3, 5) \o Eliminated(2) \o Dots(2, 5) \o Eliminated(1),
     turns |-> <<1, 3, 5, 9>>]

\* The player in slot 2 starts on the square of the other one and is announced
\* as number 2, of which there is none.
MisplacedGame ==
    [board |-> <<30, 30>>, lengths |-> <<1, 2>>,
     body |-> Dots(1, 5) \o Eliminated(2), turns |-> <<4>>]

MCGames == <<LongGame, FullDatagram, LongNames, ShortGame, MisplacedGame>>
=============================================================================
