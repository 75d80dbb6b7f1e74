------------------------------ MODULE Display ------------------------------
(***************************************************************************)
(* What a client owes the player who watches: the events that reach the    *)
(* GUI since the last NEW_GAME are the beginning of the log of one game,   *)
(* in order, without a gap or a repetition.                                *)
(***************************************************************************)
EXTENDS Naturals, Sequences

CONSTANTS
    Game,           \* the games there may be
    ToTheEnd,       \* TRUE: a showing is never left before its GAME_OVER
    Replays         \* TRUE: the game just shown may be shown again

VARIABLE screen     \* the events shown since the last NEW_GAME

Kind == {"new_game", "body", "game_over"}

\* s is the beginning of the log of game g.
Beginning(s, g) ==
    /\ s # <<>>
    /\ \A i \in 1..Len(s) :
           /\ s[i].game = g
           /\ s[i].no = i - 1
           /\ s[i].kind \in Kind
           /\ s[i].kind = "new_game" <=> i = 1
           /\ s[i].kind = "game_over" => i = Len(s)

Complete(s) == s # <<>> /\ s[Len(s)].kind = "game_over"

Init == screen = <<>>

Begin ==
    /\ ToTheEnd => screen = <<>> \/ Complete(screen)
    /\ \E g \in Game :
           /\ Beginning(screen', g)
           /\ ~Replays /\ screen # <<>> => screen[1].game # g

Continue ==
    /\ screen # <<>>
    /\ ~Complete(screen)
    /\ Len(screen') > Len(screen)
    /\ SubSeq(screen', 1, Len(screen)) = screen
    /\ \E g \in Game : Beginning(screen', g)

Next == Begin \/ Continue

Spec == Init /\ [][Next]_screen
=============================================================================
