------------------------------ MODULE EventLog ------------------------------
(***************************************************************************)
(* What the server promises about the log of a game, and all that clients  *)
(* know of it: the log of a game opens with NEW_GAME, only ever grows at   *)
(* its end, is closed by GAME_OVER, and is thrown away only when the next  *)
(* game opens a log of its own.  Event number k is the log's (k+1)-st      *)
(* entry.                                                                  *)
(***************************************************************************)
EXTENDS Sequences

CONSTANTS
    GameId,     \* the ids the random generator may give a game
    Opening,    \* the NEW_GAME events
    Body,       \* the PIXEL and PLAYER_ELIMINATED events
    Closing     \* the GAME_OVER event

VARIABLES gamePlayed, gameId, events

logVars == <<gamePlayed, gameId, events>>

Init ==
    /\ gamePlayed = FALSE
    /\ gameId = 0
    /\ events = <<>>

Open ==
    /\ ~gamePlayed
    /\ gamePlayed' = TRUE
    /\ gameId' \in GameId
    /\ \E e \in Opening : events' = <<e>>

Extend ==
    /\ gamePlayed
    /\ \E e \in Body : events' = Append(events, e)
    /\ UNCHANGED <<gamePlayed, gameId>>

Close ==
    /\ gamePlayed
    /\ events' = Append(events, Closing)
    /\ gamePlayed' = FALSE
    /\ UNCHANGED gameId

Next == Open \/ Extend \/ Close

Spec == Init /\ [][Next]_logVars
=============================================================================
