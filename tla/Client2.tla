------------------------------ MODULE Client2 ------------------------------
(***************************************************************************)
(* The second client, src/src/client2, as a receiver of events.  It drops  *)
(* whatever it was showing when the NEW_GAME of another game reaches it,   *)
(* and after GAME_OVER waits for the event that would come next.           *)
(***************************************************************************)
EXTENDS Dissemination

VARIABLES
    game_id,                    \* 0 before the first game
    next_expected_event_no,
    screen                      \* the events forwarded since the last NEW_GAME

clientVars == <<game_id, next_expected_event_no, screen>>

vars == <<serverVars, netVars, clientVars>>

Init ==
    /\ DisInit
    /\ game_id = 0
    /\ next_expected_event_no = 0
    /\ screen = <<>>

\* send_to_game(): every 30 ms.
SendToGame ==
    /\ Report(next_expected_event_no)
    /\ UNCHANGED clientVars

\* Fault: events of another game are taken when their number fits.
AnyGame(d) == d.from \in {0, next_expected_event_no}

\* process_event(): NEW_GAME of another game is always taken, other events
\* only from the game that is followed and in order.
IsExpected(d) ==
    IF d.game = game_id THEN d.from = next_expected_event_no
                        ELSE d.from = 0

\* receive_from_game(): process_event() goes through the whole datagram.  Its
\* events are taken to pass the checks of the functions for their kinds.
ReceiveFromGame(d) ==
    /\ Deliver(d)
    /\ IsExpected(d)
    /\ game_id' = d.game
    /\ next_expected_event_no' = d.to + 1
    /\ screen' = IF d.from = 0 THEN EventsOf(d) ELSE screen \o EventsOf(d)

Reject(d) ==
    /\ Deliver(d)
    /\ ~IsExpected(d)
    /\ UNCHANGED clientVars

ClientNext ==
    \/ SendToGame
    \/ \E d \in toClient : ReceiveFromGame(d) \/ Reject(d)

Next ==
    \/ ServerNext /\ UNCHANGED clientVars
    \/ ClientNext

Spec == Init /\ [][Next]_vars

\* As in module Client.
Fairness ==
    /\ WF_vars(AddGameOver /\ UNCHANGED clientVars)
    /\ WF_vars(SendToGame /\ toServer' = {next_expected_event_no})
    /\ SF_vars(/\ Answer(next_expected_event_no)
               /\ isConnected => \E d \in toClient' : IsExpected(d)
               /\ UNCHANGED clientVars)
    /\ SF_vars(\E d \in toClient : ReceiveFromGame(d))
    /\ <>[][~Disconnect]_vars

FairSpec == Spec /\ Fairness

-----------------------------------------------------------------------------
(* Properties *)

\* Every variable keeps its type.
TypeOK ==
    /\ DisTypeOK
    /\ game_id \in 0..MaxGames
    /\ next_expected_event_no \in Number

\* The GUI gets beginnings of games, and never a second time the game it has
\* just shown.
Shown == INSTANCE Display WITH
    Game <- 1..MaxGames, ToTheEnd <- FALSE, Replays <- FALSE

ShowsBeginnings == Shown!Spec

\* The client waits for more of a game whose log the server has thrown away, or
\* for an event whose number the server misreads in the report.
Stranded ==
    \/ game_id \notin {0, game}
    \/ ~IsPlain(next_expected_event_no)

\* The last game is shown to its end, unless the client stays with an older
\* one, whose successor's NEW_GAME it never got, or has missed an event that
\* it cannot ask for, as it is read (client 2 itself reads numbers right).
SeenUnlessStranded ==
    \A g \in 1..MaxGames :
        <>[](game = g /\ ~gamePlayed /\ ~Stranded)
            => <>(Shown!Complete(screen) /\ screen[1].game = g)
=============================================================================
