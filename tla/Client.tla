------------------------------- MODULE Client -------------------------------
(***************************************************************************)
(* The client of src/src/client/client.cpp as a receiver of events.  It    *)
(* forwards an event to the GUI when it is the one it waits for, and waits *)
(* for event 0 again when a game is over.  While it follows a game it      *)
(* ignores every other.  It reads numbers through signed chars, as the     *)
(* server does: with bytes of 256 values event 128 is not known for what   *)
(* it is, and event 384 is taken for it.                                   *)
(***************************************************************************)
EXTENDS Dissemination

VARIABLES
    following,              \* gamePlayed of the client
    gameId,                 \* the game it follows, or followed last
    nextExpectedEventNo,
    screen                  \* the events forwarded since the last NEW_GAME

clientVars == <<following, gameId, nextExpectedEventNo, screen>>

vars == <<serverVars, netVars, clientVars>>

Init ==
    /\ DisInit
    /\ following = FALSE
    /\ gameId = 0
    /\ nextExpectedEventNo = 0
    /\ screen = <<>>

\* checkSendMessageToGameServer(): every 30 ms.
CheckSendMessageToGameServer ==
    /\ Report(nextExpectedEventNo)
    /\ UNCHANGED clientVars

\* Fault: the game of the datagram is not compared.
AnyGame(d) == ReadAs[d.from] = nextExpectedEventNo

\* Events are taken one after the other from the first on, so a datagram is
\* of use only if that bears the number that is waited for.
IsExpected(d) ==
    /\ following => d.game = gameId
    /\ ReadAs[d.from] = nextExpectedEventNo

\* The loop takes events as long as their numbers count on.
Taken(d) ==
    {i \in d.from..d.to :
        \A j \in d.from..i : ReadAs[j] = nextExpectedEventNo + j - d.from}

\* What is taken of a datagram, as if it had brought no more.
TakenPart(d) ==
    [d EXCEPT !.to = Max(Taken(d)), !.over = @ /\ d.to \in Taken(d)]

Forward(d) ==
    screen' = IF d.from = 0 THEN EventsOf(d) ELSE screen \o EventsOf(d)

\* decodeMessageFromGameServer(): GAME_OVER makes the client wait for event 0,
\* the start of a game.  The functions for the kinds of events make the lines
\* for the GUI, which Forward stands for; events are taken to pass their checks.
DecodeMessageFromGameServer(d) ==
    /\ Deliver(d)
    /\ IsExpected(d)
    /\ gameId' = d.game
    /\ \E part \in {TakenPart(d)} :
           /\ following' = ~part.over
           /\ nextExpectedEventNo' =
                  IF part.over THEN 0
                  ELSE nextExpectedEventNo + part.to - part.from + 1
           /\ Forward(part)

Ignore(d) ==
    /\ Deliver(d)
    /\ ~IsExpected(d)
    /\ UNCHANGED clientVars

ClientNext ==
    \/ CheckSendMessageToGameServer
    \/ \E d \in toClient : DecodeMessageFromGameServer(d) \/ Ignore(d)

Next ==
    \/ ServerNext /\ UNCHANGED clientVars
    \/ ClientNext

Spec == Init /\ [][Next]_vars

(***************************************************************************)
(* A game goes on to its end; the client reports for ever, and the network *)
(* does not lose for ever what is sent again and again: the report, the    *)
(* datagram that answers it, its delivery.  A client that reports every    *)
(* 30 ms is in the end no longer thought gone, for that takes 2 s.         *)
(***************************************************************************)
Fairness ==
    /\ WF_vars(AddGameOver /\ UNCHANGED clientVars)
    /\ WF_vars(CheckSendMessageToGameServer
                   /\ toServer' = {nextExpectedEventNo})
    /\ SF_vars(/\ Answer(nextExpectedEventNo)
               /\ isConnected => \E d \in toClient' : IsExpected(d)
               /\ UNCHANGED clientVars)
    /\ SF_vars(\E d \in toClient : DecodeMessageFromGameServer(d))
    /\ <>[][~Disconnect]_vars

FairSpec == Spec /\ Fairness

-----------------------------------------------------------------------------
(* Properties *)

\* Every variable keeps its type.
TypeOK ==
    /\ DisTypeOK
    /\ following \in BOOLEAN
    /\ gameId \in 0..MaxGames
    /\ nextExpectedEventNo \in Number

Shown == INSTANCE Display WITH
    Game <- 1..MaxGames, ToTheEnd <- TRUE, Replays <- TRUE

\* An event of s was taken for another one.  That needs one whose number is
\* read as a smaller one: with bytes of 256 values, event 384 or a later one.
HasMistake(s) == \E i \in DOMAIN s : ReadAs[s[i].no] # s[i].no

\* Whatever the network does, the GUI gets the games from their beginning to
\* their end, one after the other.  Only what is shown of a game of more than
\* 384 events may have a gap, once an event was taken for another one.
ShowsWholeGames ==
    Shown!Init /\ [][Shown!Next \/ HasMistake(screen')]_screen

SeenToItsEnd(g) == Shown!Complete(screen) /\ screen[1].game = g

\* The client follows a game whose log the server has thrown away, or waits for
\* an event whose number is misread, by the server in the report and by itself
\* in the event: with bytes of 256 values, one of 128 to 255, 384 to 511, ...
Stranded ==
    \/ following /\ gameId # game
    \/ ~IsPlain(nextExpectedEventNo)

\* The last game is shown to its end, although everything may be lost many
\* times over and the client may have been in the middle of an older game:
\* only a client that stays stranded does not see it.
SeenUnlessStranded ==
    \A g \in 1..MaxGames :
        <>[](game = g /\ ~gamePlayed /\ ~Stranded) => <>SeenToItsEnd(g)
=============================================================================
