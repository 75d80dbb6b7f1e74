--------------------------- MODULE Dissemination ---------------------------
(***************************************************************************)
(* How the log of a game travels to one client.  The server is the one of  *)
(* module EventLog with the sends of src/src/server/server.cpp: every new  *)
(* event is sent once to the connected clients (sendEvent), and a client   *)
(* that reports the event number it waits for gets the log from there on,  *)
(* packed into datagrams (sendDatagrams).  UDP loses, delays, reorders and *)
(* duplicates in both directions.  What the client does with a datagram is *)
(* the matter of modules Client and Client2, which extend this one.        *)
(*                                                                         *)
(* Games are numbered in the order in which they are played and stand for  *)
(* their random ids, taken to be distinct.  An event is known by its game, *)
(* its number and its kind; its other fields do not matter here.  The      *)
(* server reads the number in a report through signed chars (ReadAs), so   *)
(* it answers some reports with another part of the log, or not at all.    *)
(***************************************************************************)
EXTENDS FiniteSets, SequencesExt, Numbers

CONSTANTS
    MaxGames,       \* bound: games played
    MaxLog,         \* bound: events in the log of a game
    PerDatagram,    \* events that fit into a datagram
    MaxInFlight     \* bound: datagrams on their way to the client

ASSUME BoundsAssumption ==
    /\ MaxGames \in Nat \ {0}
    /\ MaxLog \in Nat /\ MaxLog >= 2 /\ 2 * MaxLog < Words
    /\ PerDatagram \in Nat \ {0}
    /\ MaxInFlight \in Nat \ {0}

VARIABLES
    game,           \* the game of the log, 0 before the first
    gamePlayed,     \* the log is still open
    count,          \* events().size()
    isConnected,    \* the client has a slot
    toClient,       \* datagrams on their way to the client
    toServer        \* event numbers on their way to the server

serverVars == <<game, gamePlayed, count, isConnected>>

netVars == <<toClient, toServer>>

Number == 0..MaxLog

\* What the server and client 1 read for a number in a datagram.
ReadAs == [n \in Number |-> AsRead(n)]

\* A datagram carries the events from..to of a game; over tells that the
\* last one is GAME_OVER.
EventNo == 0..(MaxLog - 1)

Datagram ==
    [game: 1..MaxGames, from: EventNo, to: EventNo, over: BOOLEAN]

KindOf(d, n) ==
    IF n = 0 THEN "new_game"
    ELSE IF n = d.to /\ d.over THEN "game_over" ELSE "body"

EventsOf(d) ==
    [i \in 1..(d.to - d.from + 1) |->
        [game |-> d.game, no |-> d.from + i - 1,
         kind |-> KindOf(d, d.from + i - 1)]]

DisInit ==
    /\ game = 0
    /\ gamePlayed = FALSE
    /\ count = 0
    /\ isConnected = FALSE
    /\ toClient = {}
    /\ toServer = {}

\* The network takes ds, and may lose any of them or of those on their way.
Transmit(ds) ==
    /\ toClient' \in SUBSET (toClient \cup ds)
    /\ Cardinality(toClient') <= MaxInFlight

\* sendEvent(): the newest event, by itself, to a connected client.
SendEvent(g, n, over) ==
    Transmit(IF isConnected
             THEN {[game |-> g, from |-> n, to |-> n, over |-> over]}
             ELSE {})

\* Fault: the last datagram claims events that the log does not have yet.
SendFullDatagrams(n) ==
    Transmit({[game |-> game, from |-> i,
               to |-> i + PerDatagram - 1,
               over |-> ~gamePlayed /\ i + PerDatagram >= count] :
                  i \in {j \in n..(count - 1) : (j - n) % PerDatagram = 0}})

\* sendDatagrams(): the log from event number n on, as much as fits in each.
SendDatagrams(n) ==
    Transmit({[game |-> game, from |-> i,
               to |-> Min({i + PerDatagram, count}) - 1,
               over |-> ~gamePlayed /\ i + PerDatagram >= count] :
                  i \in {j \in n..(count - 1) : (j - n) % PerDatagram = 0}})

NewGame ==
    /\ ~gamePlayed
    /\ game < MaxGames
    /\ game' = game + 1
    /\ gamePlayed' = TRUE
    /\ count' = 1
    /\ SendEvent(game', 0, FALSE)
    /\ UNCHANGED <<isConnected, toServer>>

AddEvent ==
    /\ gamePlayed
    /\ count < MaxLog - 1
    /\ count' = count + 1
    /\ SendEvent(game, count, FALSE)
    /\ UNCHANGED <<game, gamePlayed, isConnected, toServer>>

AddGameOver ==
    /\ gamePlayed
    /\ count' = count + 1
    /\ gamePlayed' = FALSE
    /\ SendEvent(game, count, TRUE)
    /\ UNCHANGED <<game, isConnected, toServer>>

\* The client's disconnection timer expired.
Disconnect ==
    /\ isConnected
    /\ isConnected' = FALSE
    /\ UNCHANGED <<game, gamePlayed, count, netVars>>

\* Fault: nothing is sent again once the game is over.
AnswerWhilePlayed(n) ==
    /\ n \in toServer
    /\ toServer' \in {toServer, toServer \ {n}}
    /\ isConnected' = TRUE
    /\ \/ isConnected /\ gamePlayed /\ SendDatagrams(ReadAs[n])
       \/ ~isConnected /\ gamePlayed /\ SendDatagrams(0)
       \/ ~gamePlayed /\ UNCHANGED toClient
    /\ UNCHANGED <<game, gamePlayed, count>>

\* checkDatagram(): a datagram of the client gets the log from the number that
\* isDatagramCorrect() reads in it, or from 0 if it connects him, and then only
\* while a game is played.  The network may deliver it again.
Answer(n) ==
    /\ n \in toServer
    /\ toServer' \in {toServer, toServer \ {n}}
    /\ isConnected' = TRUE
    /\ \/ isConnected /\ SendDatagrams(ReadAs[n])
       \/ ~isConnected /\ gamePlayed /\ SendDatagrams(0)
       \/ ~isConnected /\ ~gamePlayed /\ UNCHANGED toClient
    /\ UNCHANGED <<game, gamePlayed, count>>

ServerNext ==
    \/ NewGame
    \/ AddEvent
    \/ AddGameOver
    \/ Disconnect
    \/ \E n \in Number : Answer(n)

\* A client that waits for event number n says so; the network may lose that,
\* or lose instead what is still on its way.
Report(n) ==
    /\ toServer' \in {toServer, {n}}
    /\ UNCHANGED <<serverVars, toClient>>

\* A datagram reaches the client, and may reach it again.
Deliver(d) ==
    /\ d \in toClient
    /\ toClient' \in {toClient, toClient \ {d}}
    /\ UNCHANGED <<serverVars, toServer>>

DisTypeOK ==
    /\ game \in 0..MaxGames
    /\ gamePlayed \in BOOLEAN
    /\ count \in Number
    /\ isConnected \in BOOLEAN
    /\ toClient \subseteq Datagram
    /\ toServer \subseteq Number

\* The log that this server keeps is one that module EventLog allows.
Log == INSTANCE EventLog WITH
    GameId <- 1..MaxGames,
    gameId <- game,
    Opening <- {"new_game"},
    Body <- {"body"},
    Closing <- "game_over",
    events <- [i \in 1..count |->
                  IF i = 1 THEN "new_game"
                  ELSE IF i = count /\ ~gamePlayed THEN "game_over" ELSE "body"]

LogContract == Log!Spec
=============================================================================
