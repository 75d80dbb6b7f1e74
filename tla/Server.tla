------------------------------- MODULE Server -------------------------------
(***************************************************************************)
(* The whole poll loop of src/src/server/server.cpp: the connection table  *)
(* of module Connections and the game played on it.  A round of the game   *)
(* (performNextTurn) and the placing of the worms (newGame) are loops over *)
(* the player numbers; each iteration is a step of its own here, in the    *)
(* order of the code, so that the checks made between iterations are there *)
(* to see.  Nothing else runs meanwhile: the program is one thread.        *)
(*                                                                         *)
(* Three things are abstracted.  The random generator may return anything. *)
(* A worm keeps its board cell but not its exact position and heading: a   *)
(* round moves it by one unit, that is to a neighbouring cell or nowhere,  *)
(* and never nowhere twice running, since a worm turns by at most 90       *)
(* degrees per round and so comes at least sqrt(2) away in two rounds,     *)
(* which no cell spans.  What sendEvent() and sendDatagrams() put on the   *)
(* network is left to module Dissemination.                                *)
(***************************************************************************)
EXTENDS Connections, SequencesExt

CONSTANTS
    BoardWidth, BoardHeight,
    GameId                      \* what the random generator may return

Cell == (0..(BoardWidth - 1)) \X (0..(BoardHeight - 1))

Num == 0..MaxPlayers    \* the indices of the arrays kept per player number

ASSUME NameAssumption == Name \subseteq Nat \* a name is its rank in order

ASSUME BoardAssumption == BoardWidth \in Nat \ {0} /\ BoardHeight \in Nat \ {0}

VARIABLES
    gamePlayed,
    gameId,
    events,                     \* the log of the current or last game
    squaresUsed,
    playersInTheGame,
    playingPlayerName,          \* per player number
    playingPlayerDataIndex,     \* per player number, a slot or -1
    isPlayerDead,               \* per player number
    takesPartInTheCurrentGame,  \* per slot
    roundedPlayerWorm,          \* per slot, the cell the worm is in
    mustLeave,                  \* per slot: the worm cannot rest this round
    turnTimer,                  \* "off", "armed" or "due" (seen by poll)
    num,                        \* the loop variable, -1 outside the loops
    added                       \* iteration num has made its event

gameVars == <<gamePlayed, gameId, events, squaresUsed, playersInTheGame,
              playingPlayerName, playingPlayerDataIndex, isPlayerDead,
              takesPartInTheCurrentGame, roundedPlayerWorm, mustLeave>>

loopVars == <<num, added>>

vars == <<connVars, gameVars, turnTimer, loopVars>>

roster == <<playingPlayerName, playingPlayerDataIndex,
            takesPartInTheCurrentGame>>

\* std::set<std::string> keeps the names in order.
InOrder(S) ==
    {p \in [1..Cardinality(S) -> S] :
        \A i, j \in 1..Cardinality(S) : i < j => p[i] < p[j]}

NewGameEvent(players) == [type |-> "new_game", players |-> players]
PixelEvent(n, c) == [type |-> "pixel", player |-> n, cell |-> c]
PlayerEliminatedEvent(n) == [type |-> "eliminated", player |-> n]
GameOverEvent == [type |-> "game_over"]

Init ==
    /\ ConnInit
    /\ gamePlayed = FALSE
    /\ gameId = 0
    /\ events = <<>>
    /\ squaresUsed = {}
    /\ playersInTheGame = 0
    /\ playingPlayerName = [n \in Num |-> NoName]
    /\ playingPlayerDataIndex = [n \in Num |-> 0]
    /\ isPlayerDead = [n \in Num |-> FALSE]
    /\ takesPartInTheCurrentGame = [s \in Slot |-> FALSE]
    /\ roundedPlayerWorm = [s \in Slot |-> <<0, 0>>]
    /\ mustLeave = [s \in Slot |-> FALSE]
    /\ turnTimer = "off"
    /\ num = -1
    /\ added = FALSE

(***************************************************************************)
(* poll() also reports whether the periodic turn timer has expired.  How   *)
(* often it has is read and thrown away, so a late server skips rounds.    *)
(***************************************************************************)
PollAll ==
    /\ Poll
    /\ turnTimer' \in IF turnTimer = "armed" THEN {"armed", "due"}
                                             ELSE {turnTimer}
    /\ UNCHANGED <<gameVars, loopVars>>

\* Fault: the elimination is not counted.
EliminateUncounted(n) ==
    /\ events' = Append(events, PlayerEliminatedEvent(n))
    /\ isPlayerDead' = [isPlayerDead EXCEPT ![n] = TRUE]
    /\ UNCHANGED playersInTheGame

AddPlayerEliminatedEvent(n) ==
    /\ events' = Append(events, PlayerEliminatedEvent(n))
    /\ playersInTheGame' = playersInTheGame - 1
    /\ isPlayerDead' = [isPlayerDead EXCEPT ![n] = TRUE]

AddPixelEvent(n, c) ==
    /\ events' = Append(events, PixelEvent(n, c))
    /\ UNCHANGED <<playersInTheGame, isPlayerDead>>

\* Fault: the turn timer is not disarmed.
GameOverTimerRuns ==
    /\ playersInTheGame = 1
    /\ events' = Append(events, GameOverEvent)
    /\ gamePlayed' = FALSE
    /\ ResetData
    /\ UNCHANGED <<gameId, squaresUsed, playersInTheGame, isPlayerDead, roster,
                   roundedPlayerWorm, mustLeave, turnTimer>>

\* The end of an iteration: with one player left the game is over.
AddGameOverEvent ==
    /\ playersInTheGame = 1
    /\ events' = Append(events, GameOverEvent)
    /\ gamePlayed' = FALSE
    /\ turnTimer' = "off"
    /\ ResetData
    /\ UNCHANGED <<gameId, squaresUsed, playersInTheGame, isPlayerDead, roster,
                   roundedPlayerWorm, mustLeave>>

LoopEnds ==
    /\ num' = -1
    /\ added' = FALSE

NextIteration ==
    /\ num' = num + 1
    /\ added' = FALSE

-----------------------------------------------------------------------------
(* A round: checkNextTurn() and performNextTurn() *)

NoTurn ==
    /\ pc = "turn"
    /\ ~(gamePlayed /\ turnTimer = "due")
    /\ num = -1
    /\ pc' = "disconnect"
    /\ UNCHANGED <<tableVars, turnDirection, armed, revents, gameVars,
                   turnTimer, loopVars>>

BeginTurn ==
    /\ pc = "turn"
    /\ gamePlayed /\ turnTimer = "due"
    /\ num = -1
    /\ NextIteration
    /\ UNCHANGED <<connVars, gameVars, turnTimer>>

\* Faults: the dead go on; the worms of clients who are gone stand still.
MovesDeadToo(n) ==
    LET index == playingPlayerDataIndex[n]
    IN  index # -1 /\ takesPartInTheCurrentGame[index]

MovesConnectedOnly(n) ==
    LET index == playingPlayerDataIndex[n]
    IN  /\ index # -1
        /\ ~isPlayerDead[n]
        /\ takesPartInTheCurrentGame[index]
        /\ isPlayerActive[index]

Moves(n) ==
    LET index == playingPlayerDataIndex[n]
    IN  /\ index # -1
        /\ ~isPlayerDead[n]
        /\ takesPartInTheCurrentGame[index]

\* The cells, on the board or just outside, one unit away from c.
Neighbours(c) ==
    (((c[1] - 1)..(c[1] + 1)) \X ((c[2] - 1)..(c[2] + 1))) \ {c}

RestInCell(s) ==
    /\ ~mustLeave[s]
    /\ mustLeave' = [mustLeave EXCEPT ![s] = TRUE]
    /\ UNCHANGED <<events, playersInTheGame, isPlayerDead, squaresUsed,
                   roundedPlayerWorm>>

\* Faults: the square is not marked as used; the one just left is marked.
EnterUnmarked(n, s, c) ==
    /\ roundedPlayerWorm' = [roundedPlayerWorm EXCEPT ![s] = c]
    /\ mustLeave' = [mustLeave EXCEPT ![s] = FALSE]
    /\ UNCHANGED squaresUsed
    /\ IF c \in squaresUsed THEN AddPlayerEliminatedEvent(n)
                            ELSE AddPixelEvent(n, c)

EnterMarkingOld(n, s, c) ==
    /\ roundedPlayerWorm' = [roundedPlayerWorm EXCEPT ![s] = c]
    /\ mustLeave' = [mustLeave EXCEPT ![s] = FALSE]
    /\ squaresUsed' = (squaresUsed \ {c}) \cup {roundedPlayerWorm[s]}
    /\ IF c \in squaresUsed THEN AddPlayerEliminatedEvent(n)
                            ELSE AddPixelEvent(n, c)

EnterCell(n, s, c) ==
    /\ roundedPlayerWorm' = [roundedPlayerWorm EXCEPT ![s] = c]
    /\ mustLeave' = [mustLeave EXCEPT ![s] = FALSE]
    /\ squaresUsed' = squaresUsed \cup {c}
    /\ IF c \in squaresUsed THEN AddPlayerEliminatedEvent(n)
                            ELSE AddPixelEvent(n, c)

LeaveBoard(n, s) ==
    /\ Neighbours(roundedPlayerWorm[s]) \ Cell # {}
    /\ AddPlayerEliminatedEvent(n)
    /\ UNCHANGED <<squaresUsed, roundedPlayerWorm, mustLeave>>

MoveWorm ==
    /\ pc = "turn"
    /\ num >= 0 /\ ~added
    /\ Moves(num)
    /\ LET s == playingPlayerDataIndex[num]
       IN  \/ RestInCell(s)
           \/ \E c \in Neighbours(roundedPlayerWorm[s]) \cap Cell :
                  EnterCell(num, s, c)
           \/ LeaveBoard(num, s)
    /\ added' = TRUE
    /\ UNCHANGED <<connVars, gamePlayed, gameId, roster, turnTimer, num>>

SkipWorm ==
    /\ pc = "turn"
    /\ num >= 0 /\ ~added
    /\ ~Moves(num)
    /\ added' = TRUE
    /\ UNCHANGED <<connVars, gameVars, turnTimer, num>>

\* Faults: whether one player is left is not asked after every worm; one
\* iteration too many.
TurnAlwaysGoesOn ==
    /\ pc = "turn"
    /\ added
    /\ \/ /\ num < MaxPlayers
          /\ NextIteration
          /\ UNCHANGED <<pc, turnTimer>>
       \/ /\ num = MaxPlayers
          /\ LoopEnds
          /\ turnTimer' = "armed"
          /\ pc' = "disconnect"
    /\ UNCHANGED <<tableVars, turnDirection, armed, revents, gameVars>>

TurnGoesTooFar ==
    /\ pc = "turn"
    /\ added
    /\ playersInTheGame # 1
    /\ NextIteration
    /\ UNCHANGED <<connVars, gameVars, turnTimer>>

TurnGoesOn ==
    /\ pc = "turn"
    /\ added
    /\ playersInTheGame # 1
    /\ \/ /\ num < MaxPlayers
          /\ NextIteration
          /\ UNCHANGED <<pc, turnTimer>>
       \/ /\ num = MaxPlayers
          /\ LoopEnds
          /\ turnTimer' = "armed"
          /\ pc' = "disconnect"
    /\ UNCHANGED <<tableVars, turnDirection, armed, revents, gameVars>>

TurnEndsGame ==
    /\ pc = "turn"
    /\ added
    /\ AddGameOverEvent
    /\ LoopEnds
    /\ pc' = "disconnect"
    /\ UNCHANGED <<tableVars, armed, revents>>

-----------------------------------------------------------------------------
(* A new game: newGame() *)

Players == {s \in Active : playerName[s] # NoName}

NumberOfReadyPlayers ==
    IF \E s \in Players : turnDirection[s] = 0 THEN -1 ELSE Cardinality(Players)

\* The first slot that holds the name, in use or not.
SlotNamed(name, s) ==
    /\ playerName[s] = name
    /\ \A t \in 1..(s - 1) : playerName[t] # name

UpdateCurrentlyPlayingPlayers(players) ==
    /\ playingPlayerName' =
           [n \in Num |-> IF n < Len(players) THEN players[n + 1]
                                              ELSE playingPlayerName[n]]
    /\ playingPlayerDataIndex' =
           [n \in Num |->
                IF n < Len(players) /\ \E s \in Slot : SlotNamed(players[n + 1], s)
                THEN CHOOSE s \in Slot : SlotNamed(players[n + 1], s)
                ELSE -1]
    /\ isPlayerDead' = [n \in Num |-> FALSE]

\* Faults: a game may start while one is played; a player may play alone.
MayStartAnyTime == NumberOfReadyPlayers >= 2

MayStartAlone == ~gamePlayed /\ NumberOfReadyPlayers >= 1

MayStart == ~gamePlayed /\ NumberOfReadyPlayers >= 2

NoNewGame ==
    /\ pc = "start"
    /\ ~MayStart
    /\ num = -1
    /\ pc' = "poll"
    /\ UNCHANGED <<tableVars, turnDirection, armed, revents, gameVars,
                   turnTimer, loopVars>>

NewGame ==
    /\ pc = "start"
    /\ MayStart
    /\ num = -1
    /\ \E players \in InOrder(namesUsed) :
           /\ UpdateCurrentlyPlayingPlayers(players)
           /\ events' = <<NewGameEvent(players)>>
    /\ gamePlayed' = TRUE
    /\ squaresUsed' = {}
    /\ gameId' \in GameId
    /\ turnTimer' = "armed"
    /\ takesPartInTheCurrentGame' =
           [s \in Slot |-> isPlayerActive[s] /\ playerName[s] \in namesUsed]
    /\ playersInTheGame' =
           Cardinality({s \in Active : playerName[s] \in namesUsed})
    /\ NextIteration
    /\ UNCHANGED <<connVars, roundedPlayerWorm, mustLeave>>

IsPlaced(n) ==
    LET index == playingPlayerDataIndex[n]
    IN  index # -1 /\ takesPartInTheCurrentGame[index]

\* A worm starts in the centre of a random cell.  When the cell is taken,
\* the event is made for the slot of the player, not for its number
\* (line 627); when it is free, for the number (line 630).
PlaceWorm ==
    /\ pc = "start"
    /\ num >= 0 /\ ~added
    /\ IsPlaced(num)
    /\ LET index == playingPlayerDataIndex[num]
       IN  \E c \in Cell :
              /\ roundedPlayerWorm' = [roundedPlayerWorm EXCEPT ![index] = c]
              /\ mustLeave' = [mustLeave EXCEPT ![index] = TRUE]
              /\ squaresUsed' = squaresUsed \cup {c}
              /\ IF c \in squaresUsed THEN AddPlayerEliminatedEvent(index)
                                      ELSE AddPixelEvent(num, c)
    /\ added' = TRUE
    /\ UNCHANGED <<connVars, gamePlayed, gameId, roster, turnTimer, num>>

SkipPlace ==
    /\ pc = "start"
    /\ num >= 0 /\ ~added
    /\ ~IsPlaced(num)
    /\ added' = TRUE
    /\ UNCHANGED <<connVars, gameVars, turnTimer, num>>

PlacingGoesOn ==
    /\ pc = "start"
    /\ added
    /\ playersInTheGame # 1
    /\ \/ num < MaxPlayers /\ NextIteration /\ UNCHANGED pc
       \/ num = MaxPlayers /\ LoopEnds /\ pc' = "poll"
    /\ UNCHANGED <<tableVars, turnDirection, armed, revents, gameVars, turnTimer>>

PlacingEndsGame ==
    /\ pc = "start"
    /\ added
    /\ AddGameOverEvent
    /\ LoopEnds
    /\ pc' = "poll"
    /\ UNCHANGED <<tableVars, armed, revents>>

-----------------------------------------------------------------------------

Disconnections == CheckDisconnection /\ UNCHANGED <<gameVars, turnTimer, loopVars>>

ReadDatagram == CheckDatagram /\ UNCHANGED <<gameVars, turnTimer, loopVars>>

Round == BeginTurn \/ MoveWorm \/ SkipWorm \/ TurnGoesOn \/ TurnEndsGame

StartGame == NewGame \/ PlaceWorm \/ SkipPlace \/ PlacingGoesOn \/ PlacingEndsGame

\* What the loop does between two calls of poll().
Handle ==
    \/ NoTurn
    \/ Round
    \/ Disconnections
    \/ ReadDatagram
    \/ NoNewGame
    \/ StartGame

Next == PollAll \/ Handle

Spec == Init /\ [][Next]_vars

\* The loop never stops, and the turn timer is periodic: as long as it is
\* armed, poll() reports it again and again.
Fairness ==
    /\ WF_vars(Next)
    /\ SF_vars(PollAll /\ turnTimer' = "due")

FairSpec == Spec /\ Fairness

-----------------------------------------------------------------------------
(* Properties *)

\* The game's variables keep their types; in particular the number of
\* players left, an unsigned short, never underflows.
ServerTypeOK ==
    /\ ConnTypeOK
    /\ gamePlayed \in BOOLEAN
    /\ gameId \in GameId \cup {0}
    /\ squaresUsed \subseteq Cell
    /\ playersInTheGame \in 0..MaxPlayers
    /\ playingPlayerName \in [Num -> Name \cup {NoName}]
    /\ playingPlayerDataIndex \in [Num -> -1..MaxPlayers]
    /\ isPlayerDead \in [Num -> BOOLEAN]
    /\ takesPartInTheCurrentGame \in [Slot -> BOOLEAN]
    /\ roundedPlayerWorm \in [Slot -> Cell]
    /\ mustLeave \in [Slot -> BOOLEAN]
    /\ turnTimer \in {"off", "armed", "due"}
    /\ num \in -1..MaxPlayers
    /\ added \in BOOLEAN

\* The end of a game is never missed.  It is noticed by playersInTheGame
\* being exactly 1 after an iteration, so two players lost in one go would
\* let the game run for ever: a game seen by poll() has two players or more,
\* and within the loops there is always one.
EndIsNotMissed ==
    gamePlayed => playersInTheGame >= IF num = -1 \/ ~added THEN 2 ELSE 1

PlayersOf(log) == log[1].players

Eliminations(log) == {i \in DOMAIN log : log[i].type = "eliminated"}

PixelsOf(log) == {i \in DOMAIN log : log[i].type = "pixel"}

\* playersInTheGame, counted over the slots when the game starts and down by
\* hand at each elimination, is what the log says: the players that NEW_GAME
\* names, less the eliminations.
CountFollowsLog ==
    events # <<>> =>
        playersInTheGame =
            Len(PlayersOf(events)) - Cardinality(Eliminations(events))

\* When a game starts, every name in NEW_GAME is matched with a slot of its
\* own, the one of the connected client of that name, and every connected
\* player is in the list: updateCurrentlyPlayingPlayers() searches the names
\* in the order of the slots, stale ones included.
RosterIsConnected ==
    pc = "start" /\ num = 0 /\ ~added =>
        LET count == Len(PlayersOf(events))
            index(n) == playingPlayerDataIndex[n]
        IN  /\ \A n \in 0..(count - 1) :
                  /\ index(n) \in Players
                  /\ playerName[index(n)] = playingPlayerName[n]
                  /\ takesPartInTheCurrentGame[index(n)]
            /\ Players = {index(n) : n \in 0..(count - 1)}
            /\ \A n \in count..MaxPlayers : index(n) = -1

\* No square is eaten twice, and the set kept for the test is the log's.
SquaresFollowLog ==
    events # <<>> =>
        /\ squaresUsed = {events[i].cell : i \in PixelsOf(events)}
        /\ IsInjective([i \in PixelsOf(events) |-> events[i].cell])

\* No worm was placed on another one when the game started.
CleanStart ==
    \A i \in Eliminations(events) : i > Len(PlayersOf(events)) + 1

\* The rules, for a game whose worms all started on free squares: events
\* name players of the game only, a player who was eliminated is never heard
\* of again, and one player is left when the game is over.
RulesAfterCleanStart ==
    events # <<>> /\ CleanStart =>
        LET players == 0..(Len(PlayersOf(events)) - 1)
        IN  /\ \A i \in PixelsOf(events) \cup Eliminations(events) :
                   events[i].player \in players
            /\ \A i \in Eliminations(events) :
                   \A j \in (i + 1)..Len(events) :
                       events[j].type # "game_over" =>
                           events[j].player # events[i].player
            /\ Last(events).type = "game_over" =>
                   Cardinality({n \in players : ~isPlayerDead[n]}) = 1

\* Two worms alive are never in the same cell after a clean start.
WormsApart ==
    events # <<>> /\ CleanStart =>
        \A m, n \in Num :
            /\ m # n /\ gamePlayed /\ Moves(m) /\ Moves(n)
            /\ pc # "start" \/ num = -1
            => LET s == playingPlayerDataIndex[m]
                   t == playingPlayerDataIndex[n]
               IN  s # t /\ roundedPlayerWorm[s] # roundedPlayerWorm[t]

\* Every game comes to its end, even if all its players have gone away:
\* worms that nobody steers go on until the board ends them.
GamesEnd == gamePlayed ~> ~gamePlayed

\* The turn timer runs while a game is played and only then; left running it
\* would wake poll() for ever, for nobody reads it between games.
TimerRunsWithGame == (turnTimer = "off") <=> ~gamePlayed

\* The log obeys the contract of module EventLog, which the clients rely on.
Log == INSTANCE EventLog WITH
    Opening <- {NewGameEvent(players) :
                    players \in UNION {InOrder(S) : S \in SUBSET Name}},
    Body <- {PixelEvent(n, c) : n \in Num, c \in Cell}
                \cup {PlayerEliminatedEvent(n) : n \in Num},
    Closing <- GameOverEvent

LogContract == Log!Spec

\* What line 465 says of a client that connects during a game: it is a
\* spectator.  So no worm moves by the keys of a client that joined later.
NewcomersOnlyWatch ==
    \A n \in Num :
        gamePlayed /\ (pc # "start" \/ num = -1) /\ Moves(n) =>
            LET s == playingPlayerDataIndex[n]
            IN  isPlayerActive[s] => playerName[s] = playingPlayerName[n]

\* What the reference model of the tests does (game_logic.py): the worms are
\* placed in the order of the player numbers, and the event of each, pixel or
\* elimination, bears its player's number.
PlacedUnderOwnNumber ==
    \A i \in PixelsOf(events) \cup Eliminations(events) :
        i <= Len(PlayersOf(events)) + 1 => events[i].player = i - 2
=============================================================================
