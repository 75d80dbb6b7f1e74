-------------------------------- MODULE Wire --------------------------------
(***************************************************************************)
(* One game on its way to the screen, in the sizes and numbers that are    *)
(* really sent: the server packs the log into datagrams by bytes, a client *)
(* decodes them, checks the fields and writes lines, and the GUI obeys     *)
(* those.  Loss, order and repetition of datagrams are the matter of       *)
(* Dissemination; here any datagram that the server would send for the     *)
(* event number it reads may arrive.                                       *)
(*                                                                         *)
(* The network changes no byte, so the CRC of an event is always right.    *)
(***************************************************************************)
EXTENDS GuiReader, Numbers

CONSTANTS
    Games,          \* logs to be sent, with the lengths of the names
    MaxDatagram,    \* MAX_DATAGRAM_SIZE of the server
    MaxUdp,         \* MAX_UDP_SIZE of client 2
    MaxNumber       \* bound: no greater number is sent

\* Moves and eliminations of the players; pixels lie on the board.  A player
\* who is eliminated where the game starts is announced by his slot, 1 to 25,
\* which need not be the number of any player of the game (newGame()).
Bodies(g) ==
    LET player == 0..(Len(Games[g].lengths) - 1)
    IN  [kind : {"PIXEL"}, player : player,
         at : (0..(Games[g].board[1] - 1)) \X (0..(Games[g].board[2] - 1))]
            \cup [kind : {"PLAYER_ELIMINATED"}, player : player \cup 1..25]

\* Names are of 1 to 20 characters, there are two at least, and the log grows
\* turn by turn from NEW_GAME on.
ASSUME GamesAssumption ==
    \A g \in DOMAIN Games :
        LET total == Len(Games[g].body) + 2
            turns == Games[g].turns
        IN  /\ Games[g].lengths \in Seq(1..20) /\ Len(Games[g].lengths) >= 2
            /\ Games[g].board \in (1..MaxNumber) \X (1..MaxNumber)
            /\ Games[g].body \in Seq(Bodies(g)) /\ total <= MaxNumber
            /\ turns \in Seq(1..total) /\ turns # <<>>
            /\ \A i \in 2..Len(turns) : turns[i - 1] <= turns[i]

ASSUME MaxNumberAssumption == MaxNumber \in Nat /\ 2 * MaxNumber < Words

VARIABLES
    client,                 \* 1 or 2: the program that receives
    plan,                   \* the game that is played
    turn,                   \* turns of it that have been played
    nextExpectedEventNo,
    known,                  \* playersNames(), player_name
    runs,                   \* the client has not ended
    out                     \* lines still to be written by the handler

clientVars == <<client, nextExpectedEventNo, known, runs, out>>

vars == <<guiVars, clientVars, plan, turn>>

-----------------------------------------------------------------------------
(* Events and their sizes *)

Names(g) == [i \in DOMAIN Games[g].lengths |-> i]

Logs ==
    [g \in DOMAIN Games |->
        <<[kind |-> "NEW_GAME", board |-> Games[g].board, players |-> Names(g)]>>
            \o Games[g].body \o <<[kind |-> "GAME_OVER"]>>]

\* Event number i of the game.
Event(i) == Logs[plan][i + 1]

Total == Len(Logs[plan])

\* events().size()
Made == Games[plan].turns[turn]

\* What the first k members of s come to, for every k.
SumsOf(s) ==
    LET sums[k \in 0..Len(s)] == IF k = 0 THEN 0 ELSE sums[k - 1] + s[k]
    IN  sums

\* Bytes of the first k names of NEW_GAME, a zero after each.
NamesSize(g, k) == SumsOf(Games[g].lengths)[k] + k

\* What the length field of an event says: number, type and data.
DataLength(g, e) ==
    5 + CASE e.kind = "NEW_GAME" -> 8 + NamesSize(g, Len(e.players))
          [] e.kind = "PIXEL" -> 9
          [] e.kind = "PLAYER_ELIMINATED" -> 1
          [] e.kind = "GAME_OVER" -> 0

\* getByteRepresentationServer(): also the length field and the CRC.
EventSize(g, e) == DataLength(g, e) + 8

\* No event is too long for a datagram; in the code the longest, a NEW_GAME
\* with 25 names of 20 bytes, just fits.
ASSUME DatagramAssumption ==
    /\ MaxDatagram \in Word /\ MaxUdp \in Nat
    /\ \A g \in DOMAIN Games : \A i \in DOMAIN Logs[g] :
           4 + EventSize(g, Logs[g][i]) <= MaxDatagram

\* Bytes of the events before number i.
Offsets ==
    [g \in DOMAIN Games |->
        SumsOf([i \in DOMAIN Logs[g] |-> EventSize(g, Logs[g][i])])]

-----------------------------------------------------------------------------
(* The server *)

\* A datagram of the events i..j; the game id comes first.
SizeOf(g, i, j) == 4 + Offsets[g][j + 1] - Offsets[g][i]

Datagram(i, j) == [from |-> i, to |-> j, size |-> SizeOf(plan, i, j)]

\* Fault: a datagram is closed only when it is already too long.
FitsTooLate(g, i, j) == SizeOf(g, i, j - 1) <= MaxDatagram

\* Event j may join the events from i on.
Fits(g, i, j) == SizeOf(g, i, j) <= MaxDatagram

\* The last event that fits into a datagram with event i as its first.
LastFitting ==
    [g \in DOMAIN Games |->
        [i \in 0..(Len(Logs[g]) - 1) |->
            Max({i} \cup {j \in i..(Len(Logs[g]) - 1) : Fits(g, i, j)})]]

Filled(i) == Datagram(i, Min({LastFitting[plan][i], Made - 1}))

\* sendDatagrams(): the events from number n on; what does not fit goes to the
\* next datagram.
SendDatagrams(n) ==
    LET batches[i \in n..Made] ==
            IF i = Made THEN {}
            ELSE {Filled(i)} \cup batches[Filled(i).to + 1]
    IN  IF n < Made THEN batches[n] ELSE {}

\* Fault: the log is sent from the event after the one that is waited for.
AnswerLate(n) == SendDatagrams(AsRead(n) + 1)

\* The answer to a report of n: isDatagramCorrect() reads the number.
Answer(n) == SendDatagrams(AsRead(n))

-----------------------------------------------------------------------------
(* The clients *)

\* readNumberFromBuffer() of client 1, get_dword() of client 2.
ReadsAs(c, n) == IF c = 1 THEN AsRead(n) ELSE GetDword(AddNumber(n))

\* The same for all that is sent here.
ReadsOf == [c \in {1, 2} |-> [n \in 0..MaxNumber |-> ReadsAs(c, n)]]

Reads(n) == ReadsOf[client][n]

ReadsBoth(p) == <<Reads(p[1]), Reads(p[2])>>

\* The players that client c reads of NEW_GAME: those whose names fill what the
\* length that it read leaves for them.  If that is no end of a name, or lies
\* past the datagram, the client ends (decodeNewGameMessage, get_new_players).
PlayersRead ==
    [c \in {1, 2} |-> [g \in DOMAIN Games |->
        LET length == ReadsAs(c, DataLength(g, Logs[g][1]))
            whole == {k \in DOMAIN Names(g) : length = 13 + NamesSize(g, k)}
        IN  SubSeq(Names(g), 1, Max({0} \cup whole))]]

\* Fault: numbers of players are taken to start with 1.
NamedFromOne(e, players) == players[Max({1, e.player})]

\* The player that an event is about.
Named(e, players) == players[e.player + 1]

\* Client 2 wants pixels on the board; client 1 does not look.
IsOnBoard(at) ==
    client = 2 => /\ Reads(at[1]) < Reads(Event(0).board[1])
                  /\ Reads(at[2]) < Reads(Event(0).board[2])

\* Fault: client 2 takes the last column for one outside.
IsRefusedAtEdge(e, players) ==
    \/ e.kind = "NEW_GAME" /\ Len(players) < 2
    \/ e.kind \in {"PIXEL", "PLAYER_ELIMINATED"} /\ e.player >= Len(players)
    \/ e.kind = "PIXEL" /\ client = 2 /\ e.at[1] + 1 >= Event(0).board[1]

\* The checks that end a client.
IsRefused(e, players) ==
    \/ e.kind = "NEW_GAME" /\ Len(players) < 2
    \/ e.kind \in {"PIXEL", "PLAYER_ELIMINATED"} /\ e.player >= Len(players)
    \/ e.kind = "PIXEL" /\ ~IsOnBoard(e.at)

\* getByteRepresentationClient(), send_new_game_event() and the like.
Line(e, players) ==
    CASE e.kind = "NEW_GAME" ->
            [kind |-> e.kind, board |-> ReadsBoth(e.board), players |-> players]
      [] e.kind = "PIXEL" ->
            [kind |-> e.kind, player |-> Named(e, players), at |-> ReadsBoth(e.at)]
      [] e.kind = "PLAYER_ELIMINATED" ->
            [kind |-> e.kind, player |-> Named(e, players)]
      [] e.kind = "GAME_OVER" -> [kind |-> e.kind]

\* The players that the events of a datagram are about.
PlayersOf(d) ==
    IF d.from = 0 /\ nextExpectedEventNo = 0 THEN PlayersRead[client][plan]
    ELSE known

\* Event i of datagram d bears the number that is waited for when those before
\* it have been taken.  Behind a list that was cut short client 1 is amid the
\* names, where no event begins.
IsNext(d, i, players) ==
    /\ Reads(i) = nextExpectedEventNo + i - d.from
    /\ i = 1 /\ d.from = 0 => Len(players) = Len(Names(plan))

\* The loops in decodeMessageFromGameServer() and receive_from_game() take the
\* events before the first of these.
NotTaken(d, players) ==
    {d.to + 1} \cup
    {i \in d.from..d.to :
        ~IsNext(d, i, players) \/ IsRefused(Event(i), players)}

\* Event i ends the client.
EndsAt(d, i, players) == i <= d.to /\ IsNext(d, i, players)

\* Client 2 does not tell its GUI that the game is over, which comes last.
ToldUpTo(j) == IF client = 2 /\ j = Total THEN j - 1 ELSE j

\* The lines for the events from i on, before j.
Lines(i, j, players) ==
    [k \in 1..(ToldUpTo(j) - i) |-> Line(Event(i + k - 1), players)]

-----------------------------------------------------------------------------
(* Actions *)

Init ==
    /\ GuiInit
    /\ client \in {1, 2}
    /\ plan \in DOMAIN Games
    /\ turn = 1
    /\ nextExpectedEventNo = 0
    /\ known = <<>>
    /\ runs = TRUE
    /\ out = <<>>

\* A turn of the game adds its events to the log.
PlayTurn ==
    /\ turn < Len(Games[plan].turns)
    /\ turn' = turn + 1
    /\ UNCHANGED <<guiVars, clientVars, plan>>

\* Client 2 ends over a datagram longer than MAX_UDP_SIZE.
ReceiveTooLong(d) ==
    /\ client = 2 /\ d.size > MaxUdp
    /\ runs' = FALSE
    /\ UNCHANGED <<nextExpectedEventNo, known, out>>

\* decodeMessageFromGameServer(), receive_from_game().  Client 1 puts its lines
\* into a queue, which is lost if it ends; client 2 has written them by then.
\* After GAME_OVER client 1 waits for event 0 again.
ReceiveEvents(d) ==
    /\ client = 2 => d.size <= MaxUdp
    /\ \E players \in {PlayersOf(d)} : \E left \in {NotTaken(d, players)} :
       \E i \in {Min(left)} :
           /\ nextExpectedEventNo' =
                  IF i = d.from THEN nextExpectedEventNo
                  ELSE IF client = 1 /\ i = Total THEN 0
                  ELSE nextExpectedEventNo + i - d.from
           /\ known' = IF i > d.from THEN players ELSE known
           /\ runs' = ~EndsAt(d, i, players)
           /\ out' = IF client = 1 /\ ~runs' THEN <<>>
                     ELSE Lines(d.from, i, players)

\* The client is back at its poll or read.
IsWaiting == runs /\ out = <<>> /\ gui = "running"

Receive(d) ==
    /\ IsWaiting
    /\ ReceiveTooLong(d) \/ ReceiveEvents(d)
    /\ UNCHANGED <<guiVars, client, plan, turn>>

\* The answer to the client's report.
ReceiveAnswer == IsWaiting /\ \E d \in Answer(nextExpectedEventNo) : Receive(d)

\* An event by itself, sent when it was new, or the log from its beginning,
\* sent when the client connected.
ReceiveOther ==
    \/ \E i \in 0..(Made - 1) : Receive(Datagram(i, i))
    \/ \E d \in SendDatagrams(0) : Receive(d)

\* sendMessageToGuiServer(), send_to_gui(): blocks until there is room.
WriteLine ==
    /\ out # <<>>
    /\ Write(Head(out))
    /\ out' = Tail(out)
    /\ UNCHANGED <<client, nextExpectedEventNo, known, runs, plan, turn>>

\* A client without a GUI ends: its next read or write fails.
LoseGui ==
    /\ runs
    /\ gui # "running"
    /\ runs' = FALSE
    /\ out' = <<>>
    /\ UNCHANGED <<guiVars, client, nextExpectedEventNo, known, plan, turn>>

GuiNext ==
    /\ \/ KeyEvent
       \/ CloseWindow
       \/ IdleCallback
       \/ CutLine
       \/ ~runs /\ out = <<>> /\ EndOfStream
    /\ UNCHANGED <<clientVars, plan, turn>>

Next ==
    \/ PlayTurn
    \/ ReceiveAnswer
    \/ ReceiveOther
    \/ WriteLine
    \/ LoseGui
    \/ GuiNext

Spec == Init /\ [][Next]_vars

(***************************************************************************)
(* Games are played on.  A client never stops reporting and taking what    *)
(* comes, and of the answers that come again and again the one that it     *)
(* waits for is not lost for ever.  Both loops, the client's write and the *)
(* GTK loop with its idle callback, go on.  The player need not press      *)
(* anything.                                                               *)
(***************************************************************************)
ReceiveAwaited ==
    /\ IsWaiting
    /\ nextExpectedEventNo < Made
    /\ \E d \in Answer(nextExpectedEventNo) :
           d.from = nextExpectedEventNo /\ Receive(d)

Fairness ==
    /\ WF_vars(PlayTurn)
    /\ WF_vars(ReceiveAwaited)
    /\ WF_vars(WriteLine)
    /\ WF_vars(IdleCallback /\ UNCHANGED <<clientVars, plan, turn>>)

FairSpec == Spec /\ Fairness

-----------------------------------------------------------------------------
(* Properties *)

\* Every variable keeps its type; a client tells the GUI only of players in the
\* list that it has read, whatever numbers events bear (checkPlayerNumber(),
\* send_pixel_event()), and the GUI crosses out and draws only players that it
\* lists (cmd.c, gui2.c).
TypeOK ==
    /\ GuiTypeOK
    /\ client \in {1, 2}
    /\ plan \in DOMAIN Games
    /\ turn \in DOMAIN Games[plan].turns
    /\ nextExpectedEventNo \in 0..Total
    /\ known \in {<<>>} \cup {SubSeq(Names(plan), 1, k) : k \in 2..Len(Names(plan))}
    /\ runs \in BOOLEAN
    /\ Len(out) <= Total
    /\ \A line \in ToSet(out) \cup ToSet(stream) :
           line.kind \in {"PIXEL", "PLAYER_ELIMINATED"}
               => line.player \in ToSet(PlayersRead[client][plan])

\* The datagrams that answer a report hold the log from the number on that
\* the server reads, every event in exactly one of them; none is longer than
\* the limit, and none could have taken the next event too (sendDatagrams()).
PackedInOrder ==
    \A n \in {m \in {0, AsRead(nextExpectedEventNo)} : m < Made} :
        LET ds == SendDatagrams(n)
        IN  /\ \A i \in n..(Made - 1) :
                   Cardinality({d \in ds : i \in d.from..d.to}) = 1
            /\ \A d \in ds :
                   /\ d.size <= MaxDatagram
                   /\ d.from >= n /\ d.to < Made
                   /\ d.to < Made - 1 => SizeOf(plan, d.from, d.to + 1) > MaxDatagram

\* Client 2 is sent more than it takes.
IsTooLong ==
    /\ client = 2
    /\ \E n \in 0..(Made - 1) : \E d \in SendDatagrams(n) : d.size > MaxUdp

\* Client 1 reads another length of NEW_GAME than was written.
IsMisread ==
    /\ client = 1
    /\ ~IsPlain(DataLength(plan, Event(0)))

\* A player was eliminated under a number that none of the game has.
IsMisnumbered ==
    \E i \in 0..(Made - 1) :
        /\ Event(i).kind = "PLAYER_ELIMINATED"
        /\ Event(i).player >= Len(Names(plan))

\* Apart from three causes the events of a game pass the checks of both
\* clients.  While its GUI runs a client ends only because a datagram of 549 or
\* 550 bytes is too long for client 2 (client.cpp:238), because the length of
\* NEW_GAME has a byte that is negative as a char of client 1
\* (client.cpp:272), or because a player who was eliminated at the start was
\* announced by a slot past the list (server.cpp:627).
OnlyMisfitsAreRefused ==
    ~runs /\ gui = "running" => IsTooLong \/ IsMisread \/ IsMisnumbered

\* How far the client has read the game.  Client 1 waits for event 0 again
\* when it has read all.
Progress ==
    IF nextExpectedEventNo = 0 /\ known # <<>> THEN Total
    ELSE nextExpectedEventNo

\* What a screen shows that is told the first n events, numbers as the client
\* reads them: the board, the list as far as there is room, and crosses and
\* dots of those listed.
Portrait(n) ==
    LET events == {Event(i) : i \in 0..(n - 1)}
        listed == SubSeq(known, 1, Min({Len(known), MaxPlayer}))
        OfListed(kind) == {e \in events : e.kind = kind /\ e.player < Len(listed)}
    IN  IF n = 0 THEN Blank
        ELSE [board |-> ReadsBoth(Event(0).board),
              players |-> listed,
              marked |-> {e.player + 1 : e \in OfListed("PLAYER_ELIMINATED")},
              drawn |-> {<<e.player + 1, ReadsBoth(e.at)>> : e \in OfListed("PIXEL")}]

\* An event bears, as it is read, the number of another one, or the next.
\* Client 1 takes it for that one (client.cpp:307): with bytes of 256 values
\* event 384 for event 128, which it cannot read itself.
IsMistaken == \E i \in 0..(Made - 1) : Reads(i) # i /\ Reads(i) <= Made

\* When everything written has been read, and no line was cut, the screen
\* shows exactly the part of the game that the client has read: packing,
\* decoding, the lines and their reading agree on every event, for both
\* clients (event.cpp, client.cpp, cmd.c), unless event numbers are mistaken.
ScreenFollowsLog ==
    /\ gui = "running" /\ runs
    /\ stream = <<>> /\ out = <<>> /\ cuts = 0
    => IsMistaken \/ screen = Portrait(Progress)

\* The GUI crashes only over a line whose beginning was lost (read_line.c:46)
\* or over a game with more players than it lists (cmd.c:34, cmd.c:74).
CrashHasCause ==
    gui = "crashed" => cuts > 0 \/ Len(Names(plan)) > MaxPlayer

\* Once a key has been pressed the client comes back from writing to its GUI,
\* unless that ends: neither waits for the other for ever (gui2.c:106).
WritingEnds ==
    started /\ out # <<>> ~> out = <<>> \/ gui # "running"

\* No event number of the game is misread.
IsShort == \A i \in 0..Total : IsPlain(i)

\* A client whose GUI reads, and goes on running, gets to the end of a game
\* of fewer events than there are plain numbers (128 in the code), even if
\* only answers to its reports reach it.
GameIsReadToItsEnd ==
    started /\ IsShort ~> Progress = Total \/ ~runs \/ gui # "running"

\* The numbers that client 1 and client 2 show are those of the events: the
\* tests expect the lines NEW_GAME and PIXEL with the numbers that were sent
\* (src/tests/client_tests.py:71).
NumbersAreShownAsSent ==
    gui = "running" /\ screen.players # <<>> =>
        /\ screen.board = Event(0).board
        /\ \A dot \in screen.drawn : \E e \in ToSet(Logs[plan]) :
               e.kind = "PIXEL" /\ e.at = dot[2]
=============================================================================
