# A verification of the worm game: server, clients and what they tell each other

The repository holds a multiplayer game played over UDP: a server that runs the
game, two independent clients that carry keys to it and events back, and a GUI
that a client drives over TCP. This directory models the parts of it whose
correctness is a matter of order, of time and of stale data, checks the models
with TLC and proves their safety properties with TLAPS. Every
definition is translated from the source; the table `map` in PROJECT.json gives
the lines. Paths below are relative to the repository root (the code is under
`src/`, the tests under `tests/`).

## 1. Inventory

### Components, their state and operations

| Component | Source | State | Operations |
|---|---|---|---|
| Connection table | `src/server/server.cpp` | per slot 1..25: in use, address, session id, turn direction, name, disconnection timer; the set of used names; the counter of clients | `checkDisconnection` (timers), `checkDatagram` with `isClientConnected`, `newDatagramFromAConnectedClient`, `processNewPlayer` |
| Game | `src/server/server.cpp` | log of events, game id, used squares, players left, roster (number -> name, slot, dead), per slot worm and "takes part", turn timer | `newGame`, `checkNextTurn`/`performNextTurn`, `add...Event` |
| Dissemination | `src/server/server.cpp` | none of its own: the log is read | `sendEvent` (the newest event to all), `sendDatagrams` (the log from a number on, to one client) |
| Client | `src/client/client.cpp` | followed game, next expected event, key states, unparsed GUI text, one buffer for everything | key messages from the GUI, report every 30 ms, events from the server to the GUI |
| Client 2 | `src/client2/src/client` | the same, differently kept | the same; also checks CRC and field ranges |
| Encoding | `src/shared_functionalities`, `sendDatagrams`, `decode...`, `process_event` | the list of players of the game | events to bytes, into datagrams of 550 bytes, back to fields, to lines for the GUI; CRC |
| Command lines | `parsing_functionalities.cpp`, `Client::set_parameters`, the three `main.cpp` | parameters of a program | `getopt` loops, two number parsers, name checks, operands |
| GUI | `src/gui` | key pressed yet or not, list of players, crosses, dots | keys to lines, `idle_callback`, `readLine`, `process_command` |
| Tests | `tests`, `additional_src`, `src/testClient` | | documentation of what is expected |

### How they interact

The server is one thread that goes round `poll` -> `checkNextTurn` (only while a
game is played) -> `checkDisconnection` -> `checkDatagram` -> `newGame`
(`server.cpp:689-704`). A client sends its session id, turn direction, the
number of the event it waits for and its name every 30 ms. That datagram
connects it, keeps its 2 s timer from expiring, steers its worm and asks for
events, all at once. The server sends every new event once to every connected
client and answers each datagram with the log from the number named in it.
There is no other acknowledgement: the number is the protocol. A client
forwards events to its GUI over TCP in the order of their numbers.

### What is hard here

* Three parallel views of "who is here" are kept by hand: the slots, the
  counter, the set of names; a fourth, the roster of a game, refers to slots
  for as long as the game lasts, while slots change owners.
* Several disconnection timers and the turn timer may expire in one `poll`,
  together with a datagram of a client that is being dropped.
* The end of a game is a counter being exactly 1, tested between iterations.
* UDP loses, repeats and reorders in both directions, and the log that event
  numbers refer to is thrown away when the next game starts.
* The clients share the protocol but not its reading: what happens at the end
  of a game and at the start of the next one differs.
* Numbers are read through signed chars by the server and by client 1, and
  sizes are limits on both sides that do not match (550 bytes are sent, client 2
  takes 548; 25 players may play, the GUI lists 20).
* The GUI reads nothing before the first key, and loses the beginning of a line
  of which the rest is late, while a client writes with a blocking socket.
* Three programs parse the same options with three hand-written parsers in
  integers of fixed width.

### What makes each component correct

* Connection table: counter, names and timers agree with the slots; names are
  unique; a slot has one owner at a time; the lookup of a slot by a name, which
  does not ask whether the slot is in use, finds the right one; the program
  never ends for lack of a slot.
* Game: the roster is that of the connected players; the count of players left
  is what the log says; the end is never missed and always comes; no square is
  eaten twice; nobody acts after his elimination.
* Dissemination and clients: what the GUI is shown is a beginning of one game's
  log, without gaps or repetitions, one game after the other, and the last game
  is shown to its end.
* Encoding: the datagrams of an answer carry every event once and fit; every
  reader gets the events that were sent; no client ends over a legal game.
* GUI: it shows what the client has read, and does not hold the client up.
* Command lines: a program runs with the numbers that were written, within the
  limits; the two clients agree.

`hazards` in PROJECT.json lists, line by line, what can go wrong and which
property would notice.

## 2. Modules

| Module | Models | Extends / instances |
|---|---|---|
| `Connections` | the connection table and its handlers | |
| `Server` | the whole loop: `Connections` and the game on it | extends `Connections`; `EventLog` as abstract specification |
| `EventLog` | the contract of a game's log (abstract) | |
| `Numbers` | numbers in four bytes, and the two ways of reading them back | |
| `Dissemination` | the log on its way to one client over UDP, both directions | extends `Numbers`; `EventLog` as abstract specification |
| `Client`, `Client2` | the two clients as receivers | extend `Dissemination`; `Display` as abstract specification |
| `Display` | what a GUI may be shown (abstract) | |
| `Keys` | key events of two GUIs, through TCP, to the turn directions of both clients | |
| `GuiReader` | the GUI as a reader: idle callback, lines read in part, commands, the screen | |
| `Wire` | one game in bytes: packing, decoding and checks of either client, blocking writes | extends `GuiReader`, `Numbers` |
| `CommandLine` | the command lines of the server and of both clients | |
| `ServerProofs` | theorems about `Connections`, and about `Server` on top of them | extends `Server` |
| `NumbersProofs` | theorems about `Numbers` | extends it |
| `DisseminationProofs` | lemmas about the network and about what a datagram does to a screen | extends `Dissemination`, `NumbersProofs` |
| `ClientProofs`, `Client2Proofs` | theorems about the clients | extend `Client`, `Client2` and `DisseminationProofs` |
| `KeysProofs` | theorems about `Keys` | extends it |
| `WireProofs` | theorems about `GuiReader` and `Wire` | extends `Wire`, `NumbersProofs` |
| `CommandLineProofs` | theorems about `CommandLine` | extends it |
| `MC...` | small instances for TLC | |

Operators introduced by "Fault:" are not part of a model: each is a definition
with a plausible bug put in, listed under `mutants` in PROJECT.json with the
property that the bug breaks. They show that the properties can fail.

### Connections

`pc` names the handler that the loop runs next, one action per handler. Poll
reports any subset of the running timers (`revents`); a timer that fires later
is seen by a later poll. The read of a datagram is any member of `Arrivals`, or
nothing. `isDatagramCorrect` is represented by `Arrivals` holding well-formed
datagrams; a malformed one is `Ignored`. The game appears only as the one effect
it has on the table, `resetData()`; `Server` has the real thing.
`HostPort[a]` stands for what `getIPAndPort()` makes of an address. The code
formats the wrong bytes (`server.cpp:262`), so this function need not be
injective, and no theorem assumes that it is.

### Server

`BeginTurn`, `MoveWorm`/`SkipWorm`, `TurnGoesOn`/`TurnEndsGame` are the
iterations of `performNextTurn()`, `NewGame`, `PlaceWorm`/`SkipPlace`,
`PlacingGoesOn`/`PlacingEndsGame` those of `newGame()`; `num` is the loop
variable and `added` tells that the iteration's event has been made and the test
for the end of the game comes next. Three abstractions: the random generator may
return anything; a name is its rank in the string order; a worm has a cell, not
a position and a heading. A round moves a worm by one unit, hence to a
neighbouring cell or nowhere, and never nowhere twice running, because two unit
steps with a turn of at most 90 degrees (`-t` is limited to that) are at least
sqrt(2) long together, which is the open diagonal of a cell. That bound is
`mustLeave`; a worm that is placed starts in the centre of its cell, so its
first round already takes it out.

Every step of `Server` is a step of `Connections` or leaves the table alone, so
what is proved about the table holds of the server.

### Dissemination, Client, Client2

One named client. Games are numbered in the order they are played (their random
ids are taken to be distinct). A datagram is a range of event numbers of a game
and whether it ends with GAME_OVER; the 550-byte limit is `PerDatagram` events.
The network keeps a set of datagrams: any may be lost at any time, delivered
again, or out of order. The client's `screen` is the list of events accepted
since the last NEW_GAME (GAME_OVER included, which client 2 counts but does not
write to its GUI).

Event numbers are read as the code reads them. `ReadAs[n]` is what the signed
chars make of n (`AsRead` of `Numbers`, as a table): the server answers the
number it reads in a report (`Answer`), client 1 compares the one it reads in an
event (`IsExpected`) and goes on through a datagram as long as the numbers it
reads count on (`Taken`, `TakenPart`). Client 2 reads numbers right, but the
server misreads those in its reports as well.

A client can miss a game, or the rest of one, for good. There are two ways.
Client 1 misses GAME_OVER and the log is gone, client 2 misses the NEW_GAME of
the next game. And either of them misses an event whose number is misread, 128
for instance: the server does not answer the report, and client 1 would not know
the event if it came. `Stranded` names these states and `SeenUnlessStranded` says
that a client that does not stay in one of them sees the end of the last game.
Games of more than 128 events, which are common, put client 1 there.

`ShowsWholeGames` has an exception as well: in a game of more than 384 events
client 1, when it waits for 128, takes event 384 for it and shows a gap.
`HasMistake` names such a screen; the property is about all steps that do not
lead to one. Likewise `Shown` with `Replays <- TRUE` says that client 1, which asks for event
0 after GAME_OVER, may show a finished game again; client 2 may not, but may
leave a game unfinished (`ToTheEnd <- FALSE`).

### Numbers

`addNumber()` and two readers. `ReadNumber` is the loop in the server
(`server.cpp:332`) and in client 1 (`client.cpp:205`), which shifts bytes of a
`char` buffer: with the flags of the makefile char is signed, and a byte from
128 on counts as itself less 256. `GetDword` is client 2's. `IsPlain(n)` is the
exact condition under which both agree: the three low bytes are below 128.
`Base` is 256 in the code; runs take a smaller one.

### GuiReader, Wire

`Wire` follows one game from the log to the screen in the sizes of the code.
`plan` says what is played: the lengths of the names, the board, the events and
the turns in which they come. `Answer(n)` is what the server sends for a report
of n: `isDatagramCorrect()` reads n through signed bytes, `sendDatagrams()` packs
by bytes. `Receive` is a whole round of either client over one datagram: number,
fields and list are checked event by event, the first event that is not taken
ends the round and perhaps the client, and the lines for the GUI come out.
Client 1 collects them in a queue (lost if a later event ends it), client 2
writes as it goes; as writing blocks while the connection is full, `WriteLine` is
a step of its own and nothing is received until `out` is empty. The order,
loss and repetition of datagrams are not repeated from `Dissemination`: besides
the answer to the client's report (`ReceiveAnswer`), any single event that is
already in the log, sent when it was new, and the log from its beginning, sent
when the client connected, may arrive at any time and again (`ReceiveOther`).

Client 1 reads event numbers through signed bytes as well. From number 128 on
they come out as something else, mostly huge; but 384 comes out as 128, and a
client that waits for 128 takes event 384 for it. `IsMistaken` says that the log
has come so far that this can happen; `ScreenFollowsLog` makes an exception of
it. The client then reports a number like any other, which no property can tell
from a right one.

A list of players whose length field client 1 reads wrongly is modelled by what
the code does with it: it stops inside the names and ends, or is left amid them
and takes no event (`PlayersRead`, `IsNext`).

`GuiReader` is the rest of the way. `readLine()` on the non-blocking socket gives
up with EAGAIN in the middle of a line and forgets what it had (`CutLine`): what
is left of the line is the `Rest`, which no command matches, or just its newline,
`Empty`, over which `strcmp()` gets NULL. A player past the 20th is not in the
list; eliminating one looks up index -1, and both outcomes are allowed.

### CommandLine

One command line is given to all three programs, one after the other. A text is
a record of what the parsers look at (space first, minus, digits, anything else;
length and characters as a name). `NumFromArg` and `ValidateParameter` are the
two number parsers; `Wrap` is the overflow of `int64_t` in `numFromArg()` as the
build computes it, `Narrow` the assignment to `uint8_t` and `uint16_t`. The
first use of the rate, `setRoundTimer()`, is in `StartFirstGame`. `getopt()`
itself is external: it hands out the options in turn, wherever the operands
stand, and '?' for what it does not know.

### Keys

Two GUIs whose players press the same keys, one with each client. Every key
event is one line, and a line is three pieces here: two halves and the newline.
TCP keeps their order and cuts them anywhere, so a read takes any number of
pieces; the parsers of both clients are recursive functions of the number of
pieces read, with the beginning of a line kept for the next read. Client 1 reads into the buffer that
also receives datagrams, and takes all up to the first zero byte for text.
`cleanBuffer()` stops at the first zero byte too, which a datagram has near its
beginning (the length of the first event), so bytes after it stay:
"LEFT_KEY_UP\n" is as long as the part of a datagram before the kind of its
first event, which is not zero unless that is NEW_GAME. `StaleBytes` is
what may follow the text once a datagram has come. The history variable
`garbled` tells that this has happened; `Client1FollowsKeys` and the part of
`ReleaseIsNoticed` about client 1 hold until then: afterwards a key message of
client 1 may be lost, and its worm goes on turning. A text that fills the whole 4096-byte buffer of
client 1, and mouse buttons, which send the same lines, pressed together with
keys, are left out.

## 3. Runs

| Run | Shows |
|---|---|
| `MCConnections` | all invariants of the table and `NoTakeover`, three slots, six client programs: a restart on the same port, a rival for a name, spectators, two hosts that look alike |
| `MCServerSeries` | three players (two of which may fall silent), a 2 x 1 board, game after game: roster, turn timer, contract of the log, and every game ends |
| `MCServerRules` | two and three worms on a 5 x 1 board: types, count and end, squares, rules |
| `MCClient` | two games of up to seven events over the network, long enough for numbers to be misread and mistaken: what the GUI is shown (refinement of `Display` but for mistakes), and that the last game is shown unless the client is stranded |
| `MCClient2` | the same for client 2 and games of up to six events; it may leave a game unfinished but not show one twice in a row |
| `MCKeys` | every order of key events, lines cut anywhere: both clients turn as the player wants, which is what keeps their different states for it equal; letting go of all keys is noticed |
| `MCScreen` | five games in bytes, either client, a GUI that may start to read late, cut a line, crash or be closed: packing, what ends a client or the GUI, the screen against the log, and that a game is read to its end |
| `MCCommandLine` | command lines of up to two options with texts at every limit: the parameters that result, and in what the clients differ |
| `MCServerNewcomer` | **violated**: a comment says that who comes during a game watches only |
| `MCServerPlacing` | **violated**: an elimination at the start bears the slot, not the number |
| `MCScreenSigned` | **violated**: the board that client 1 shows is not the one that was sent |
| `MCCommandLineRate` | **violated**: `-v 1`, which the tests expect to be allowed, ends the server in its first game |

`findings` in PROJECT.json quotes the lines that the violated runs contradict.

### Bounds, and why they are enough

* Three slots: the interesting patterns of the table (a stale name below, at
  and above its owner's slot; two timers at once; a full table) need two or
  three. The theorems hold for any number.
* Two or three players and boards of 2 and 5 cells: a game that goes on after
  an elimination needs three worms, and two free cells next to the other two; on
  5 x 1 a worm has free, used and outside neighbours, and games take several
  rounds. In `MCServerSeries` the third player never falls
  silent, in `MCServerRules` nobody does: this bounds the environment, and
  `MCNext` says so.
* `Keys = {1}`: left and right differ only in the heading, which is abstracted;
  straight (0) occurs after every game, when `resetData()` clears the directions.
* `MCClient`, `MCClient2`: two games, two events per datagram, two datagrams
  in flight: enough for a datagram of the old game to arrive during the new one,
  for a batch to overlap what was received, and for a gap. `Base = 4`: numbers 2
  and 3 are misread as huge ones, as 128 to 255 are in the code, 4 and 5 are read
  right, and 6 is read as 2, as 384 is as 128. With logs of up to seven events
  (`MCClient`) all of this occurs; without the exception for mistakes
  `ShowsWholeGames` fails there. Client 2 cannot mistake a number, and six events
  let the server misread its reports and read later ones right again.
* `MCScreen`: five games; `Base = 64` makes chars negative from 32 on, so that games are
  short and have numbers on both sides of that. `LongGame` has 101 events, of
  which number 96 is read as 32 (as 384 is read as 128 in the code), a board of
  two bytes that is misread, and pixels likewise; `FullDatagram` fills a datagram
  to exactly 550 bytes, so that 548 is exceeded; in `LongNames` the length of
  NEW_GAME, 96, is misread as 32, just where the second of six names ends, so
  that client 1 goes on with a shorter list; `ShortGame` is read right by every
  reader, has a dot at the edge of the board, and one player more than the list
  holds; in `MisplacedGame` the second of two players starts on a used square and
  is eliminated under number 2, which is his slot and past the list. `MaxDatagram` and `MaxUdp` are the code's. `MaxPlayer = 2` stands for
  20, `MaxPipe = 1` for a full connection, `MaxCuts = 1` line is cut; `MaxNumber`
  only bounds a table.
* `MCCommandLine`: at most two options, which is enough for one to come again
  and for one to be refused after another was kept; the texts lie on both sides
  of every limit, of the widths and of the overflow. `Wide = 2^20` stands for
  2^63, `MaxSeed = 2^18 - 1` for 2^32 - 1.
* `MaxStream = 6`: two whole lines, or the rest of one, a whole one and the
  beginning of a third, on their way to a client; a read may end in any of them.

### Fairness

`Server!Fairness`: the loop never stops (`WF(Next)`: nothing in it blocks, and
poll() returns at the latest with the next timer), and the periodic turn timer,
while armed, is again and again reported as expired.
`Client!Fairness`, `Client2!Fairness`: the server finishes its game (weak); a
client reports for ever, by its 30 ms timer, and some of its reports get through
(weak, as it can always report); and what is sent again and again is not lost for
ever: the answer to a report with the datagram that the client wants, if there is
one, and the delivery of such a datagram (strong, as both are enabled again and
again but not all the time). No answer is assumed that the server does not send:
where it misreads the number, the condition cannot be met and nothing follows. The
client in question is in the end connected for good: it sends 60 reports in the
time in which a disconnection timer expires.
`Wire!Fairness`: games are played on; what is sent again every 30 ms (report and
answer) is not lost for ever; the client's write goes on when there is room, and
the GTK loop calls its idle callback again and again. Nothing is assumed of the
player: the liveness properties start from a key having been pressed.
`Keys!Fairness`: both clients go round their loops for ever and read what has
come; nothing is assumed of the player or of the datagrams.

## 4. Proofs

Every safety invariant, action property and refinement that a run finds to hold
is also a theorem, for all values of the constants; what is left to TLC is
liveness. The assumptions are those stated in the modules, and TLC evaluates
each of them:

| Assumption | Module | Says |
|---|---|---|
| `MaxPlayersAssumption`, `NoNameAssumption`, `ArrivalsAssumption` | `Connections` | there is a slot; the empty name is not a player name; what arrives is well-formed |
| `NameAssumption`, `BoardAssumption` | `Server` | names are ordered like numbers; the board has a square |
| `BoundsAssumption` | `Dissemination` | the bounds are positive numbers, logs have two events at least and less than half of 2^32 |
| `BaseAssumption` | `Numbers` | a byte has 256 values, or the 4 or 64 of a run |
| `GuiAssumption` | `GuiReader` | the list and the connection hold at least one |
| `GamesAssumption` | `Wire` | what `Server` guarantees of a log: NEW_GAME of two names or more, each of 1 to 20 characters, moves of its players with pixels on the board, eliminations of its players or under any slot number from 1 to 25, GAME_OVER; turns only add to it |
| `DatagramAssumption` | `Wire` | every event alone fits into a datagram; in the code the longest, 25 names of 20 bytes, makes exactly 550 |
| `MaxNumberAssumption` | `Wire` | boards and logs stay below half of 2^32 |
| `WideAssumption`, `CommandLinesAssumption` | `CommandLine` | the greatest seed is above 16 bits and within 64; a command line is a sequence of options with some operands |

`HostPort` is any function: nothing depends on clients being told apart
correctly.

`ServerProofs`, first part, about the connection table: `ConnInv`, the conjunction of the type invariant with
`CountsConnected`, `NamesOfConnected`, `NamesAreUnique`, `FirstSlotIsOwners`,
`OneSlotPerHostPort`, `TimersWatchConnected` and `NeverFatal`, is inductive. Most
of its parts are not inductive alone. `activePlayersNum` is decremented once per
expired timer, so it follows `Active` only while timers run for slots in use;
`namesUsed` loses the names of the dropped slots, so it remains right only while
no two of them share a name; `FirstSlotIsOwners` survives a new client because
his name is new to `namesUsed`, hence no connected player has it, and because he
gets the lowest free slot, so that all slots below his are in use. The server
does not give up for lack of a slot because the counter, which `checkDatagram`
tests, is the number of slots in use, which `findFreeIndex` looks at. There is
one lemma per handler. `NoTakeover` follows because `findFreeIndex` gives away
free slots only.

Second part, about the game on top of it:

* `ServerKeepsTable`: the server implements `ConnSpec`, so that all of the above
  holds while games are played.
* `ServerTypeCorrect`, `EndNotMissed`, `TimerCorrect`: `GameInv`, relative to
  `ConnInv`. What has to be added to the three properties is `LoopsInGame`: the
  loops run in games only, and in a game the roster refers to slots. The
  counting argument is in `NamesCounted` (names in use and connected players are
  in bijection, so a new game starts with two players or more) and in
  `WormStepKeepsInv` and `LoopGoesOn` (an iteration takes one player away, and
  the next one is entered with two at least).
* `RosterCorrect`: the search by name is a bijection between the player numbers
  and the connected players; it rests on `FirstSlotIsOwners` and `NamesAreUnique`.
* `ServerKeepsLogContract`: the server implements `EventLog`.
* `CountCorrect`, `SquaresCorrect`: `LogInv`, from the five things a step can do
  to the log (`KindsOfStep`): nothing, open a new one, a pixel on a fresh square,
  an elimination, the end.
* `RulesCorrect`, `WormsStayApart`: `RulesInv`, relative to the three above. The
  rules speak of the log, the steps of slots and marks, and five parts connect
  the two: the players of the log sit in slots of their own (`Seated`); each
  worm placed has made one event, which tells where in the log the placing ends
  and so whether the start was clean (`Paced`); who is dead by the log is marked
  as dead and not heard of again (`Fates`); GAME_OVER is last and leaves one
  (`OverWithOne`); and the living worms are on used squares, one on each
  (`Apart`), which is why a worm that enters a fresh square meets nobody. That
  exactly one is left follows by counting: the eliminations in the log are in
  bijection with the dead.

`DisseminationProofs`, `ClientProofs`, `Client2Proofs`, for any number of games,
any length of logs and any size of datagrams (`BoundsAssumption`): both clients
implement `Display`, client 1 but for the mistakes that `HasMistake` names; and
when no game has more than 384 events there are none (`ShortGamesAreShownWhole`).
The network needs no bound, since the argument is about
single datagrams: `IsTrue(d)` says that a datagram tells nothing that is not in
the log of its game, as far as the server still knows it, and remains so
(`TrueStays`). That is enough for client 1, whose `ClientInv` ties number,
`following` and screen together: it takes only events that it reads as the one it
waits for, so every event on the screen was read as its place there
(`ReadInOrder`), and it waits for number 0 only between games. A number is read
as itself, as a smaller one or as one that is larger than any in use
(`ReadIsBelow`), so an event in a place that is not its own is one with a larger
number, and that is what `HasMistake` says; the start of a game is not among
them, as no other number is read as 0 (`NumbersRead`). Client 2 identifies a game
by its id alone and goes on waiting after GAME_OVER; that nothing can follow needs datagrams of games
that the server has forgotten to agree about where these ended. `Agree` says so
of any two datagrams, and what is shown is treated as one more (`Showing`):
`AgreementStays` is then the same for the network and for the screen. `LogStep`
shows that the server of `Dissemination` keeps the contract of `EventLog`, which
the server of `Server` keeps as well.

`CommandLineProofs`, for command lines of any length and any widths
(`WideAssumption`): `NumFromArgCorrect` and `ParsersAgree` are about the two
parsers alone. `IInv` then says of every program that it has taken a number of
options, that each of them passed, that a parameter is the value of the last
option with its letter among those taken (`Holds`), and that a refusal has a
reason. The properties of `MCCommandLine` follow, and `FailsCorrect`: a rate that
fits ends the server only if it is 1.

`KeysProofs`, for any order of key events and streams of any length. A parser is
a recursive function of the pieces read; the first part shows that it has one
value only and that a message may be cut in two (`CutRun`), by induction in the
form that a set of numbers has a least one (`LeastNat`). `KeysInv` then says
what is true between two reads: the pieces on their way complete the text that
the client holds (`Pending`), and once they are read as well it turns as the
player wants. A key event adds a line at the end of the stream, a read moves
pieces from its front into the text, and the value does not change. For client 1
all this holds until text and datagram have been mixed (`garbled`).

`NumbersProofs`: client 2 reads back what was written (`DwordInverts`); the server
and client 1 do exactly for plain numbers (`ReadsPlainNumbers`); and reading
through signed chars is injective (`ReadingIsInjective`), which is why session
and game ids, read wrongly on both occasions, are still compared correctly.
`ReadIsLessOrHuge`: a number read wrongly is smaller than it was or larger than
any in use, so that no client gets ahead of the log. `SmallAreNotMistaken`: for
numbers below 384 (one and a half times the values of a byte) only the latter
happens.

`WireProofs`, for any games, any limits of datagrams, pipes and lists:

* `PackingCorrect`. Sums of lengths grow (`SumsGrow`), hence a datagram gets
  longer with every event (`SizeGrows`), hence the events that fit are a prefix
  and the greatest is the right place to close it (`FilledFacts`).
  `SendDatagrams` is a recursive function that climbs through the log;
  `AnswerFacts` says by induction what it collects.
* `RefusalsCorrect`: `ClientTyped` ties the number that a client waits for to the
  part of the log that there is, and its list to the one it reads of NEW_GAME.
  `EventsPass` goes through the checks of both clients, `EndHasCause` remembers
  why a client ended. There are three causes: a datagram of 549 or 550 bytes, a
  length of NEW_GAME with a byte that is negative as a char, and the number of a
  slot past the list in an elimination.
* `TypeCorrect`: `Typed`, in addition the lines on their way (`LinesTyped`), which
  name only players in the list that the client has read, whatever the events
  say, and what is shown (`ScreenTyped`), only players that the GUI lists.
* `CrashesHaveCauses`: `ListComesFirst`, that the line of NEW_GAME is obeyed
  before any other that is written, in whatever order datagrams came.
* `ScreenCorrect`: `ScreenFollows`. The screen alone says nothing while lines are
  on their way, so the invariant speaks of all of them: there are pictures over
  which the unread lines lead, one each, from what is on the screen to what the
  client has read (`Leads`). Taking events adds lines at the end (`LeadsForward`),
  the GUI takes one from the front (`LeadsFirst`), and with none left the two
  pictures are the same. This fails, and is not claimed, once event numbers are
  mistaken.

Checked by TLC only: the five liveness properties (`GamesEnd`,
`SeenUnlessStranded` of both clients, `ReleaseIsNoticed`, `WritingEnds`,
`GameIsReadToItsEnd`), which are out of the prover's reach because they rest on fairness, and the four
violated properties, of which a counterexample is all there is to know.

## 5. What the models show of the code

Apart from the four findings in PROJECT.json:

* Client 1 accepts names of more than 20 characters and runs on unheard
  (`IgnoredNamesAreLong`), where `src/tests/tests_300.py:73` expects it to end.
* A client whose GUI has been shown no key reads and reports no more once the
  connection to the GUI is full; its slot on the server expires
  (`WritingEnds` starts from a key press for this reason).
* From event 128 on a lagging client gets no answer from the server. Client 2 goes
  on with events that are sent by themselves as long as none is lost; client 1
  does not know event 128 when it comes. So it sees no more of a game that has more
  than 128 events, takes none of it for over, and ignores all later games, unless
  it takes event 384 for 128 and goes on from there (`Stranded`, `IsShort`).
* A worm placed on a used square is eliminated under its slot; when that is past
  the list, as number 2 is of two players, both clients end (`MisplacedGame`,
  `OnlyMisfitsAreRefused`).
* A datagram of 549 or 550 bytes ends client 2, a NEW_GAME of 128 bytes or more
  ends client 1 or leaves it waiting (`OnlyMisfitsAreRefused`).
* In a game of more than 384 events client 1 may take event 384 for event 128 and
  go on from there with a picture that no longer is that of the log
  (`IsMistaken`, `HasMistake`). Client 2 reads numbers right.
* A number of 20 digits overflows in `numFromArg()` and may be accepted as a
  small one (`IsHuge`).
* A client may miss a game altogether (`Stranded`).
* Client 1 takes pixels outside the board, where `src/tests/client_tests.py:214`
  expects it to end and client 2 does. The server sends none, so no property
  speaks of it.

## 6. What is not modelled, and the plan

* CRC: a polynomial division; the modelled network changes no byte, and nothing
  else depends on its value.
* The GTK side of the GUI: building the window, repainting, fonts; and its
  connection being opened. Sockets, name resolution and error printing are pure
  input and output; a call that fails ends the program. The name of the server
  (`argv[1]`) is only passed to `getaddrinfo()`.
* The speed of the game: expirations of the turn timer that are merged by a late
  read (`server.cpp:212`) and the 2 s that a spectator's slot lives
  (`server.cpp:417`) have no property, as the models have no clock.
* Test programs and the trial programs in `additional_src` and `testClient`.
* Still to do: a proof that a client of `Wire`, with the sizes left out, is a client
  of `Dissemination`, which would join the two halves of the way from
  the log to the screen. At present they are joined by both keeping to the same
  log. Answers that come late are left out of `Wire`: one to an older report is
  ignored, and one that is shorter because it was sent earlier, while the client
  still waits for the same event, does what it would have done on arriving then.
