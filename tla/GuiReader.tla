----------------------------- MODULE GuiReader -----------------------------
(***************************************************************************)
(* The GUI of src/src/gui as the reader of what a client writes to it over *)
(* TCP.  Its GTK main loop calls idle_callback() whenever it has nothing   *)
(* else to do; that reads one line and obeys it, but only once a key has   *)
(* been pressed.  The socket does not block: when a line has arrived in    *)
(* part, readLine() gives up and what it has read of the line is lost.     *)
(*                                                                         *)
(* A line is a record; that of a line which has lost its beginning is the  *)
(* Rest, or the Empty line if no more than the newline is left.  A player  *)
(* is known by his name, a name by its rank.                               *)
(***************************************************************************)
EXTENDS Integers, SequencesExt

CONSTANTS
    MaxPlayer,      \* MAX_PLAYER, 20 in the code
    MaxPipe,        \* bound: lines that the TCP connection holds
    MaxCuts         \* bound: lines that are read in part

ASSUME GuiAssumption ==
    /\ MaxPlayer \in Nat \ {0}
    /\ MaxPipe \in Nat \ {0}
    /\ MaxCuts \in Nat

VARIABLES
    stream,         \* lines written by the client and not yet read
    started,        \* a key has been pressed
    screen,         \* what is shown: the board, the list, crosses, dots
    gui,            \* "running", "ended" or "crashed"
    cuts            \* lines that lost their beginning

guiVars == <<stream, started, screen, gui, cuts>>

Rest == [kind |-> "rest"]

Empty == [kind |-> "empty"]

Blank == [board |-> <<20, 20>>, players |-> <<>>, marked |-> {}, drawn |-> {}]

GuiInit ==
    /\ stream = <<>>
    /\ started = FALSE
    /\ screen = Blank
    /\ gui = "running"
    /\ cuts = 0

\* keyboard_event() for any key, and the arrow buttons.
KeyEvent ==
    /\ gui = "running"
    /\ started' = TRUE
    /\ UNCHANGED <<stream, screen, gui, cuts>>

\* destroy_window().
CloseWindow ==
    /\ gui = "running"
    /\ gui' = "ended"
    /\ UNCHANGED <<stream, started, screen, cuts>>

\* find_player_index() finds the name.
IsListed(p) == \E i \in DOMAIN screen.players : screen.players[i] = p

\* Fault: the list is not cut.
ListUncut(l) == l.players

\* Fault: the last player is left out of the list.
ListTooShort(l) == SubSeq(l.players, 1, Len(l.players) - 1)

\* The list that NEW_GAME makes, cut at MAX_PLAYER.
PlayerList(l) == SubSeq(l.players, 1, Min({Len(l.players), MaxPlayer}))

\* A list with fewer than two names has too few tokens and is ignored.  The
\* new size of the board makes configure_event() clear it.
NewGameCommand(l) ==
    /\ l.kind = "NEW_GAME"
    /\ screen' = IF Len(l.players) < 2 THEN screen
                 ELSE [board |-> l.board, players |-> PlayerList(l),
                       marked |-> {}, drawn |-> {}]
    /\ UNCHANGED gui

PixelCommand(l) ==
    /\ l.kind = "PIXEL"
    /\ screen' = IF IsListed(l.player)
                 THEN [screen EXCEPT !.drawn = @ \cup {<<l.player, l.at>>}]
                 ELSE screen
    /\ UNCHANGED gui

\* A player who is not in the list is looked up at index -1 of it: the label
\* found there is some other memory, and the program may or may not survive.
PlayerEliminatedCommand(l) ==
    /\ l.kind = "PLAYER_ELIMINATED"
    /\ IF IsListed(l.player)
       THEN /\ screen' = [screen EXCEPT !.marked = @ \cup {l.player}]
            /\ UNCHANGED gui
       ELSE /\ gui' \in {"running", "crashed"}
            /\ UNCHANGED screen

\* An empty line has no first token, and strcmp() is called with NULL.
EmptyCommand(l) ==
    /\ l = Empty
    /\ gui' = "crashed"
    /\ UNCHANGED screen

UnknownCommand(l) ==
    /\ l.kind \in {"GAME_OVER", "rest"}
    /\ UNCHANGED <<screen, gui>>

\* process_command()
ProcessCommand(l) ==
    \/ NewGameCommand(l)
    \/ PixelCommand(l)
    \/ PlayerEliminatedCommand(l)
    \/ EmptyCommand(l)
    \/ UnknownCommand(l)

\* idle_callback() with a whole line there.
IdleCallback ==
    /\ started
    /\ gui = "running"
    /\ stream # <<>>
    /\ stream' = Tail(stream)
    /\ ProcessCommand(Head(stream))
    /\ UNCHANGED <<started, cuts>>

\* Fault: after an error of readLine() the callback is taken off the loop.
CutLineAndStop ==
    /\ started
    /\ gui = "running"
    /\ stream # <<>>
    /\ cuts < MaxCuts
    /\ cuts' = cuts + 1
    /\ \E l \in {Rest, Empty} : stream' = <<l>> \o Tail(stream)
    /\ started' = FALSE
    /\ UNCHANGED <<screen, gui>>

\* idle_callback() with a part of a line there: EAGAIN in the middle of it.
CutLine ==
    /\ started
    /\ gui = "running"
    /\ stream # <<>>
    /\ cuts < MaxCuts
    /\ cuts' = cuts + 1
    /\ \E l \in {Rest, Empty} : stream' = <<l>> \o Tail(stream)
    /\ UNCHANGED <<started, screen, gui>>

\* idle_callback() when the client is gone and everything has been read.
EndOfStream ==
    /\ started
    /\ gui = "running"
    /\ stream = <<>>
    /\ gui' = "ended"
    /\ UNCHANGED <<stream, started, screen, cuts>>

\* The client's write(): waits for room.
Write(l) ==
    /\ gui = "running"
    /\ Len(stream) < MaxPipe
    /\ stream' = Append(stream, l)
    /\ UNCHANGED <<started, screen, gui, cuts>>

GuiTypeOK ==
    /\ Len(stream) <= MaxPipe
    /\ started \in BOOLEAN
    /\ DOMAIN screen = {"board", "players", "marked", "drawn"}
    /\ Len(screen.players) <= MaxPlayer
    /\ screen.marked \subseteq ToSet(screen.players)
    /\ {d[1] : d \in screen.drawn} \subseteq ToSet(screen.players)
    /\ gui \in {"running", "ended", "crashed"}
    /\ cuts \in 0..MaxCuts
=============================================================================
