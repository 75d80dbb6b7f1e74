-------------------------------- MODULE Keys --------------------------------
(***************************************************************************)
(* Keys on their way from a player to the turn direction that his client   *)
(* reports: the GUI (src/src/gui/gui2.c) writes one line per key event     *)
(* into a TCP stream, which the client reads in pieces cut anywhere.  Two  *)
(* GUIs are modelled, whose players press the same keys, one with each     *)
(* client, so that the clients can be compared.                            *)
(*                                                                         *)
(* A line is three pieces here: its two halves and the newline.  Client 1  *)
(* reads the stream into the buffer it also uses for datagrams of the game *)
(* server and takes all up to the first zero byte for text; cleanBuffer()  *)
(* clears the buffer only up to its first zero byte.  After a datagram the *)
(* text may therefore go on with bytes of that datagram, Stale here, among *)
(* which there may be one that is a newline.                               *)
(***************************************************************************)
EXTENDS Integers, Sequences

CONSTANT MaxStream      \* pieces on their way to a client at a time

Straight == 0
Right == 1
Left == 2

Key == {Left, Right}

\* LEFT_KEY_DOWN and so on: a key, whether it went down, which half.
Halves == Key \X BOOLEAN \X {1, 2}
Newline == <<"newline">>
Stale == <<"stale">>

Text(key, down) == << <<key, down, 1>>, <<key, down, 2>> >>

VARIABLES
    held,           \* the keys that are down
    last,           \* the key pressed last, or Straight
    stream,         \* stream[c]: the pieces on their way to client c
    bufferUsed,     \* client 1 has read a datagram into its buffer
    garbled,        \* history: client 1 has taken a stale byte for text
    guiMessages,    \* client 1: the text after the last newline
    leftKey,        \* client 1: it is KEY_DOWN
    rightKey,
    gui_comm,       \* client 2: the text after the last newline
    last_turn       \* client 2

guiVars == <<held, last>>
client1Vars == <<bufferUsed, garbled, guiMessages, leftKey, rightKey>>
client2Vars == <<gui_comm, last_turn>>
vars == <<guiVars, stream, client1Vars, client2Vars>>

Init ==
    /\ held = {}
    /\ last = Straight
    /\ stream = [c \in 1..2 |-> <<>>]
    /\ bufferUsed = FALSE
    /\ garbled = FALSE
    /\ guiMessages = <<>>
    /\ leftKey = FALSE
    /\ rightKey = FALSE
    /\ gui_comm = <<>>
    /\ last_turn = Straight

-----------------------------------------------------------------------------
(* The GUI *)

SendMessage(text) ==
    /\ \A c \in 1..2 : Len(stream[c]) + 3 <= MaxStream
    /\ stream' = [c \in 1..2 |-> stream[c] \o text \o <<Newline>>]

\* A key that is held repeats if it is the last one pressed.
KeyPress(k) ==
    /\ k \notin held \/ k = last
    /\ SendMessage(Text(k, TRUE))
    /\ held' = held \cup {k}
    /\ last' = k
    /\ UNCHANGED <<client1Vars, client2Vars>>

KeyRelease(k) ==
    /\ k \in held
    /\ SendMessage(Text(k, FALSE))
    /\ held' = held \ {k}
    /\ UNCHANGED <<last, client1Vars, client2Vars>>

-----------------------------------------------------------------------------
(* Client 1: the state of the parser is the text and the two keys *)

\* Faults: a key pressed leaves the other one down; the text stays after its
\* newline; the beginning of a line is not kept for the next read.
ObeyKeepingOther(s) ==
    CASE s.text = Text(Left, TRUE) -> [s EXCEPT !.left = TRUE]
      [] s.text = Text(Left, FALSE) -> [s EXCEPT !.left = FALSE]
      [] s.text = Text(Right, TRUE) -> [s EXCEPT !.right = TRUE]
      [] s.text = Text(Right, FALSE) -> [s EXCEPT !.right = FALSE]
      [] OTHER -> s

Obey(s) ==
    CASE s.text = Text(Left, TRUE) ->
            [s EXCEPT !.left = TRUE, !.right = FALSE]
      [] s.text = Text(Left, FALSE) -> [s EXCEPT !.left = FALSE]
      [] s.text = Text(Right, TRUE) ->
            [s EXCEPT !.right = TRUE, !.left = FALSE]
      [] s.text = Text(Right, FALSE) -> [s EXCEPT !.right = FALSE]
      [] OTHER -> s

ParsePieceWithoutClear(s, piece) ==
    IF piece = Newline THEN Obey(s) ELSE [s EXCEPT !.text = Append(@, piece)]

ParsePiece(s, piece) ==
    IF piece = Newline THEN [Obey(s) EXCEPT !.text = <<>>]
                       ELSE [s EXCEPT !.text = Append(@, piece)]

\* The state after each piece of a message, from the state s on.
Parse1(s, message) ==
    LET after[i \in 0..Len(message)] ==
            IF i = 0 THEN s ELSE ParsePiece(after[i - 1], message[i])
    IN  after[Len(message)]

ParseForgetful(message) ==
    Parse1([text |-> <<>>, left |-> leftKey, right |-> rightKey], message)

ParseGuiMessage(message) ==
    Parse1([text |-> guiMessages, left |-> leftKey, right |-> rightKey], message)

\* What is read after the end of the text that came in.
StaleBytes ==
    IF bufferUsed
    THEN {<<>>, <<Stale>>, <<Newline>>, <<Stale, Newline>>, <<Newline, Stale>>}
    ELSE {<<>>}

CheckMessageFromGui ==
    \E n \in 1..Len(stream[1]) : \E stale \in StaleBytes :
        LET s == ParseGuiMessage(SubSeq(stream[1], 1, n) \o stale)
        IN  /\ guiMessages' = s.text
            /\ leftKey' = s.left
            /\ rightKey' = s.right
            /\ garbled' = (garbled \/ stale # <<>>)
            /\ stream' = [stream EXCEPT ![1] = SubSeq(@, n + 1, Len(@))]
            /\ UNCHANGED <<guiVars, bufferUsed, client2Vars>>

CheckMessageFromGameServer ==
    /\ bufferUsed' = TRUE
    /\ UNCHANGED <<guiVars, stream, garbled, guiMessages, leftKey, rightKey,
                   client2Vars>>

SetTurnDirection ==
    IF leftKey = rightKey THEN Straight ELSE IF leftKey THEN Left ELSE Right

-----------------------------------------------------------------------------
(* Client 2, which has a buffer of its own for each read *)

\* Fault: any key released means straight on.
MoveStopping(s) ==
    CASE s.text = Text(Left, TRUE) -> [s EXCEPT !.turn = Left]
      [] s.text = Text(Right, TRUE) -> [s EXCEPT !.turn = Right]
      [] s.text \in {Text(Left, FALSE), Text(Right, FALSE)} ->
            [s EXCEPT !.turn = Straight]
      [] OTHER -> s

Move(s) ==
    CASE s.text = Text(Left, TRUE) -> [s EXCEPT !.turn = Left]
      [] s.text = Text(Left, FALSE) /\ s.turn = Left -> [s EXCEPT !.turn = Straight]
      [] s.text = Text(Right, TRUE) -> [s EXCEPT !.turn = Right]
      [] s.text = Text(Right, FALSE) /\ s.turn = Right -> [s EXCEPT !.turn = Straight]
      [] OTHER -> s

MovePiece(s, piece) ==
    IF piece = Newline THEN [Move(s) EXCEPT !.text = <<>>]
                       ELSE [s EXCEPT !.text = Append(@, piece)]

Parse2(s, message) ==
    LET after[i \in 0..Len(message)] ==
            IF i = 0 THEN s ELSE MovePiece(after[i - 1], message[i])
    IN  after[Len(message)]

ParseGuiMsg(message) == Parse2([text |-> gui_comm, turn |-> last_turn], message)

ReceiveFromGui ==
    \E n \in 1..Len(stream[2]) :
        LET s == ParseGuiMsg(SubSeq(stream[2], 1, n))
        IN  /\ gui_comm' = s.text
            /\ last_turn' = s.turn
            /\ stream' = [stream EXCEPT ![2] = SubSeq(@, n + 1, Len(@))]
            /\ UNCHANGED <<guiVars, client1Vars>>

-----------------------------------------------------------------------------

Next ==
    \/ \E k \in Key : KeyPress(k) \/ KeyRelease(k)
    \/ CheckMessageFromGui
    \/ CheckMessageFromGameServer
    \/ ReceiveFromGui

Spec == Init /\ [][Next]_vars

\* Both clients go round their loops for ever and read what has come.
Fairness == WF_vars(CheckMessageFromGui) /\ WF_vars(ReceiveFromGui)

FairSpec == Spec /\ Fairness

-----------------------------------------------------------------------------
(* Properties *)

Beginnings ==
    UNION {{<<>>, SubSeq(Text(k, down), 1, 1), Text(k, down)} :
               k \in Key, down \in BOOLEAN}

\* Every variable keeps its type.  Between two reads client 2, and client 1
\* as long as no stale byte came in, hold the beginning of one line.
TypeOK ==
    /\ held \subseteq Key
    /\ last \in Key \cup {Straight}
    /\ stream \in [1..2 -> Seq(Halves \cup {Newline})]
    /\ bufferUsed \in BOOLEAN
    /\ garbled \in BOOLEAN
    /\ guiMessages \in Seq(Halves \cup {Stale})
    /\ ~garbled => guiMessages \in Beginnings
    /\ leftKey \in BOOLEAN
    /\ rightKey \in BOOLEAN
    /\ gui_comm \in Beginnings
    /\ last_turn \in Key \cup {Straight}

\* What the player wants: the key pressed last, unless he has let it go.
Wanted == IF last \in held THEN last ELSE Straight

\* However TCP cuts the lines, client 2 turns as the player wants once it has
\* read all of them.
Client2FollowsKeys == stream[2] = <<>> => last_turn = Wanted

\* So does client 1, until it takes a stale byte for text.
Client1FollowsKeys == stream[1] = <<>> /\ ~garbled => SetTurnDirection = Wanted

\* A player who lets go of all keys for good goes straight on in the end,
\* with client 2 and, as long as no stale byte comes in, with client 1.
ReleaseIsNoticed ==
    <>[](held = {}) =>
        <>[](last_turn = Straight /\ (garbled \/ SetTurnDirection = Straight))
=============================================================================
