---------------------------- MODULE Connections ----------------------------
(***************************************************************************)
(* The connection table of the server (src/src/server/server.cpp): which   *)
(* client owns which slot, which names are taken, which disconnection      *)
(* timers run.  The server is one thread that goes round a poll loop; pc   *)
(* names the handler the loop is about to run.  What poll() reports and    *)
(* which datagram recvfrom() returns is the environment's choice, so every *)
(* order of arrivals and expirations is covered.                           *)
(*                                                                         *)
(* The game the server plays is seen here only through resetData(), which  *)
(* clears the turn directions when a game ends; module Server refines the  *)
(* two handlers concerned (Turn and Start).                                *)
(***************************************************************************)
EXTENDS Integers, FiniteSets

CONSTANTS
    MaxPlayers,     \* MAX_NUM_OF_PLAYERS, the number of slots
    Addr,           \* the socket addresses of clients
    NoAddr,         \* the zeroed address of a slot never used
    HostPort,       \* HostPort[a]: what getIPAndPort() makes of address a
    Name,           \* the non-empty player names
    NoName,         \* the empty name of a spectator
    Session,        \* the session ids of clients
    Arrivals        \* the well-formed datagrams that may arrive

Slot == 1..MaxPlayers

Turn == 0..2        \* straight, LEFT_ARR, RIGHT_ARR

Datagram ==
    [addr: Addr, session: Session, turn: Turn, name: Name \cup {NoName}]

ASSUME MaxPlayersAssumption == MaxPlayers \in Nat \ {0}

ASSUME NoNameAssumption == NoName \notin Name

ASSUME ArrivalsAssumption == Arrivals \subseteq Datagram

VARIABLES
    pc,                 \* the handler the loop runs next
    isPlayerActive,     \* per slot: owned by a connected client
    clientAddress,      \* per slot, kept when the client is gone
    sessionId,          \* per slot, kept when the client is gone
    turnDirection,      \* per slot, kept when the client is gone
    playerName,         \* per slot, kept when the client is gone
    activePlayersNum,   \* the counter of connected clients
    namesUsed,          \* the names of connected players
    armed,              \* slots whose disconnection timer runs
    revents             \* slots whose timer poll() reported expired

connVars == <<pc, isPlayerActive, clientAddress, sessionId, turnDirection,
              playerName, activePlayersNum, namesUsed, armed, revents>>

clientData == <<clientAddress, sessionId, playerName>>

tableVars == <<isPlayerActive, clientData, activePlayersNum, namesUsed>>

Phase == {"poll", "turn", "disconnect", "datagram", "start", "fatal"}

ConnInit ==
    /\ pc = "poll"
    /\ isPlayerActive = [s \in Slot |-> FALSE]
    /\ clientAddress = [s \in Slot |-> NoAddr]
    /\ sessionId = [s \in Slot |-> 0]
    /\ turnDirection = [s \in Slot |-> 0]
    /\ playerName = [s \in Slot |-> NoName]
    /\ activePlayersNum = 0
    /\ namesUsed = {}
    /\ armed = {}
    /\ revents = {}

Active == {s \in Slot : isPlayerActive[s]}

(***************************************************************************)
(* poll() returns with any subset of the running timers expired.  A timer  *)
(* that expires later is seen by the next poll(); one that is re-armed     *)
(* before it is read never expired, which is the case of a smaller subset. *)
(***************************************************************************)
Poll ==
    /\ pc = "poll"
    /\ revents' \in SUBSET armed
    /\ pc' = "turn"
    /\ UNCHANGED <<tableVars, turnDirection, armed>>

ResetData == turnDirection' = [s \in Slot |-> 0]

(***************************************************************************)
(* checkNextTurn(), as the table sees it: the round may end the game.      *)
(***************************************************************************)
CheckNextTurn ==
    /\ pc = "turn"
    /\ \/ UNCHANGED turnDirection
       \/ ResetData
    /\ pc' = "disconnect"
    /\ UNCHANGED <<tableVars, armed, revents>>

\* Faults of checkDisconnection(): the timer is periodic; one decrement for
\* all the expired timers; the name stays taken.
FreeSlotsPeriodic ==
    /\ pc = "disconnect"
    /\ activePlayersNum' = activePlayersNum - Cardinality(revents)
    /\ isPlayerActive' =
           [s \in Slot |-> IF s \in revents THEN FALSE ELSE isPlayerActive[s]]
    /\ namesUsed' = namesUsed \ {playerName[s] : s \in revents}
    /\ revents' = {}
    /\ pc' = "datagram"
    /\ UNCHANGED <<clientData, turnDirection, armed>>

FreeSlotsCountedOnce ==
    /\ pc = "disconnect"
    /\ activePlayersNum' = activePlayersNum - IF revents = {} THEN 0 ELSE 1
    /\ isPlayerActive' =
           [s \in Slot |-> IF s \in revents THEN FALSE ELSE isPlayerActive[s]]
    /\ namesUsed' = namesUsed \ {playerName[s] : s \in revents}
    /\ armed' = armed \ revents
    /\ revents' = {}
    /\ pc' = "datagram"
    /\ UNCHANGED <<clientData, turnDirection>>

FreeSlotsKeepNames ==
    /\ pc = "disconnect"
    /\ activePlayersNum' = activePlayersNum - Cardinality(revents)
    /\ isPlayerActive' =
           [s \in Slot |-> IF s \in revents THEN FALSE ELSE isPlayerActive[s]]
    /\ armed' = armed \ revents
    /\ revents' = {}
    /\ pc' = "datagram"
    /\ UNCHANGED <<clientData, turnDirection, namesUsed>>

(***************************************************************************)
(* checkDisconnection(): every slot whose timer expired is freed.  Its     *)
(* name, address and turn direction stay behind in the arrays.             *)
(***************************************************************************)
CheckDisconnection ==
    /\ pc = "disconnect"
    /\ activePlayersNum' = activePlayersNum - Cardinality(revents)
    /\ isPlayerActive' =
           [s \in Slot |-> IF s \in revents THEN FALSE ELSE isPlayerActive[s]]
    /\ namesUsed' = namesUsed \ {playerName[s] : s \in revents}
    /\ armed' = armed \ revents
    /\ revents' = {}
    /\ pc' = "datagram"
    /\ UNCHANGED <<clientData, turnDirection>>

(***************************************************************************)
(* isClientConnected(): slot s is the first connected one whose host and   *)
(* port look like those of address a.                                      *)
(***************************************************************************)
SlotsOf(a) == {s \in Active : HostPort[clientAddress[s]] = HostPort[a]}

IsClientConnected(a, s) ==
    /\ s \in SlotsOf(a)
    /\ \A t \in SlotsOf(a) : s <= t

SetDisconnectionTimer(s) ==
    /\ armed' = armed \cup {s}
    /\ revents' = revents \ {s}

\* Fault: a client that restarted takes over the slot of its predecessor.
AdoptSession(d, s) ==
    /\ d.name \in namesUsed
    /\ sessionId' = [sessionId EXCEPT ![s] = d.session]
    /\ turnDirection' = [turnDirection EXCEPT ![s] = d.turn]
    /\ SetDisconnectionTimer(s)
    /\ pc' = "start"
    /\ UNCHANGED <<isPlayerActive, clientAddress, playerName,
                   activePlayersNum, namesUsed>>

NewDatagramFromAConnectedClient(d, s) ==
    /\ d.session = sessionId[s]
    /\ d.name \in namesUsed
    /\ turnDirection' = [turnDirection EXCEPT ![s] = d.turn]
    /\ SetDisconnectionTimer(s)
    /\ pc' = "start"
    /\ UNCHANGED tableVars

\* Fault: a free slot, but not the lowest.
FindAnyFreeIndex(s) == s \in Slot \ Active

(***************************************************************************)
(* findFreeIndex(): s is the lowest slot that is not in use.               *)
(***************************************************************************)
FindFreeIndex(s) ==
    /\ s \in Slot \ Active
    /\ \A t \in Slot \ Active : s <= t

(***************************************************************************)
(* processNewPlayer(): the client gets the lowest free slot, unless its    *)
(* name is taken.  With no free slot the server gives up (fatal).          *)
(***************************************************************************)
TakeSlot(d, s) ==
    /\ FindFreeIndex(s)
    /\ isPlayerActive' = [isPlayerActive EXCEPT ![s] = TRUE]
    /\ SetDisconnectionTimer(s)
    /\ sessionId' = [sessionId EXCEPT ![s] = d.session]
    /\ turnDirection' = [turnDirection EXCEPT ![s] = d.turn]
    /\ playerName' = [playerName EXCEPT ![s] = d.name]
    /\ clientAddress' = [clientAddress EXCEPT ![s] = d.addr]
    /\ activePlayersNum' = activePlayersNum + 1
    /\ namesUsed' = namesUsed \cup ({d.name} \ {NoName})
    /\ pc' = "start"

\* Fault: the name is not looked up.
ProcessAnyName(d) == \E s \in Slot : TakeSlot(d, s)

ProcessNewPlayer(d) ==
    /\ d.name \notin namesUsed
    /\ \/ \E s \in Slot : TakeSlot(d, s)
       \/ /\ Active = Slot
          /\ pc' = "fatal"
          /\ UNCHANGED <<tableVars, turnDirection, armed, revents>>

(***************************************************************************)
(* checkDatagram(): the guard decides which of the two handlers sees the   *)
(* datagram.  Ignored is a read that finds nothing, a malformed datagram,  *)
(* or one that a guard turns away.                                         *)
(***************************************************************************)
KnownClient(d) ==
    \E s \in Slot :
        /\ IsClientConnected(d.addr, s)
        /\ NewDatagramFromAConnectedClient(d, s)

\* Faults: an address in use is not turned away; one client too many.
AnyAddress(d) ==
    /\ activePlayersNum < MaxPlayers
    /\ ProcessNewPlayer(d)

OneTooMany(d) ==
    /\ SlotsOf(d.addr) = {}
    /\ activePlayersNum <= MaxPlayers
    /\ ProcessNewPlayer(d)

UnknownClient(d) ==
    /\ SlotsOf(d.addr) = {}
    /\ activePlayersNum < MaxPlayers
    /\ ProcessNewPlayer(d)

Ignored ==
    /\ pc' = "start"
    /\ UNCHANGED <<tableVars, turnDirection, armed, revents>>

CheckDatagram ==
    /\ pc = "datagram"
    /\ \/ Ignored
       \/ \E d \in Arrivals : KnownClient(d) \/ UnknownClient(d)

(***************************************************************************)
(* newGame(), as the table sees it: a game may start, and end at once.     *)
(***************************************************************************)
Start ==
    /\ pc = "start"
    /\ \/ UNCHANGED turnDirection
       \/ ResetData
    /\ pc' = "poll"
    /\ UNCHANGED <<tableVars, armed, revents>>

ConnNext ==
    \/ Poll
    \/ CheckNextTurn
    \/ CheckDisconnection
    \/ CheckDatagram
    \/ Start

ConnSpec == ConnInit /\ [][ConnNext]_connVars

-----------------------------------------------------------------------------
(* Properties *)

\* Every variable keeps its type; in particular the unsigned counter of
\* connected clients neither underflows nor passes the number of slots.
ConnTypeOK ==
    /\ pc \in Phase
    /\ isPlayerActive \in [Slot -> BOOLEAN]
    /\ clientAddress \in [Slot -> Addr \cup {NoAddr}]
    /\ sessionId \in [Slot -> Session \cup {0}]
    /\ turnDirection \in [Slot -> Turn]
    /\ playerName \in [Slot -> Name \cup {NoName}]
    /\ activePlayersNum \in 0..MaxPlayers
    /\ namesUsed \subseteq Name
    /\ armed \subseteq Slot
    /\ revents \subseteq Slot

\* activePlayersNum, kept by hand in processNewPlayer() and
\* checkDisconnection(), is the number of slots in use.
CountsConnected == activePlayersNum = Cardinality(Active)

\* namesUsed is exactly the set of names of connected players, whatever
\* order clients come and go in: no name is lost while its owner plays and
\* none stays blocked after its owner is gone.
NamesOfConnected ==
    namesUsed = {playerName[s] : s \in Active} \ {NoName}

\* Two connected players never have the same name.
NamesAreUnique ==
    \A s, t \in Active :
        playerName[s] = playerName[t] => s = t \/ playerName[s] = NoName

\* updateCurrentlyPlayingPlayers() looks a player up by the first slot that
\* holds the name, without asking whether the slot is in use.  That finds
\* the right client although slots keep the names of clients long gone:
\* nobody's name is left behind in a slot below his own.
FirstSlotIsOwners ==
    \A s \in Active : \A t \in 1..(s - 1) :
        playerName[s] # NoName => playerName[t] # playerName[s]

\* isClientConnected() never has two slots to choose from.
OneSlotPerHostPort ==
    \A s, t \in Active :
        HostPort[clientAddress[s]] = HostPort[clientAddress[t]] => s = t

\* A disconnection timer runs for the slots in use and for no other, so a
\* silent client is always noticed and no expiration is ever counted against
\* a slot that is already free.
TimersWatchConnected == armed = Active /\ revents \subseteq Active

\* The server never runs out of slots in processNewPlayer() (line 446).
NeverFatal == pc # "fatal"

\* A slot does not change hands while it is in use: between two owners it is
\* free for at least one turn of the loop.
NoTakeover ==
    [][\A s \in Slot :
           isPlayerActive[s] /\ isPlayerActive'[s] =>
               /\ clientAddress'[s] = clientAddress[s]
               /\ sessionId'[s] = sessionId[s]
               /\ playerName'[s] = playerName[s]]_connVars
=============================================================================
