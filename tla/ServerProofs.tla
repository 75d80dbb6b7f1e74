---------------------------- MODULE ServerProofs ----------------------------
(***************************************************************************)
(* The server for every number of slots, every board and every set of      *)
(* clients.  First the connection table by itself.  Then that the game     *)
(* leaves the table to its handlers, so that all that is shown of it holds *)
(* of the server as well, and the invariant of the game itself, on top of  *)
(* that of the table.  Last the log: the contract that clients rely on,    *)
(* the count and squares it determines, and the rules of the game.         *)
(***************************************************************************)
EXTENDS Server, FiniteSetTheorems, FunctionTheorems, TLAPS

-----------------------------------------------------------------------------
(* The connection table *)

\* The invariant of the table.  The names of the table must be known to be
\* those of the connected (NamesOfConnected) for a new name to be known to
\* differ from theirs, and the timers to watch the connected only for the
\* counter to follow.
ConnInv ==
    /\ ConnTypeOK
    /\ CountsConnected
    /\ NamesOfConnected
    /\ NamesAreUnique
    /\ FirstSlotIsOwners
    /\ OneSlotPerHostPort
    /\ TimersWatchConnected
    /\ NeverFatal

\* Slot sets are finite, and there are MaxPlayers slots.
LEMMA SlotsFinite ==
    /\ IsFiniteSet(Slot)
    /\ Cardinality(Slot) = MaxPlayers
    /\ \A S \in SUBSET Slot :
           IsFiniteSet(S) /\ Cardinality(S) \in 0..MaxPlayers
<1>1. IsFiniteSet(Slot) /\ Cardinality(Slot) = MaxPlayers
  BY FS_Interval, MaxPlayersAssumption DEF Slot
<1>2. ASSUME NEW S \in SUBSET Slot
      PROVE  IsFiniteSet(S) /\ Cardinality(S) \in 0..MaxPlayers
  BY <1>1, FS_Subset, FS_CardinalityType, MaxPlayersAssumption
<1>3. QED
  BY <1>1, <1>2

\* An empty table satisfies the invariant.
LEMMA ConnInvInit == ConnInit => ConnInv
<1> SUFFICES ASSUME ConnInit PROVE ConnInv
  OBVIOUS
<1>1. Active = {}
  BY DEF ConnInit, Active
<1>2. ConnTypeOK
  BY MaxPlayersAssumption DEF ConnInit, ConnTypeOK, Phase, Turn
<1>3. CountsConnected
  BY <1>1, FS_EmptySet DEF ConnInit, CountsConnected
<1>4. NamesOfConnected /\ NamesAreUnique /\ FirstSlotIsOwners
      /\ OneSlotPerHostPort /\ TimersWatchConnected /\ NeverFatal
  BY <1>1 DEF ConnInit, NamesOfConnected, NamesAreUnique, FirstSlotIsOwners,
     OneSlotPerHostPort, TimersWatchConnected, NeverFatal
<1>5. QED
  BY <1>2, <1>3, <1>4 DEF ConnInv

\* A step that leaves the table alone, moves the loop on and keeps the
\* timers of exactly the connected running preserves the invariant.
LEMMA TableUntouched ==
    ASSUME ConnInv, UNCHANGED tableVars, pc' \in Phase \ {"fatal"},
           turnDirection' \in [Slot -> Turn], armed' = Active,
           revents' \subseteq Active
    PROVE  ConnInv'
<1>1. Active' = Active /\ Active \subseteq Slot
  BY DEF tableVars, Active
<1>2. ConnTypeOK'
  BY <1>1 DEF ConnInv, ConnTypeOK, tableVars, clientData
<1>3. CountsConnected' /\ NamesOfConnected' /\ TimersWatchConnected'
  BY <1>1 DEF ConnInv, CountsConnected, NamesOfConnected,
     TimersWatchConnected, tableVars, clientData
<1>4. NamesAreUnique' /\ FirstSlotIsOwners' /\ OneSlotPerHostPort'
  BY <1>1 DEF ConnInv, NamesAreUnique, FirstSlotIsOwners,
     OneSlotPerHostPort, tableVars, clientData
<1>5. QED
  BY <1>2, <1>3, <1>4 DEF ConnInv, NeverFatal

LEMMA PollKeepsInv == ConnInv /\ Poll => ConnInv'
<1> SUFFICES ASSUME ConnInv, Poll PROVE ConnInv'
  OBVIOUS
<1>1. armed' = Active /\ revents' \subseteq Active /\ UNCHANGED tableVars
  BY DEF ConnInv, TimersWatchConnected, Poll
<1>2. pc' \in Phase \ {"fatal"} /\ turnDirection' \in [Slot -> Turn]
  BY DEF ConnInv, ConnTypeOK, Poll, Phase
<1>3. QED
  BY <1>1, <1>2, TableUntouched

LEMMA CheckNextTurnKeepsInv == ConnInv /\ CheckNextTurn => ConnInv'
<1> SUFFICES ASSUME ConnInv, CheckNextTurn PROVE ConnInv'
  OBVIOUS
<1>1. armed' = Active /\ revents' \subseteq Active /\ UNCHANGED tableVars
  BY DEF ConnInv, TimersWatchConnected, CheckNextTurn
<1>2. pc' \in Phase \ {"fatal"} /\ turnDirection' \in [Slot -> Turn]
  BY DEF ConnInv, ConnTypeOK, CheckNextTurn, Phase, ResetData, Turn
<1>3. QED
  BY <1>1, <1>2, TableUntouched

LEMMA StartKeepsInv == ConnInv /\ Start => ConnInv'
<1> SUFFICES ASSUME ConnInv, Start PROVE ConnInv'
  OBVIOUS
<1>1. armed' = Active /\ revents' \subseteq Active /\ UNCHANGED tableVars
  BY DEF ConnInv, TimersWatchConnected, Start
<1>2. pc' \in Phase \ {"fatal"} /\ turnDirection' \in [Slot -> Turn]
  BY DEF ConnInv, ConnTypeOK, Start, Phase, ResetData, Turn
<1>3. QED
  BY <1>1, <1>2, TableUntouched

\* The disconnected take their names with them: nobody else has them.
LEMMA DisconnectionKeepsInv == ConnInv /\ CheckDisconnection => ConnInv'
<1> SUFFICES ASSUME ConnInv, CheckDisconnection PROVE ConnInv'
  OBVIOUS
<1> USE DEF ConnInv
<1>1. revents \subseteq Active /\ Active \subseteq Slot /\ armed = Active
  BY DEF TimersWatchConnected, Active
<1>2. Active' = Active \ revents
  BY <1>1 DEF CheckDisconnection, Active, ConnTypeOK
<1>3. playerName' = playerName /\ clientAddress' = clientAddress
      /\ sessionId' = sessionId /\ turnDirection' = turnDirection
  BY DEF CheckDisconnection, clientData
<1>4. CountsConnected'
  <2>1. Active \cap revents = revents
    BY <1>1
  <2>2. Cardinality(Active \ revents)
            = Cardinality(Active) - Cardinality(revents)
    BY <1>1, <2>1, SlotsFinite, FS_Difference
  <2>3. QED
    BY <1>2, <2>2 DEF CountsConnected, CheckDisconnection
<1>5. NamesOfConnected'
  <2>1. \A s \in Active \ revents : \A t \in revents :
            playerName[s] = playerName[t] => playerName[s] = NoName
    BY <1>1 DEF NamesAreUnique
  <2>2. namesUsed' = {playerName[s] : s \in Active \ revents} \ {NoName}
    BY <1>1, <2>1 DEF NamesOfConnected, CheckDisconnection
  <2>3. QED
    BY <1>2, <1>3, <2>2 DEF NamesOfConnected
<1>6. NamesAreUnique' /\ FirstSlotIsOwners' /\ OneSlotPerHostPort'
  BY <1>2, <1>3 DEF NamesAreUnique, FirstSlotIsOwners, OneSlotPerHostPort
<1>7. TimersWatchConnected' /\ NeverFatal'
  BY <1>1, <1>2 DEF TimersWatchConnected, CheckDisconnection, NeverFatal
<1>8. ConnTypeOK'
  <2>1. activePlayersNum' \in 0..MaxPlayers
    BY <1>4, <1>2, <1>1, SlotsFinite DEF CountsConnected
  <2>2. isPlayerActive' \in [Slot -> BOOLEAN] /\ pc' \in Phase
        /\ namesUsed' \subseteq Name /\ armed' \subseteq Slot
        /\ revents' \subseteq Slot
    BY DEF ConnTypeOK, CheckDisconnection, Phase
  <2>3. QED
    BY <1>3, <2>1, <2>2 DEF ConnTypeOK
<1>9. QED
  BY <1>4, <1>5, <1>6, <1>7, <1>8

LEMMA KnownClientKeepsInv ==
    ASSUME ConnInv, NEW d \in Arrivals, KnownClient(d)
    PROVE  ConnInv'
<1>1. PICK s \in Slot : IsClientConnected(d.addr, s)
                        /\ NewDatagramFromAConnectedClient(d, s)
  BY DEF KnownClient
<1>2. d.turn \in Turn /\ s \in Active
  BY <1>1, ArrivalsAssumption DEF Datagram, IsClientConnected, SlotsOf
<1>3. armed' = Active /\ revents' \subseteq Active /\ UNCHANGED tableVars
  BY <1>1, <1>2 DEF ConnInv, TimersWatchConnected, SetDisconnectionTimer,
     NewDatagramFromAConnectedClient
<1>4. pc' \in Phase \ {"fatal"} /\ turnDirection' \in [Slot -> Turn]
  BY <1>1, <1>2 DEF ConnInv, ConnTypeOK, Phase, NewDatagramFromAConnectedClient
<1>5. QED
  BY <1>3, <1>4, TableUntouched

\* A newcomer gets the lowest free slot: the slots below are all in use, so
\* their names are not his, and the name he leaves in his slot is not that
\* of anybody above.
LEMMA TakeSlotKeepsInv ==
    ASSUME ConnInv, NEW d \in Arrivals, NEW s \in Slot,
           SlotsOf(d.addr) = {}, d.name \notin namesUsed, TakeSlot(d, s)
    PROVE  ConnInv'
<1> USE DEF ConnInv
<1>1. /\ d.addr \in Addr /\ d.session \in Session /\ d.turn \in Turn
      /\ d.name \in Name \cup {NoName}
  BY ArrivalsAssumption DEF Datagram
<1>2. s \notin Active /\ \A t \in Slot : t < s => t \in Active
  BY MaxPlayersAssumption DEF TakeSlot, FindFreeIndex, Slot
<1>3. Active' = Active \cup {s} /\ Active \subseteq Slot
  BY DEF TakeSlot, Active, ConnTypeOK
<1>4. /\ playerName' = [playerName EXCEPT ![s] = d.name]
      /\ clientAddress' = [clientAddress EXCEPT ![s] = d.addr]
      /\ playerName \in [Slot -> Name \cup {NoName}]
      /\ clientAddress \in [Slot -> Addr \cup {NoAddr}]
  BY DEF TakeSlot, ConnTypeOK
<1>5. \A t \in Active : t # s /\ playerName'[t] = playerName[t]
                        /\ clientAddress'[t] = clientAddress[t]
  BY <1>2, <1>3, <1>4
<1>6. playerName'[s] = d.name /\ clientAddress'[s] = d.addr
  BY <1>4
<1>7. \A t \in Active : playerName[t] = d.name => d.name = NoName
  BY DEF NamesOfConnected
<1>8. CountsConnected'
  <2>1. Cardinality(Active \cup {s}) = Cardinality(Active) + 1
    BY <1>2, <1>3, SlotsFinite, FS_AddElement
  <2>2. QED
    BY <1>3, <2>1 DEF CountsConnected, TakeSlot
<1>9. NamesOfConnected'
  <2>1. {playerName'[t] : t \in Active'}
            = {playerName[t] : t \in Active} \cup {d.name}
    BY <1>3, <1>5, <1>6
  <2>2. QED
    BY <2>1 DEF NamesOfConnected, TakeSlot
<1>10. NamesAreUnique'
  BY <1>3, <1>5, <1>6, <1>7 DEF NamesAreUnique
<1>11. FirstSlotIsOwners'
  <2> SUFFICES ASSUME NEW u \in Active', NEW t \in 1..(u - 1),
                      playerName'[u] # NoName
               PROVE  playerName'[t] # playerName'[u]
    BY DEF FirstSlotIsOwners
  <2>1. t \in Slot /\ t < u
    BY <1>3, MaxPlayersAssumption DEF Slot
  <2>2. CASE u = s
    BY <2>1, <2>2, <1>2, <1>5, <1>6, <1>7
  <2>3. CASE u # s /\ t = s
    BY <2>3, <1>3, <1>5, <1>6, <1>7
  <2>4. CASE u # s /\ t # s
    BY <2>1, <2>4, <1>3, <1>4, <1>5 DEF FirstSlotIsOwners
  <2>5. QED
    BY <2>2, <2>3, <2>4
<1>12. OneSlotPerHostPort'
  <2>1. \A t \in Active : HostPort[clientAddress[t]] # HostPort[d.addr]
    BY DEF SlotsOf
  <2>2. QED
    BY <2>1, <1>3, <1>5, <1>6 DEF OneSlotPerHostPort
<1>13. TimersWatchConnected' /\ NeverFatal'
  BY <1>3 DEF TimersWatchConnected, NeverFatal, TakeSlot,
     SetDisconnectionTimer
<1>14. ConnTypeOK'
  <2>1. activePlayersNum' \in 0..MaxPlayers
    BY <1>8, <1>3, SlotsFinite DEF CountsConnected
  <2>2. isPlayerActive' \in [Slot -> BOOLEAN]
        /\ sessionId' \in [Slot -> Session \cup {0}]
        /\ turnDirection' \in [Slot -> Turn]
        /\ namesUsed' \subseteq Name /\ pc' \in Phase
    BY <1>1 DEF ConnTypeOK, TakeSlot, Phase
  <2>3. playerName' \in [Slot -> Name \cup {NoName}]
        /\ clientAddress' \in [Slot -> Addr \cup {NoAddr}]
    BY <1>1, <1>4
  <2>4. armed' \subseteq Slot /\ revents' \subseteq Slot
    BY DEF ConnTypeOK, TakeSlot, SetDisconnectionTimer
  <2>5. QED
    BY <2>1, <2>2, <2>3, <2>4 DEF ConnTypeOK
<1>15. QED
  BY <1>8, <1>9, <1>10, <1>11, <1>12, <1>13, <1>14

\* The table is never full when a newcomer is let in: the counter that the
\* guard of checkDatagram() reads is the number of slots in use.
LEMMA UnknownClientKeepsInv ==
    ASSUME ConnInv, NEW d \in Arrivals, UnknownClient(d)
    PROVE  ConnInv'
<1>1. Active # Slot
  BY SlotsFinite, MaxPlayersAssumption
     DEF ConnInv, CountsConnected, UnknownClient
<1>2. PICK s \in Slot : TakeSlot(d, s)
  BY <1>1 DEF UnknownClient, ProcessNewPlayer
<1>3. QED
  BY <1>2, TakeSlotKeepsInv DEF UnknownClient, ProcessNewPlayer

LEMMA CheckDatagramKeepsInv == ConnInv /\ CheckDatagram => ConnInv'
<1> SUFFICES ASSUME ConnInv, CheckDatagram PROVE ConnInv'
  OBVIOUS
<1>1. CASE Ignored
  <2>1. armed' = Active /\ revents' \subseteq Active /\ UNCHANGED tableVars
    BY <1>1 DEF ConnInv, TimersWatchConnected, Ignored
  <2>2. pc' \in Phase \ {"fatal"} /\ turnDirection' \in [Slot -> Turn]
    BY <1>1 DEF ConnInv, ConnTypeOK, Ignored, Phase
  <2>3. QED
    BY <2>1, <2>2, TableUntouched
<1>2. CASE \E d \in Arrivals : KnownClient(d)
  BY <1>2, KnownClientKeepsInv
<1>3. CASE \E d \in Arrivals : UnknownClient(d)
  BY <1>3, UnknownClientKeepsInv
<1>4. QED
  BY <1>1, <1>2, <1>3 DEF CheckDatagram

\* Every step of the table, and every step that does not touch it, preserves
\* the invariant.
LEMMA ConnInvNext == ConnInv /\ [ConnNext]_connVars => ConnInv'
<1> SUFFICES ASSUME ConnInv, [ConnNext]_connVars PROVE ConnInv'
  OBVIOUS
<1>1. CASE UNCHANGED connVars
  BY <1>1 DEF ConnInv, connVars, clientData, ConnTypeOK, CountsConnected,
     NamesOfConnected, NamesAreUnique, FirstSlotIsOwners, OneSlotPerHostPort,
     TimersWatchConnected, NeverFatal, Active
<1>2. CASE ConnNext
  BY <1>2, PollKeepsInv, CheckNextTurnKeepsInv, DisconnectionKeepsInv,
     CheckDatagramKeepsInv, StartKeepsInv DEF ConnNext
<1>3. QED
  BY <1>1, <1>2

LEMMA ConnInvAlways == ConnSpec => []ConnInv
  BY ConnInvInit, ConnInvNext, PTL DEF ConnSpec

\* The variables of the table keep their types.
THEOREM ConnTypeCorrect == ConnSpec => []ConnTypeOK
<1>1. ConnInv => ConnTypeOK
  BY DEF ConnInv
<1>2. QED
  BY <1>1, ConnInvAlways, PTL

\* The counter of connected clients is the number of slots in use.
THEOREM CounterCorrect == ConnSpec => []CountsConnected
<1>1. ConnInv => CountsConnected
  BY DEF ConnInv
<1>2. QED
  BY <1>1, ConnInvAlways, PTL

\* The names in use are those of the connected.
THEOREM NamesCorrect == ConnSpec => []NamesOfConnected
<1>1. ConnInv => NamesOfConnected
  BY DEF ConnInv
<1>2. QED
  BY <1>1, ConnInvAlways, PTL

\* No two of the connected share a name, in whatever order clients come,
\* fall silent and come back.
THEOREM NamesDiffer == ConnSpec => []NamesAreUnique
<1>1. ConnInv => NamesAreUnique
  BY DEF ConnInv
<1>2. QED
  BY <1>1, ConnInvAlways, PTL

\* The search of updateCurrentlyPlayingPlayers() finds a player's own slot
\* although slots keep the names of clients that are gone.
THEOREM NameLookupCorrect == ConnSpec => []FirstSlotIsOwners
<1>1. ConnInv => FirstSlotIsOwners
  BY DEF ConnInv
<1>2. QED
  BY <1>1, ConnInvAlways, PTL

\* No two slots belong to one host and port as the server sees them.
THEOREM SlotsAreDistinct == ConnSpec => []OneSlotPerHostPort
<1>1. ConnInv => OneSlotPerHostPort
  BY DEF ConnInv
<1>2. QED
  BY <1>1, ConnInvAlways, PTL

\* The disconnection timers that run are those of the connected.
THEOREM TimersCorrect == ConnSpec => []TimersWatchConnected
<1>1. ConnInv => TimersWatchConnected
  BY DEF ConnInv
<1>2. QED
  BY <1>1, ConnInvAlways, PTL

\* processNewPlayer() always finds a slot: the fatal() of line 446 is dead.
THEOREM NoFatal == ConnSpec => []NeverFatal
<1>1. ConnInv => NeverFatal
  BY DEF ConnInv
<1>2. QED
  BY <1>1, ConnInvAlways, PTL

\* A slot in use keeps its owner.
THEOREM OwnersStay == ConnSpec => NoTakeover
<1>1. ConnInv /\ [ConnNext]_connVars =>
          [\A s \in Slot :
              isPlayerActive[s] /\ isPlayerActive'[s] =>
                  /\ clientAddress'[s] = clientAddress[s]
                  /\ sessionId'[s] = sessionId[s]
                  /\ playerName'[s] = playerName[s]]_connVars
  <2> SUFFICES ASSUME ConnInv, ConnNext, NEW s \in Slot, isPlayerActive[s]
               PROVE  /\ clientAddress'[s] = clientAddress[s]
                      /\ sessionId'[s] = sessionId[s]
                      /\ playerName'[s] = playerName[s]
    OBVIOUS
  <2>1. CASE UNCHANGED clientData
    BY <2>1 DEF clientData
  <2>2. CASE \E d \in Arrivals, t \in Slot : TakeSlot(d, t)
    <3>1. PICK d \in Arrivals, t \in Slot : TakeSlot(d, t)
      BY <2>2
    <3>2. s # t
      BY <3>1 DEF TakeSlot, FindFreeIndex, Active
    <3>3. QED
      BY <3>1, <3>2 DEF TakeSlot, ConnInv, ConnTypeOK
  <2>3. QED
    BY <2>1, <2>2 DEF ConnNext, Poll, CheckNextTurn, CheckDisconnection,
       CheckDatagram, Start, Ignored, KnownClient, UnknownClient, tableVars,
       NewDatagramFromAConnectedClient, ProcessNewPlayer
<1>2. QED
  BY <1>1, ConnInvAlways, PTL DEF ConnSpec, NoTakeover

-----------------------------------------------------------------------------
(* The game *)

\* A step of the server is a step of the table, or leaves it alone.
LEMMA StepOfTable == [Next]_vars => [ConnNext]_connVars
<1> SUFFICES ASSUME [Next]_vars PROVE [ConnNext]_connVars
  OBVIOUS
<1>1. CASE PollAll
  BY <1>1 DEF PollAll, ConnNext
<1>2. CASE NoTurn
  <2>1. CheckNextTurn
    BY <1>2 DEF NoTurn, CheckNextTurn
  <2>2. QED
    BY <2>1 DEF ConnNext
<1>3. CASE Round
  <2>1. CASE BeginTurn
    BY <2>1 DEF BeginTurn
  <2>2. CASE MoveWorm
    BY <2>2 DEF MoveWorm
  <2>3. CASE SkipWorm
    BY <2>3 DEF SkipWorm
  <2>4. CASE TurnGoesOn
    <3>1. CASE num < MaxPlayers /\ NextIteration /\ UNCHANGED <<pc, turnTimer>>
      BY <2>4, <3>1 DEF TurnGoesOn, connVars, tableVars, clientData
    <3>2. CASE pc' = "disconnect"
      <4>1. CheckNextTurn
        BY <2>4, <3>2 DEF TurnGoesOn, CheckNextTurn
      <4>2. QED
        BY <4>1 DEF ConnNext
    <3>3. QED
      BY <2>4, <3>1, <3>2 DEF TurnGoesOn
  <2>5. CASE TurnEndsGame
    <3>1. CheckNextTurn
      BY <2>5 DEF TurnEndsGame, AddGameOverEvent, CheckNextTurn
    <3>2. QED
      BY <3>1 DEF ConnNext
  <2>6. QED
    BY <1>3, <2>1, <2>2, <2>3, <2>4, <2>5 DEF Round
<1>4. CASE Disconnections
  BY <1>4 DEF Disconnections, ConnNext
<1>5. CASE ReadDatagram
  BY <1>5 DEF ReadDatagram, ConnNext
<1>6. CASE NoNewGame
  <2>1. Start
    BY <1>6 DEF NoNewGame, Start
  <2>2. QED
    BY <2>1 DEF ConnNext
<1>7. CASE StartGame
  <2>1. CASE NewGame
    BY <2>1 DEF NewGame
  <2>2. CASE PlaceWorm
    BY <2>2 DEF PlaceWorm
  <2>3. CASE SkipPlace
    BY <2>3 DEF SkipPlace
  <2>4. CASE PlacingGoesOn
    <3>1. CASE num < MaxPlayers /\ NextIteration /\ UNCHANGED pc
      BY <2>4, <3>1 DEF PlacingGoesOn, connVars, tableVars, clientData
    <3>2. CASE pc' = "poll"
      <4>1. Start
        BY <2>4, <3>2 DEF PlacingGoesOn, Start
      <4>2. QED
        BY <4>1 DEF ConnNext
    <3>3. QED
      BY <2>4, <3>1, <3>2 DEF PlacingGoesOn
  <2>5. CASE PlacingEndsGame
    <3>1. Start
      BY <2>5 DEF PlacingEndsGame, AddGameOverEvent, Start
    <3>2. QED
      BY <3>1 DEF ConnNext
  <2>6. QED
    BY <1>7, <2>1, <2>2, <2>3, <2>4, <2>5 DEF StartGame
<1>8. CASE UNCHANGED vars
  BY <1>8 DEF vars
<1>9. QED
  BY <1>1, <1>2, <1>3, <1>4, <1>5, <1>6, <1>7, <1>8 DEF Next, Handle

\* The server implements the connection table: playing games never disturbs
\* who is connected, and the invariant of the table holds of the server.
THEOREM ServerKeepsTable == Spec => ConnSpec
<1>1. Init => ConnInit
  BY DEF Init
<1>2. QED
  BY <1>1, StepOfTable, PTL DEF Spec, ConnSpec

LEMMA TableAlways == Spec => []ConnInv
  BY ServerKeepsTable, ConnInvAlways, PTL
-----------------------------------------------------------------------------
(* The names of the connected players, counted and put in order *)

\* There are as many names in use as players: each player has one of his own.
LEMMA NamesCounted ==
    ASSUME ConnInv
    PROVE  /\ Players \subseteq Slot
           /\ Players = {s \in Active : playerName[s] \in namesUsed}
           /\ namesUsed = {playerName[s] : s \in Players}
           /\ IsFiniteSet(Players) /\ Cardinality(Players) \in 0..MaxPlayers
           /\ IsFiniteSet(namesUsed)
           /\ Cardinality(namesUsed) = Cardinality(Players)
<1> DEFINE name == [s \in Players |-> playerName[s]]
<1>1. Active \subseteq Slot /\ Players \subseteq Active
  BY DEF Active, Players
<1>2. namesUsed = {playerName[s] : s \in Players}
  BY DEF ConnInv, NamesOfConnected, Players
<1>3. Players = {s \in Active : playerName[s] \in namesUsed}
  BY <1>2 DEF ConnInv, NamesOfConnected, Players
<1>4. IsFiniteSet(Players) /\ Cardinality(Players) \in 0..MaxPlayers
  BY <1>1, SlotsFinite
<1>5. name \in Bijection(Players, namesUsed)
  <2>1. \A s, t \in Players : playerName[s] = playerName[t] => s = t
    BY <1>1 DEF ConnInv, NamesAreUnique, Players
  <2>2. name \in [Players -> namesUsed]
    BY <1>2
  <2>3. name \in Injection(Players, namesUsed)
    BY <2>1, <2>2, Fun_IsInj
  <2>4. name \in Surjection(Players, namesUsed)
    BY <1>2, <2>2, Fun_IsSurj
  <2>5. QED
    BY <2>3, <2>4, Fun_IsBij
<1>6. IsFiniteSet(namesUsed) /\ Cardinality(namesUsed) = Cardinality(Players)
  BY <1>4, <1>5, FS_Bijection DEF ExistsBijection
<1>7. QED
  BY <1>1, <1>2, <1>3, <1>4, <1>6

\* The names put in order are all the names, each once.
LEMMA InOrderSeq ==
    ASSUME NEW S \in SUBSET Name, IsFiniteSet(S), NEW p \in InOrder(S)
    PROVE  /\ p \in Seq(S)
           /\ Len(p) = Cardinality(S)
           /\ \A i, j \in 1..Len(p) : p[i] = p[j] => i = j
           /\ S = {p[i] : i \in 1..Len(p)}
<1> DEFINE size == Cardinality(S)
<1>1. size \in Nat
  BY FS_CardinalityType
<1>2. p \in [1..size -> S] /\ \A i, j \in 1..size : i < j => p[i] < p[j]
  BY DEF InOrder
<1>3. p \in Seq(S) /\ Len(p) = size
  BY <1>1, <1>2
<1>4. ASSUME NEW i \in 1..size, NEW j \in 1..size, p[i] = p[j]
      PROVE  i = j
  <2>1. p[i] \in Nat /\ p[j] \in Nat
    BY <1>2, NameAssumption
  <2>2. i \in Int /\ j \in Int /\ (i < j => p[i] < p[j]) /\ (j < i => p[j] < p[i])
    BY <1>1, <1>2
  <2>3. QED
    BY <2>1, <2>2, <1>4
<1>5. p \in Injection(1..size, S)
  BY <1>2, <1>4, Fun_IsInj
<1>6. Cardinality(1..size) = size
  BY <1>1, FS_Interval
<1>7. p \in Surjection(1..size, S)
  BY <1>5, <1>6, FS_Injection
<1>8. S = {p[i] : i \in 1..size}
  <2>1. \A x \in S : \E i \in 1..size : p[i] = x
    BY <1>7, Fun_IsSurj DEF Surjection
  <2>2. QED
    BY <1>2, <2>1
<1>9. QED
  BY <1>3, <1>4, <1>8

-----------------------------------------------------------------------------
(* The game *)

\* The loops over the player numbers run in a game only, and in a game the
\* players' slots are slots.
LoopsInGame ==
    /\ num # -1 => gamePlayed /\ pc \in {"turn", "start"}
    /\ added => num # -1
    /\ gamePlayed => \A n \in Num : playingPlayerDataIndex[n] \in Slot \cup {-1}

GameInv ==
    /\ ServerTypeOK
    /\ EndIsNotMissed
    /\ TimerRunsWithGame
    /\ LoopsInGame

LEMMA GameInvInit == Init => GameInv
<1> SUFFICES ASSUME Init PROVE GameInv
  OBVIOUS
<1>1. ConnTypeOK
  BY ConnInvInit DEF Init, ConnInv
<1>2. <<0, 0>> \in Cell
  BY BoardAssumption DEF Cell
<1>3. playingPlayerDataIndex \in [Num -> -1..MaxPlayers]
  BY MaxPlayersAssumption DEF Init
<1>4. ServerTypeOK
  <2>1. num \in -1..MaxPlayers /\ playersInTheGame \in 0..MaxPlayers
    BY MaxPlayersAssumption DEF Init
  <2>2. roundedPlayerWorm \in [Slot -> Cell]
    BY <1>2 DEF Init
  <2>3. /\ playingPlayerName \in [Num -> Name \cup {NoName}]
        /\ isPlayerDead \in [Num -> BOOLEAN]
        /\ takesPartInTheCurrentGame \in [Slot -> BOOLEAN]
        /\ mustLeave \in [Slot -> BOOLEAN]
    BY DEF Init
  <2>4. QED
    BY <1>1, <1>3, <2>1, <2>2, <2>3 DEF Init, ServerTypeOK
<1>5. EndIsNotMissed /\ TimerRunsWithGame /\ LoopsInGame
  BY DEF Init, EndIsNotMissed, TimerRunsWithGame, LoopsInGame
<1>6. QED
  BY <1>4, <1>5 DEF GameInv

\* Steps between two games or rounds that leave the game alone.
LEMMA GameUntouched ==
    ASSUME GameInv, ConnTypeOK', UNCHANGED <<gameVars, loopVars>>,
           \/ UNCHANGED turnTimer
           \/ turnTimer = "armed" /\ turnTimer' = "due",
           num = -1
    PROVE  GameInv'
<1>1. ServerTypeOK'
  BY DEF GameInv, ServerTypeOK, gameVars, loopVars
<1>2. EndIsNotMissed' /\ TimerRunsWithGame' /\ LoopsInGame'
  BY DEF GameInv, EndIsNotMissed, TimerRunsWithGame, LoopsInGame,
     gameVars, loopVars
<1>3. QED
  BY <1>1, <1>2 DEF GameInv

\* An iteration for a worm that takes no part.
LEMMA SkipKeepsInv ==
    ASSUME GameInv, UNCHANGED <<connVars, gameVars, turnTimer, num>>,
           num >= 0, added' = TRUE
    PROVE  GameInv'
<1>1. ServerTypeOK'
  BY DEF GameInv, ServerTypeOK, gameVars, connVars, ConnTypeOK
<1>2. EndIsNotMissed' /\ TimerRunsWithGame' /\ LoopsInGame'
  BY DEF GameInv, ServerTypeOK, EndIsNotMissed, TimerRunsWithGame, LoopsInGame,
     gameVars, connVars
<1>3. QED
  BY <1>1, <1>2 DEF GameInv

\* The iteration of a worm: one event, and at most one player fewer.
LEMMA WormStepKeepsInv ==
    ASSUME GameInv, UNCHANGED <<connVars, gamePlayed, gameId, roster, turnTimer, num>>,
           num >= 0, ~added, added' = TRUE,
           NEW n \in Num,
           \/ UNCHANGED <<playersInTheGame, isPlayerDead>>
           \/ AddPlayerEliminatedEvent(n),
           squaresUsed' \subseteq Cell,
           roundedPlayerWorm' \in [Slot -> Cell],
           mustLeave' \in [Slot -> BOOLEAN]
    PROVE  GameInv'
<1>1. gamePlayed /\ playersInTheGame \in 2..MaxPlayers
  BY DEF GameInv, ServerTypeOK, LoopsInGame, EndIsNotMissed
<1>2. playersInTheGame' \in 1..MaxPlayers
  BY <1>1, MaxPlayersAssumption DEF AddPlayerEliminatedEvent
<1>3. isPlayerDead' \in [Num -> BOOLEAN]
  BY DEF AddPlayerEliminatedEvent, GameInv, ServerTypeOK
<1>4. ServerTypeOK'
  BY <1>2, <1>3 DEF GameInv, ServerTypeOK, ConnTypeOK, connVars, roster
<1>5. EndIsNotMissed' /\ TimerRunsWithGame' /\ LoopsInGame'
  BY <1>1, <1>2 DEF GameInv, ServerTypeOK, EndIsNotMissed, TimerRunsWithGame,
     LoopsInGame, connVars, roster
<1>6. QED
  BY <1>4, <1>5 DEF GameInv

\* A round or the placing of the worms goes on to the next iteration or ends.
LEMMA LoopGoesOn ==
    ASSUME GameInv, ConnTypeOK', pc \in {"turn", "start"}, added,
           playersInTheGame # 1, UNCHANGED gameVars,
           \/ /\ num < MaxPlayers /\ NextIteration
              /\ UNCHANGED <<pc, turnTimer>>
           \/ LoopEnds /\ turnTimer' \in {turnTimer, "armed"}
    PROVE  GameInv'
<1>1. gamePlayed /\ playersInTheGame \in 2..MaxPlayers /\ num \in 0..MaxPlayers
      /\ turnTimer # "off"
  BY DEF GameInv, ServerTypeOK, LoopsInGame, EndIsNotMissed, TimerRunsWithGame
<1>2. num' \in -1..MaxPlayers /\ added' = FALSE /\ turnTimer' \in {"armed", "due"}
  BY <1>1, MaxPlayersAssumption DEF NextIteration, LoopEnds, GameInv, ServerTypeOK
<1>3. ServerTypeOK'
  BY <1>2 DEF GameInv, ServerTypeOK, gameVars
<1>4. EndIsNotMissed' /\ TimerRunsWithGame'
  BY <1>1, <1>2 DEF GameInv, EndIsNotMissed, TimerRunsWithGame, gameVars
<1>5. LoopsInGame'
  BY <1>1, <1>2 DEF GameInv, LoopsInGame, gameVars, NextIteration, LoopEnds
<1>6. QED
  BY <1>3, <1>4, <1>5 DEF GameInv

LEMMA GameOverKeepsInv ==
    ASSUME GameInv, ConnTypeOK', AddGameOverEvent, LoopEnds
    PROVE  GameInv'
<1>1. ServerTypeOK'
  <2>1. num' = -1 /\ added' = FALSE /\ gamePlayed' = FALSE /\ turnTimer' = "off"
    BY DEF AddGameOverEvent, LoopEnds
  <2>2. UNCHANGED <<gameId, squaresUsed, playersInTheGame, isPlayerDead,
                    playingPlayerName, playingPlayerDataIndex,
                    takesPartInTheCurrentGame, roundedPlayerWorm, mustLeave>>
    BY DEF AddGameOverEvent, roster
  <2>3. num' \in -1..MaxPlayers
    BY <2>1, MaxPlayersAssumption
  <2>4. QED
    BY <2>1, <2>2, <2>3 DEF GameInv, ServerTypeOK
<1>2. EndIsNotMissed' /\ TimerRunsWithGame' /\ LoopsInGame'
  BY DEF AddGameOverEvent, LoopEnds, EndIsNotMissed, TimerRunsWithGame,
     LoopsInGame
<1>3. QED
  BY <1>1, <1>2 DEF GameInv

\* A new game has as many players as clients have names, two or more.
LEMMA NewGameKeepsInv == GameInv /\ ConnInv /\ ConnInv' /\ NewGame => GameInv'
<1> SUFFICES ASSUME GameInv, ConnInv, ConnInv', NewGame PROVE GameInv'
  OBVIOUS
<1>1. PICK players \in InOrder(namesUsed) :
          UpdateCurrentlyPlayingPlayers(players)
  BY DEF NewGame
<1>2. players \in Seq(Name)
  BY <1>1, InOrderSeq, NamesCounted DEF ConnInv, ConnTypeOK
<1>3. playersInTheGame' \in 2..MaxPlayers
  <2>1. playersInTheGame' = Cardinality(Players)
    BY NamesCounted DEF NewGame
  <2>2. Cardinality(Players) >= 2
    BY DEF NewGame, MayStart, NumberOfReadyPlayers
  <2>3. QED
    BY <2>1, <2>2, NamesCounted
<1>4. playingPlayerName' \in [Num -> Name \cup {NoName}]
  <2>1. ASSUME NEW n \in Num, n < Len(players) PROVE players[n + 1] \in Name
    BY <1>2, <2>1 DEF Num
  <2>2. QED
    BY <1>1, <2>1 DEF UpdateCurrentlyPlayingPlayers, GameInv, ServerTypeOK
<1>5. playingPlayerDataIndex' \in [Num -> Slot \cup {-1}]
  BY <1>1 DEF UpdateCurrentlyPlayingPlayers
<1>6. isPlayerDead' \in [Num -> BOOLEAN]
  BY <1>1 DEF UpdateCurrentlyPlayingPlayers
<1>7. num' = 0 /\ added' = FALSE /\ gamePlayed' = TRUE /\ turnTimer' = "armed"
      /\ squaresUsed' = {} /\ gameId' \in GameId /\ pc' = "start"
  BY DEF NewGame, NextIteration, connVars
<1>8. takesPartInTheCurrentGame' \in [Slot -> BOOLEAN]
  BY DEF NewGame, ConnInv, ConnTypeOK
<1>9. roundedPlayerWorm' \in [Slot -> Cell] /\ mustLeave' \in [Slot -> BOOLEAN]
  BY DEF NewGame, GameInv, ServerTypeOK
<1>10. playingPlayerDataIndex' \in [Num -> -1..MaxPlayers]
  <2>1. Slot \cup {-1} \subseteq -1..MaxPlayers
    BY MaxPlayersAssumption DEF Slot
  <2>2. QED
    BY <1>5, <2>1
<1>11. ServerTypeOK'
  <2>1. num' \in -1..MaxPlayers /\ playersInTheGame' \in 0..MaxPlayers
    BY <1>3, <1>7, MaxPlayersAssumption
  <2>2. ConnTypeOK'
    BY DEF ConnInv
  <2>3. QED
    BY <1>4, <1>6, <1>7, <1>8, <1>9, <1>10, <2>1, <2>2 DEF ServerTypeOK
<1>12. EndIsNotMissed' /\ TimerRunsWithGame' /\ LoopsInGame'
  BY <1>3, <1>5, <1>7 DEF EndIsNotMissed, TimerRunsWithGame, LoopsInGame
<1>13. QED
  BY <1>11, <1>12 DEF GameInv

\* The iterations of the two loops: what a worm does, or that it does nothing.
LEMMA PlaceWormKeepsInv == GameInv /\ PlaceWorm => GameInv'
<1> SUFFICES ASSUME GameInv, PlaceWorm PROVE GameInv'
  OBVIOUS
<1> DEFINE index == playingPlayerDataIndex[num]
<1>1. num \in Num /\ gamePlayed
  BY DEF PlaceWorm, GameInv, ServerTypeOK, LoopsInGame, Num
<1>2. index \in Slot
  BY <1>1 DEF PlaceWorm, IsPlaced, GameInv, LoopsInGame
<1>3. PICK c \in Cell :
          /\ roundedPlayerWorm' = [roundedPlayerWorm EXCEPT ![index] = c]
          /\ mustLeave' = [mustLeave EXCEPT ![index] = TRUE]
          /\ squaresUsed' = squaresUsed \cup {c}
          /\ IF c \in squaresUsed THEN AddPlayerEliminatedEvent(index)
                                  ELSE AddPixelEvent(num, c)
  BY DEF PlaceWorm
<1>4. squaresUsed' \subseteq Cell /\ roundedPlayerWorm' \in [Slot -> Cell]
      /\ mustLeave' \in [Slot -> BOOLEAN]
  BY <1>3 DEF GameInv, ServerTypeOK
<1>5. \/ UNCHANGED <<playersInTheGame, isPlayerDead>>
      \/ AddPlayerEliminatedEvent(index)
  BY <1>3 DEF AddPixelEvent
<1>6. index \in Num
  BY <1>2, MaxPlayersAssumption DEF Slot, Num
<1>7. QED
  BY <1>4, <1>5, <1>6, WormStepKeepsInv DEF PlaceWorm

LEMMA MoveWormKeepsInv == GameInv /\ MoveWorm => GameInv'
<1> SUFFICES ASSUME GameInv, MoveWorm PROVE GameInv'
  OBVIOUS
<1> DEFINE s == playingPlayerDataIndex[num]
<1>1. num \in Num
  BY DEF MoveWorm, GameInv, ServerTypeOK, Num
<1>2. \/ UNCHANGED <<playersInTheGame, isPlayerDead>>
      \/ AddPlayerEliminatedEvent(num)
  BY DEF MoveWorm, RestInCell, EnterCell, LeaveBoard, AddPixelEvent
<1>3. squaresUsed' \subseteq Cell /\ roundedPlayerWorm' \in [Slot -> Cell]
      /\ mustLeave' \in [Slot -> BOOLEAN]
  <2>1. CASE RestInCell(s)
    BY <2>1 DEF RestInCell, GameInv, ServerTypeOK
  <2>2. CASE \E c \in Neighbours(roundedPlayerWorm[s]) \cap Cell :
                 EnterCell(num, s, c)
    BY <2>2 DEF EnterCell, GameInv, ServerTypeOK
  <2>3. CASE LeaveBoard(num, s)
    BY <2>3 DEF LeaveBoard, GameInv, ServerTypeOK
  <2>4. QED
    BY <2>1, <2>2, <2>3 DEF MoveWorm
<1>4. QED
  BY <1>1, <1>2, <1>3, WormStepKeepsInv DEF MoveWorm

\* The invariant of the game, given that of the table, is inductive.
LEMMA GameInvStep == GameInv /\ ConnInv /\ ConnInv' /\ [Next]_vars => GameInv'
<1> SUFFICES ASSUME GameInv, ConnInv, ConnInv', [Next]_vars PROVE GameInv'
  OBVIOUS
<1>1. ConnTypeOK'
  BY DEF ConnInv
<1>2. CASE PollAll
  <2>1. num = -1
    BY <1>2 DEF PollAll, Poll, GameInv, LoopsInGame
  <2>2. UNCHANGED turnTimer \/ (turnTimer = "armed" /\ turnTimer' = "due")
    BY <1>2 DEF PollAll
  <2>3. UNCHANGED <<gameVars, loopVars>>
    BY <1>2 DEF PollAll
  <2>4. QED
    BY <1>1, <2>1, <2>2, <2>3, GameUntouched
<1>3. CASE NoTurn
  BY <1>1, <1>3, GameUntouched DEF NoTurn
<1>4. CASE Round
  <2>1. CASE BeginTurn
    <3>1. num' = 0 /\ added' = FALSE /\ UNCHANGED <<connVars, gameVars, turnTimer>>
          /\ gamePlayed /\ num = -1 /\ pc = "turn"
      BY <2>1 DEF BeginTurn, NextIteration
    <3>2. num' \in -1..MaxPlayers
      BY <3>1, MaxPlayersAssumption
    <3>3. ServerTypeOK'
      BY <1>1, <3>1, <3>2 DEF GameInv, ServerTypeOK, gameVars
    <3>4. EndIsNotMissed' /\ TimerRunsWithGame' /\ LoopsInGame'
      BY <3>1 DEF GameInv, EndIsNotMissed, TimerRunsWithGame, LoopsInGame,
         gameVars, connVars
    <3>5. QED
      BY <3>3, <3>4 DEF GameInv
  <2>2. CASE MoveWorm
    BY <2>2, MoveWormKeepsInv
  <2>3. CASE SkipWorm
    BY <2>3, SkipKeepsInv DEF SkipWorm
  <2>4. CASE TurnGoesOn
    BY <1>1, <2>4, LoopGoesOn DEF TurnGoesOn
  <2>5. CASE TurnEndsGame
    BY <1>1, <2>5, GameOverKeepsInv DEF TurnEndsGame
  <2>6. QED
    BY <1>4, <2>1, <2>2, <2>3, <2>4, <2>5 DEF Round
<1>5. CASE Disconnections
  <2>1. num = -1
    BY <1>5 DEF Disconnections, CheckDisconnection, GameInv, LoopsInGame
  <2>2. QED
    BY <1>1, <1>5, <2>1, GameUntouched DEF Disconnections
<1>6. CASE ReadDatagram
  <2>1. num = -1
    BY <1>6 DEF ReadDatagram, CheckDatagram, GameInv, LoopsInGame
  <2>2. QED
    BY <1>1, <1>6, <2>1, GameUntouched DEF ReadDatagram
<1>7. CASE NoNewGame
  BY <1>1, <1>7, GameUntouched DEF NoNewGame
<1>8. CASE StartGame
  <2>1. CASE NewGame
    BY <2>1, NewGameKeepsInv
  <2>2. CASE PlaceWorm
    BY <2>2, PlaceWormKeepsInv
  <2>3. CASE SkipPlace
    BY <2>3, SkipKeepsInv DEF SkipPlace
  <2>4. CASE PlacingGoesOn
    BY <1>1, <2>4, LoopGoesOn DEF PlacingGoesOn
  <2>5. CASE PlacingEndsGame
    BY <1>1, <2>5, GameOverKeepsInv DEF PlacingEndsGame
  <2>6. QED
    BY <1>8, <2>1, <2>2, <2>3, <2>4, <2>5 DEF StartGame
<1>9. CASE UNCHANGED vars
  BY <1>9 DEF vars, connVars, gameVars, loopVars, tableVars, clientData, roster, GameInv, ServerTypeOK,
     ConnTypeOK, EndIsNotMissed, TimerRunsWithGame, LoopsInGame
<1>10. QED
  BY <1>2, <1>3, <1>4, <1>5, <1>6, <1>7, <1>8, <1>9 DEF Next, Handle

LEMMA GameInvAlways == Spec => []GameInv
<1>1. GameInv /\ ConnInv /\ ConnInv' /\ [Next]_vars => GameInv'
  BY GameInvStep
<1>2. QED
  BY <1>1, GameInvInit, TableAlways, PTL DEF Spec

\* The types of the game: no array is read or written outside its bounds,
\* and playersInTheGame stays within an unsigned short.
THEOREM ServerTypeCorrect == Spec => []ServerTypeOK
<1>1. GameInv => ServerTypeOK
  BY DEF GameInv
<1>2. QED
  BY <1>1, GameInvAlways, PTL

\* performNextTurn() and newGame() notice the end of a game when it comes,
\* for any number of players: one iteration never loses two of them.
THEOREM EndNotMissed == Spec => []EndIsNotMissed
<1>1. GameInv => EndIsNotMissed
  BY DEF GameInv
<1>2. QED
  BY <1>1, GameInvAlways, PTL

\* newGame(), performNextTurn() and addGameOverEvent() keep the turn timer
\* armed during the games and disarmed between them.
THEOREM TimerCorrect == Spec => []TimerRunsWithGame
<1>1. GameInv => TimerRunsWithGame
  BY DEF GameInv
<1>2. QED
  BY <1>1, GameInvAlways, PTL
-----------------------------------------------------------------------------
(* The log *)

\* The step of one worm adds at most one event to the log.
LEMMA WormStepExtends ==
    ASSUME GameInv, MoveWorm \/ PlaceWorm
    PROVE  [Log!Next]_(Log!logVars)
<1> DEFINE body == {PixelEvent(n, c) : n \in Num, c \in Cell}
                      \cup {PlayerEliminatedEvent(n) : n \in Num}
<1>1. gamePlayed /\ num \in Num /\ UNCHANGED <<gamePlayed, gameId>>
  BY DEF GameInv, ServerTypeOK, LoopsInGame, Num, MoveWorm, PlaceWorm
<1>2. UNCHANGED events \/ \E e \in body : events' = Append(events, e)
  <2>1. CASE MoveWorm
    <3> DEFINE s == playingPlayerDataIndex[num]
    <3>1. CASE RestInCell(s)
      BY <3>1 DEF RestInCell
    <3>2. CASE \E c \in Neighbours(roundedPlayerWorm[s]) \cap Cell :
                   EnterCell(num, s, c)
      BY <1>1, <3>2 DEF EnterCell, AddPixelEvent, AddPlayerEliminatedEvent
    <3>3. CASE LeaveBoard(num, s)
      BY <1>1, <3>3 DEF LeaveBoard, AddPlayerEliminatedEvent
    <3>4. QED
      BY <2>1, <3>1, <3>2, <3>3 DEF MoveWorm
  <2>2. CASE PlaceWorm
    <3> DEFINE index == playingPlayerDataIndex[num]
    <3>1. index \in Num
      BY <1>1, <2>2, MaxPlayersAssumption
         DEF PlaceWorm, IsPlaced, GameInv, LoopsInGame, Slot, Num
    <3>2. PICK c \in Cell :
              IF c \in squaresUsed THEN AddPlayerEliminatedEvent(index)
                                   ELSE AddPixelEvent(num, c)
      BY <2>2 DEF PlaceWorm
    <3>3. QED
      BY <1>1, <3>1, <3>2 DEF AddPixelEvent, AddPlayerEliminatedEvent
  <2>3. QED
    BY <2>1, <2>2
<1>3. QED
  BY <1>1, <1>2 DEF Log!Next, Log!Extend, Log!logVars

LEMMA GameOverCloses ==
    ASSUME GameInv, added, AddGameOverEvent
    PROVE  Log!Next
<1>1. gamePlayed
  BY DEF GameInv, LoopsInGame
<1>2. QED
  BY <1>1 DEF AddGameOverEvent, Log!Next, Log!Close

LEMMA NewGameOpens == ConnInv /\ NewGame => Log!Next
<1> SUFFICES ASSUME ConnInv, NewGame PROVE Log!Next
  OBVIOUS
<1>1. PICK players \in InOrder(namesUsed) : events' = <<NewGameEvent(players)>>
  BY DEF NewGame
<1>2. players \in UNION {InOrder(S) : S \in SUBSET Name}
  BY <1>1 DEF ConnInv, ConnTypeOK
<1>3. ~gamePlayed /\ gamePlayed' = TRUE /\ gameId' \in GameId
  BY DEF NewGame, MayStart
<1>4. QED
  BY <1>1, <1>2, <1>3 DEF Log!Next, Log!Open

LEMMA StepOfLog == GameInv /\ ConnInv /\ [Next]_vars => [Log!Next]_(Log!logVars)
<1> SUFFICES ASSUME GameInv, ConnInv, [Next]_vars
             PROVE  [Log!Next]_(Log!logVars)
  OBVIOUS
<1>1. CASE UNCHANGED gameVars
  BY <1>1 DEF gameVars, Log!logVars
<1>2. CASE Round
  BY <1>1, <1>2, WormStepExtends, GameOverCloses
     DEF Round, BeginTurn, SkipWorm, TurnGoesOn, TurnEndsGame
<1>3. CASE StartGame
  BY <1>1, <1>3, WormStepExtends, GameOverCloses, NewGameOpens
     DEF StartGame, SkipPlace, PlacingGoesOn, PlacingEndsGame
<1>4. QED
  BY <1>1, <1>2, <1>3 DEF Next, Handle, PollAll, NoTurn, Disconnections,
     ReadDatagram, NoNewGame, vars

\* The server keeps the contract that the clients rely on: the log is opened
\* by NEW_GAME, only grows, and is closed by GAME_OVER before the next one.
THEOREM ServerKeepsLogContract == Spec => LogContract
<1>1. Init => Log!Init
  BY DEF Init, Log!Init
<1>2. QED
  BY <1>1, StepOfLog, GameInvAlways, TableAlways, PTL DEF Spec, LogContract, Log!Spec
-----------------------------------------------------------------------------
(* The players of a new game *)

\* The search by name has one result, and for a name in use it is the slot
\* of the connected player: FirstSlotIsOwners is what this takes.
LEMMA SearchFindsOwner ==
    ASSUME ConnInv, NEW s \in Players
    PROVE  /\ SlotNamed(playerName[s], s)
           /\ \A t \in Slot : SlotNamed(playerName[s], t) => t = s
<1>1. s \in Slot /\ s \in Active /\ playerName[s] # NoName
  BY DEF Players, Active
<1>2. SlotNamed(playerName[s], s)
  BY <1>1 DEF SlotNamed, ConnInv, FirstSlotIsOwners
<1>3. ASSUME NEW t \in Slot, SlotNamed(playerName[s], t)
      PROVE  t = s
  <2>1. ~(t < s) /\ ~(s < t)
    BY <1>1, <1>2, <1>3, MaxPlayersAssumption DEF SlotNamed, Slot
  <2>2. QED
    BY <1>1, <2>1, MaxPlayersAssumption DEF Slot
<1>4. QED
  BY <1>2, <1>3

LEMMA NewGameMatches == GameInv /\ ConnInv /\ NewGame => RosterIsConnected'
<1> SUFFICES ASSUME GameInv, ConnInv, NewGame PROVE RosterIsConnected'
  OBVIOUS
<1>1. PICK players \in InOrder(namesUsed) :
          /\ UpdateCurrentlyPlayingPlayers(players)
          /\ events' = <<NewGameEvent(players)>>
  BY DEF NewGame
<1> DEFINE count == Len(players)
           found(n) == \E s \in Slot : SlotNamed(players[n + 1], s)
<1>2. /\ namesUsed = {players[i] : i \in 1..count}
      /\ count \in 0..MaxPlayers
  BY <1>1, NamesCounted, InOrderSeq DEF ConnInv, ConnTypeOK
<1>3. PlayersOf(events') = players
  BY <1>1 DEF PlayersOf, NewGameEvent
<1>4. UNCHANGED <<isPlayerActive, playerName>> /\ Players' = Players
  BY DEF NewGame, connVars, Players, Active
<1>5. \A n \in Num :
          /\ playingPlayerName'[n] = IF n < count THEN players[n + 1]
                                                  ELSE playingPlayerName[n]
          /\ playingPlayerDataIndex'[n] =
                IF n < count /\ found(n)
                THEN CHOOSE s \in Slot : SlotNamed(players[n + 1], s)
                ELSE -1
  BY <1>1 DEF UpdateCurrentlyPlayingPlayers
<1>6. ASSUME NEW n \in 0..(count - 1), NEW s \in Players,
             playerName[s] = players[n + 1]
      PROVE  playingPlayerDataIndex'[n] = s
  <2>1. n \in Num /\ n < count /\ s \in Slot
    BY <1>2, NamesCounted, MaxPlayersAssumption DEF Num
  <2>2. \A t \in Slot : SlotNamed(players[n + 1], t) <=> t = s
    BY <1>6, SearchFindsOwner
  <2>3. QED
    BY <1>5, <2>1, <2>2
<1>7. ASSUME NEW n \in 0..(count - 1)
      PROVE  /\ playingPlayerDataIndex'[n] \in Players
             /\ playerName[playingPlayerDataIndex'[n]] = players[n + 1]
  <2>1. players[n + 1] \in namesUsed
    BY <1>2
  <2>2. PICK s \in Players : playerName[s] = players[n + 1]
    BY <2>1, NamesCounted
  <2>3. QED
    BY <1>6, <2>2
<1>8. ASSUME NEW s \in Players
      PROVE  \E n \in 0..(count - 1) : playingPlayerDataIndex'[n] = s
  <2>1. playerName[s] \in namesUsed
    BY NamesCounted
  <2>2. PICK i \in 1..count : players[i] = playerName[s]
    BY <1>2, <2>1
  <2>3. i - 1 \in 0..(count - 1) /\ (i - 1) + 1 = i
    BY <1>2
  <2>4. QED
    BY <1>6, <2>2, <2>3
<1>9. \A s \in Players : takesPartInTheCurrentGame'[s]
  BY NamesCounted DEF NewGame, Active
<1>10. \A n \in 0..(count - 1) :
           /\ playingPlayerDataIndex'[n] \in Players
           /\ playerName[playingPlayerDataIndex'[n]] = playingPlayerName'[n]
           /\ takesPartInTheCurrentGame'[playingPlayerDataIndex'[n]]
  <2>1. \A n \in 0..(count - 1) : n \in Num /\ n < count
    BY <1>2, MaxPlayersAssumption DEF Num
  <2>2. QED
    BY <1>5, <1>7, <1>9, <2>1
<1>11. Players = {playingPlayerDataIndex'[n] : n \in 0..(count - 1)}
  BY <1>7, <1>8
<1>12. \A n \in count..MaxPlayers : playingPlayerDataIndex'[n] = -1
  <2>1. \A n \in count..MaxPlayers : n \in Num /\ ~(n < count)
    BY <1>2, MaxPlayersAssumption DEF Num
  <2>2. QED
    BY <1>5, <2>1
<1>13. QED
  BY <1>3, <1>4, <1>10, <1>11, <1>12 DEF RosterIsConnected

LEMMA RosterStep ==
    GameInv /\ ConnInv /\ RosterIsConnected /\ [Next]_vars => RosterIsConnected'
<1> SUFFICES ASSUME GameInv, ConnInv, RosterIsConnected, [Next]_vars
             PROVE  RosterIsConnected'
  OBVIOUS
<1>1. CASE NewGame
  BY <1>1, NewGameMatches
<1>2. CASE UNCHANGED vars
  BY <1>2 DEF vars, connVars, gameVars, loopVars, tableVars, clientData,
     roster, RosterIsConnected, Players, Active
<1>3. CASE /\ [Next]_vars /\ ~NewGame /\ ~UNCHANGED vars
  <2>1. ~(pc' = "start" /\ num' = 0 /\ ~added')
    <3>1. CASE Round
      BY <3>1 DEF Round, BeginTurn, MoveWorm, SkipWorm, TurnGoesOn, TurnEndsGame,
         LoopEnds, connVars
    <3>2. CASE StartGame
      BY <1>3, <3>2 DEF StartGame, PlaceWorm, SkipPlace, PlacingGoesOn,
         PlacingEndsGame, LoopEnds, NextIteration, GameInv, LoopsInGame,
         ServerTypeOK
    <3>3. CASE PollAll \/ NoTurn \/ Disconnections \/ ReadDatagram \/ NoNewGame
      <4>1. num = -1
        BY <3>3 DEF PollAll, Poll, NoTurn, Disconnections, CheckDisconnection,
           ReadDatagram, CheckDatagram, NoNewGame, GameInv, LoopsInGame
      <4>2. num' = num
        BY <3>3 DEF PollAll, NoTurn, Disconnections, ReadDatagram, NoNewGame,
           loopVars
      <4>3. QED
        BY <4>1, <4>2
    <3>4. QED
      BY <1>3, <3>1, <3>2, <3>3 DEF Next, Handle
  <2>2. QED
    BY <2>1 DEF RosterIsConnected
<1>4. QED
  BY <1>1, <1>2, <1>3

\* For any number of clients, slots and names left behind in the slots,
\* updateCurrentlyPlayingPlayers() matches the players of a new game one to
\* one with the connected clients of their names.
THEOREM RosterCorrect == Spec => []RosterIsConnected
<1>1. Init => RosterIsConnected
  BY DEF Init, ConnInit, RosterIsConnected
<1>2. QED
  BY <1>1, RosterStep, GameInvAlways, TableAlways, PTL DEF Spec
-----------------------------------------------------------------------------
(* What the server keeps beside the log, and the log *)

Event ==
    {NewGameEvent(players) : players \in UNION {InOrder(S) : S \in SUBSET Name}}
        \cup {PixelEvent(n, c) : n \in Num, c \in Cell}
        \cup {PlayerEliminatedEvent(n) : n \in Num}
        \cup {GameOverEvent}

\* An event at the end of a log changes nothing of what is before it.
LEMMA Appended ==
    ASSUME NEW E, NEW log \in Seq(E), log # <<>>, NEW e \in E
    PROVE  /\ Append(log, e) \in Seq(E) /\ Append(log, e) # <<>>
           /\ \A i \in DOMAIN log : Append(log, e)[i] = log[i]
           /\ Append(log, e)[Len(log) + 1] = e
           /\ PlayersOf(Append(log, e)) = PlayersOf(log)
           /\ Eliminations(Append(log, e)) =
                 IF e.type = "eliminated"
                 THEN Eliminations(log) \cup {Len(log) + 1} ELSE Eliminations(log)
           /\ PixelsOf(Append(log, e)) =
                 IF e.type = "pixel"
                 THEN PixelsOf(log) \cup {Len(log) + 1} ELSE PixelsOf(log)
<1> DEFINE longer == Append(log, e)
<1>1. /\ longer \in Seq(E) /\ Len(longer) = Len(log) + 1
      /\ Len(log) \in Nat \ {0}
      /\ DOMAIN log = 1..Len(log) /\ DOMAIN longer = 1..(Len(log) + 1)
  OBVIOUS
<1>2. \A i \in 1..Len(log) : longer[i] = log[i]
  OBVIOUS
<1>3. longer[Len(log) + 1] = e
  OBVIOUS
<1>4. longer # <<>>
  BY <1>1
<1>5. PlayersOf(longer) = PlayersOf(log)
  BY <1>1, <1>2 DEF PlayersOf
<1>6. DOMAIN longer = DOMAIN log \cup {Len(log) + 1}
  BY <1>1
<1> HIDE DEF longer
<1>7. Eliminations(longer) =
          IF e.type = "eliminated"
          THEN Eliminations(log) \cup {Len(log) + 1} ELSE Eliminations(log)
  BY <1>1, <1>2, <1>3, <1>6 DEF Eliminations
<1>8. PixelsOf(longer) =
          IF e.type = "pixel"
          THEN PixelsOf(log) \cup {Len(log) + 1} ELSE PixelsOf(log)
  BY <1>1, <1>2, <1>3, <1>6 DEF PixelsOf
<1>9. QED
  BY <1>1, <1>2, <1>3, <1>4, <1>5, <1>7, <1>8 DEF longer

\* The positions of a log are finitely many, and none is past its end.
LEMMA EliminationsFinite ==
    ASSUME NEW E, NEW log \in Seq(E)
    PROVE  /\ IsFiniteSet(Eliminations(log))
           /\ Cardinality(Eliminations(log)) \in Nat
           /\ Len(log) + 1 \notin Eliminations(log)
           /\ Len(log) + 1 \notin PixelsOf(log)
<1>1. Len(log) \in Nat /\ DOMAIN log = 1..Len(log)
  OBVIOUS
<1>2. IsFiniteSet(1..Len(log))
  BY <1>1, FS_Interval
<1>3. Eliminations(log) \subseteq 1..Len(log) /\ PixelsOf(log) \subseteq 1..Len(log)
  BY <1>1 DEF Eliminations, PixelsOf
<1>4. QED
  BY <1>1, <1>2, <1>3, FS_Subset, FS_CardinalityType

\* CountFollowsLog and SquaresFollowLog, for any log and its companions.
CountOf(log, count) ==
    count = Len(PlayersOf(log)) - Cardinality(Eliminations(log))

SquaresOf(log, squares) ==
    /\ \A i \in PixelsOf(log) : log[i].cell \in squares
    /\ \A c \in squares : \E i \in PixelsOf(log) : log[i].cell = c
    /\ \A i, j \in PixelsOf(log) : log[i].cell = log[j].cell => i = j

\* The squares of a longer log.
LEMMA SquaresKept ==
    ASSUME NEW log, NEW longer, NEW squares, SquaresOf(log, squares),
           PixelsOf(longer) = PixelsOf(log),
           \A i \in PixelsOf(log) : longer[i].cell = log[i].cell
    PROVE  SquaresOf(longer, squares)
<1>1. \A i \in PixelsOf(longer) : longer[i].cell = log[i].cell
  OBVIOUS
<1>2. QED
  BY <1>1, SMT DEF SquaresOf

LEMMA SquareAdded ==
    ASSUME NEW log, NEW longer, NEW squares, SquaresOf(log, squares),
           NEW last, PixelsOf(longer) = PixelsOf(log) \cup {last},
           \A i \in PixelsOf(log) : longer[i].cell = log[i].cell,
           longer[last].cell \notin squares
    PROVE  SquaresOf(longer, squares \cup {longer[last].cell})
<1> DEFINE old == PixelsOf(log)
           new == PixelsOf(longer)
           cell == longer[last].cell
<1>1. \A i \in old : longer[i].cell \in squares
  BY DEF SquaresOf
<1>2. \A i \in new : longer[i].cell \in squares \cup {cell}
  BY <1>1
<1>3. \A c \in squares : \E i \in old : longer[i].cell = c
  BY DEF SquaresOf
<1>4. \A c \in squares \cup {cell} : \E i \in new : longer[i].cell = c
  <2>1. last \in new /\ old \subseteq new
    OBVIOUS
  <2>2. QED
    BY <1>3, <2>1
<1>5. \A i, j \in new : longer[i].cell = longer[j].cell => i = j
  <2>1. \A i, j \in old : longer[i].cell = longer[j].cell => i = j
    BY DEF SquaresOf
  <2>2. \A i \in old : longer[i].cell # cell
    BY <1>1
  <2>3. QED
    BY <2>1, <2>2
<1>6. QED
  BY <1>2, <1>4, <1>5 DEF SquaresOf

\* What one step does to the log, the squares and the number of players.
Still == UNCHANGED <<events, squaresUsed, playersInTheGame>>

Eats ==
    \E n \in Num, c \in Cell :
        /\ c \notin squaresUsed /\ squaresUsed' = squaresUsed \cup {c}
        /\ events' = Append(events, PixelEvent(n, c))
        /\ UNCHANGED playersInTheGame

Dies ==
    \E n \in Num :
        /\ events' = Append(events, PlayerEliminatedEvent(n))
        /\ playersInTheGame' = playersInTheGame - 1
        /\ UNCHANGED squaresUsed

Ends ==
    /\ events' = Append(events, GameOverEvent)
    /\ UNCHANGED <<squaresUsed, playersInTheGame>>

Opens ==
    \E players \in InOrder(namesUsed) :
        /\ events' = <<NewGameEvent(players)>>
        /\ squaresUsed' = {}
        /\ playersInTheGame' = Len(players)

LEMMA KindsOfStep ==
    ASSUME GameInv, ConnInv, [Next]_vars
    PROVE  Still \/ Opens \/ (gamePlayed /\ (Eats \/ Dies \/ Ends))
<1>1. CASE UNCHANGED gameVars
  BY <1>1 DEF gameVars, Still
<1>2. CASE MoveWorm
  <2> DEFINE s == playingPlayerDataIndex[num]
  <2>1. gamePlayed /\ num \in Num
    BY <1>2 DEF MoveWorm, GameInv, ServerTypeOK, LoopsInGame, Num
  <2>2. CASE RestInCell(s)
    BY <2>2 DEF RestInCell, Still
  <2>3. CASE \E c \in Neighbours(roundedPlayerWorm[s]) \cap Cell :
                 EnterCell(num, s, c)
    <3>1. PICK c \in Cell : EnterCell(num, s, c)
      BY <2>3
    <3>2. CASE c \in squaresUsed
      BY <2>1, <3>1, <3>2 DEF EnterCell, AddPlayerEliminatedEvent, Dies
    <3>3. CASE c \notin squaresUsed
      BY <2>1, <3>1, <3>3 DEF EnterCell, AddPixelEvent, Eats
    <3>4. QED
      BY <3>2, <3>3
  <2>4. CASE LeaveBoard(num, s)
    BY <2>1, <2>4 DEF LeaveBoard, AddPlayerEliminatedEvent, Dies
  <2>5. QED
    BY <1>2, <2>2, <2>3, <2>4 DEF MoveWorm
<1>3. CASE PlaceWorm
  <2> DEFINE index == playingPlayerDataIndex[num]
  <2>1. gamePlayed /\ num \in Num
    BY <1>3 DEF PlaceWorm, GameInv, ServerTypeOK, LoopsInGame, Num
  <2>2. index \in Num
    BY <1>3, <2>1, MaxPlayersAssumption
       DEF PlaceWorm, IsPlaced, GameInv, LoopsInGame, Slot, Num
  <2>3. PICK c \in Cell :
            /\ squaresUsed' = squaresUsed \cup {c}
            /\ IF c \in squaresUsed THEN AddPlayerEliminatedEvent(index)
                                    ELSE AddPixelEvent(num, c)
    BY <1>3 DEF PlaceWorm
  <2>4. CASE c \in squaresUsed
    BY <2>1, <2>2, <2>3, <2>4 DEF AddPlayerEliminatedEvent, Dies
  <2>5. CASE c \notin squaresUsed
    BY <2>1, <2>3, <2>5 DEF AddPixelEvent, Eats
  <2>6. QED
    BY <2>4, <2>5
<1>4. CASE TurnEndsGame \/ PlacingEndsGame
  BY <1>4 DEF TurnEndsGame, PlacingEndsGame, AddGameOverEvent, GameInv,
     LoopsInGame, Ends
<1>5. CASE NewGame
  <2>1. PICK players \in InOrder(namesUsed) : events' = <<NewGameEvent(players)>>
    BY <1>5 DEF NewGame
  <2>2. Len(players) = Cardinality(Players)
    BY <2>1, NamesCounted, InOrderSeq DEF ConnInv, ConnTypeOK
  <2>3. playersInTheGame' = Cardinality(Players) /\ squaresUsed' = {}
    BY <1>5, NamesCounted DEF NewGame
  <2>4. QED
    BY <2>1, <2>2, <2>3 DEF Opens
<1>6. QED
  BY <1>1, <1>2, <1>3, <1>4, <1>5 DEF Next, Handle, Round, StartGame, PollAll,
     NoTurn, Disconnections, ReadDatagram, NoNewGame, BeginTurn, SkipWorm,
     TurnGoesOn, SkipPlace, PlacingGoesOn, vars

LogInv ==
    /\ events \in Seq(Event)
    /\ gamePlayed => events # <<>>
    /\ events # <<>> =>
           /\ CountOf(events, playersInTheGame)
           /\ SquaresOf(events, squaresUsed)
           /\ Len(PlayersOf(events)) \in Nat

\* A log just opened has neither eliminations nor squares.
LEMMA OpensKeepsLogInv == ConnInv /\ LogInv /\ Opens => LogInv'
<1> SUFFICES ASSUME ConnInv, LogInv, Opens PROVE LogInv'
  OBVIOUS
<1>1. PICK players \in InOrder(namesUsed) :
          /\ events' = <<NewGameEvent(players)>>
          /\ squaresUsed' = {}
          /\ playersInTheGame' = Len(players)
  BY DEF Opens
<1>2. Len(players) \in Nat
  BY <1>1, InOrderSeq, NamesCounted DEF ConnInv, ConnTypeOK
<1>3. NewGameEvent(players) \in Event
  BY DEF Event, ConnInv, ConnTypeOK
<1>4. events' \in Seq(Event) /\ events' # <<>>
  BY <1>1, <1>3
<1>5. PlayersOf(events') = players
  BY <1>1 DEF PlayersOf, NewGameEvent
<1>6. Eliminations(events') = {} /\ PixelsOf(events') = {}
  BY <1>1 DEF Eliminations, PixelsOf, NewGameEvent
<1>7. CountOf(events, playersInTheGame)'
  BY <1>1, <1>2, <1>5, <1>6, FS_EmptySet DEF CountOf
<1>8. SquaresOf(events, squaresUsed)'
  BY <1>1, <1>6 DEF SquaresOf
<1>9. QED
  BY <1>2, <1>4, <1>5, <1>7, <1>8 DEF LogInv

\* An event appended to the log of a game.
LEMMA AppendKeepsLogInv ==
    ASSUME LogInv, gamePlayed, Eats \/ Dies \/ Ends
    PROVE  LogInv'
<1>1. events \in Seq(Event) /\ events # <<>> /\ Len(PlayersOf(events)) \in Nat
      /\ CountOf(events, playersInTheGame) /\ SquaresOf(events, squaresUsed)
  BY DEF LogInv
<1>2. /\ IsFiniteSet(Eliminations(events)) /\ Cardinality(Eliminations(events)) \in Nat
      /\ Len(events) + 1 \notin Eliminations(events)
      /\ Len(events) + 1 \notin PixelsOf(events)
  BY <1>1, EliminationsFinite
<1>3. PixelsOf(events) \subseteq DOMAIN events
  BY DEF PixelsOf
<1>4. CASE Eats
  <2>1. PICK n \in Num, c \in Cell :
            /\ c \notin squaresUsed /\ squaresUsed' = squaresUsed \cup {c}
            /\ events' = Append(events, PixelEvent(n, c))
            /\ UNCHANGED playersInTheGame
    BY <1>4 DEF Eats
  <2> DEFINE e == PixelEvent(n, c)
             last == Len(events) + 1
  <2>2. e \in Event /\ e.type = "pixel" /\ e.cell = c
    BY DEF Event, PixelEvent
  <2> HIDE DEF e
  <2>3. /\ events' \in Seq(Event) /\ events' # <<>>
        /\ \A i \in DOMAIN events : events'[i] = events[i]
        /\ events'[last] = e
        /\ PlayersOf(events') = PlayersOf(events)
        /\ Eliminations(events') = Eliminations(events)
        /\ PixelsOf(events') = PixelsOf(events) \cup {last}
    BY <1>1, <2>1, <2>2, Appended DEF e
  <2>4. CountOf(events, playersInTheGame)'
    BY <1>1, <2>1, <2>3 DEF CountOf
  <2>5. /\ \A i \in PixelsOf(events) : events'[i].cell = events[i].cell
        /\ events'[last].cell = c
    BY <1>3, <2>2, <2>3
  <2>6. SquaresOf(events', squaresUsed')
    <3> HIDE DEF last
    <3>1. SquaresOf(events', squaresUsed \cup {events'[last].cell})
      <4>1. SquaresOf(events, squaresUsed)
        BY <1>1
      <4>2. PixelsOf(events') = PixelsOf(events) \cup {last}
        BY <2>3
      <4>3. \A i \in PixelsOf(events) : events'[i].cell = events[i].cell
        BY <2>5
      <4>4. events'[last].cell \notin squaresUsed
        BY <2>1, <2>5
      <4>5. QED
        BY <4>1, <4>2, <4>3, <4>4, SquareAdded, Zenon
    <3>2. squaresUsed' = squaresUsed \cup {events'[last].cell}
      BY <2>1, <2>5
    <3>3. QED
      BY <3>1, <3>2
  <2>7. QED
    BY <1>1, <2>3, <2>4, <2>6 DEF LogInv
<1>5. CASE Dies
  <2>1. PICK n \in Num :
            /\ events' = Append(events, PlayerEliminatedEvent(n))
            /\ playersInTheGame' = playersInTheGame - 1
            /\ UNCHANGED squaresUsed
    BY <1>5 DEF Dies
  <2> DEFINE e == PlayerEliminatedEvent(n)
             last == Len(events) + 1
  <2>2. e \in Event /\ e.type = "eliminated"
    BY DEF Event, PlayerEliminatedEvent
  <2> HIDE DEF e
  <2>3. /\ events' \in Seq(Event) /\ events' # <<>>
        /\ \A i \in DOMAIN events : events'[i] = events[i]
        /\ PlayersOf(events') = PlayersOf(events)
        /\ Eliminations(events') = Eliminations(events) \cup {last}
        /\ PixelsOf(events') = PixelsOf(events)
    BY <1>1, <2>1, <2>2, Appended DEF e
  <2>4. Cardinality(Eliminations(events')) = Cardinality(Eliminations(events)) + 1
    BY <1>2, <2>3, FS_AddElement
  <2>5. CountOf(events, playersInTheGame)'
    BY <1>1, <1>2, <2>1, <2>3, <2>4 DEF CountOf
  <2>6. SquaresOf(events', squaresUsed')
    <3>1. \A i \in PixelsOf(events) : events'[i].cell = events[i].cell
      BY <1>3, <2>3
    <3>2. QED
      BY <1>1, <2>1, <2>3, <3>1, SquaresKept
  <2>7. QED
    BY <1>1, <2>3, <2>5, <2>6 DEF LogInv
<1>6. CASE Ends
  <2> DEFINE e == GameOverEvent
  <2>1. e \in Event /\ e.type = "game_over"
    BY DEF Event, GameOverEvent
  <2> HIDE DEF e
  <2>2. events' = Append(events, e) /\ UNCHANGED <<squaresUsed, playersInTheGame>>
    BY <1>6 DEF Ends, e
  <2>3. /\ events' \in Seq(Event) /\ events' # <<>>
        /\ \A i \in DOMAIN events : events'[i] = events[i]
        /\ PlayersOf(events') = PlayersOf(events)
        /\ Eliminations(events') = Eliminations(events)
        /\ PixelsOf(events') = PixelsOf(events)
    BY <1>1, <2>1, <2>2, Appended
  <2>4. CountOf(events, playersInTheGame)'
    BY <1>1, <2>2, <2>3 DEF CountOf
  <2>5. SquaresOf(events', squaresUsed')
    <3>1. \A i \in PixelsOf(events) : events'[i].cell = events[i].cell
      BY <1>3, <2>3
    <3>2. QED
      BY <1>1, <2>2, <2>3, <3>1, SquaresKept
  <2>6. QED
    BY <1>1, <2>3, <2>4, <2>5 DEF LogInv
<1>7. QED
  BY <1>4, <1>5, <1>6

LEMMA LogInvStep == GameInv /\ ConnInv /\ LogInv /\ [Next]_vars => LogInv'
<1> SUFFICES ASSUME GameInv, ConnInv, LogInv, [Next]_vars PROVE LogInv'
  OBVIOUS
<1>1. CASE Still
  <2>1. gamePlayed' => gamePlayed \/ \E e : events' = <<e>>
    <3>1. CASE Log!Open
      BY <3>1 DEF Log!Open
    <3>2. CASE Log!Extend \/ Log!Close
      BY <3>2 DEF Log!Extend, Log!Close
    <3>3. CASE UNCHANGED Log!logVars
      BY <3>3 DEF Log!logVars
    <3>4. QED
      BY <3>1, <3>2, <3>3, StepOfLog DEF Log!Next
  <2>2. events' = events
    BY <1>1 DEF Still
  <2>3. gamePlayed' => events' # <<>>
    BY <2>1, <2>2 DEF LogInv
  <2>4. QED
    BY <1>1, <2>2, <2>3 DEF Still, LogInv
<1>2. CASE Opens
  BY <1>2, OpensKeepsLogInv
<1>3. CASE gamePlayed /\ (Eats \/ Dies \/ Ends)
  BY <1>3, AppendKeepsLogInv
<1>4. QED
  BY <1>1, <1>2, <1>3, KindsOfStep

LEMMA LogInvAlways == Spec => []LogInv
<1>1. Init => LogInv
  BY DEF Init, LogInv
<1>2. QED
  BY <1>1, LogInvStep, GameInvAlways, TableAlways, PTL DEF Spec

\* playersInTheGame, decremented in addPlayerEliminatedEvent(), is at all
\* times the number of players that the log leaves alive.
THEOREM CountCorrect == Spec => []CountFollowsLog
<1>1. LogInv => CountFollowsLog
  BY DEF LogInv, CountFollowsLog, CountOf
<1>2. QED
  BY <1>1, LogInvAlways, PTL

\* squaresUsed is the set of the pixels in the log, and no pixel is in it
\* twice, on a board of any size.
THEOREM SquaresCorrect == Spec => []SquaresFollowLog
<1>1. LogInv => SquaresFollowLog
  BY DEF LogInv, SquaresFollowLog, SquaresOf, IsInjective
<1>2. QED
  BY <1>1, LogInvAlways, PTL
-----------------------------------------------------------------------------
(* The rules of the game *)

Count == Len(PlayersOf(events))

\* The players of the log sit in slots of their own, and nobody else does.
Seated ==
    events # <<>> =>
        /\ Count \in 2..MaxPlayers
        /\ \A n \in Num :
              IF n < Count
              THEN /\ playingPlayerDataIndex[n] \in Slot
                   /\ takesPartInTheCurrentGame[playingPlayerDataIndex[n]]
              ELSE playingPlayerDataIndex[n] = -1
        /\ \A m, n \in 0..(Count - 1) :
              playingPlayerDataIndex[m] = playingPlayerDataIndex[n] => m = n

Placing == pc = "start" /\ num # -1

Placed(n) == Placing => n < num \/ (n = num /\ added)

\* Each worm placed has made one event, so an elimination while the worms
\* are placed is among the first Count + 1 events of the log.
Paced ==
    gamePlayed =>
        IF Placing
        THEN Len(events) =
                1 + IF num < Count THEN num + (IF added THEN 1 ELSE 0) ELSE Count
        ELSE Len(events) > Count

\* GAME_OVER is the last event of a game that ended, with one player left.
OverWithOne ==
    events # <<>> =>
        /\ gamePlayed <=> Last(events).type # "game_over"
        /\ ~gamePlayed => playersInTheGame = 1

\* Who is dead by the log is marked as dead, and not heard of again.
Fates(log, dead, count) ==
    /\ \A i \in PixelsOf(log) \cup Eliminations(log) : log[i].player \in 0..(count - 1)
    /\ \A i \in Eliminations(log) : \A j \in (i + 1)..Len(log) :
           log[j].type # "game_over" => log[j].player # log[i].player
    /\ \A n \in 0..(count - 1) :
           dead[n] <=> \E i \in Eliminations(log) : log[i].player = n

FatesKnown == events # <<>> /\ CleanStart => Fates(events, isPlayerDead, Count)

\* The worms alive are on squares that are used, each on one of its own.
Apart ==
    gamePlayed /\ CleanStart =>
        \A m \in 0..(Count - 1) :
            ~isPlayerDead[m] /\ Placed(m) =>
                LET worm(n) == roundedPlayerWorm[playingPlayerDataIndex[n]]
                IN  /\ worm(m) \in squaresUsed
                    /\ \A n \in 0..(Count - 1) :
                          /\ ~isPlayerDead[n] /\ Placed(n)
                          /\ worm(m) = worm(n)
                          => m = n

RulesInv == Seated /\ Paced /\ OverWithOne /\ FatesKnown /\ Apart

\* One more event, about a player who lives.
LEMMA FatesAppended ==
    ASSUME NEW log \in Seq(Event), log # <<>>, NEW e \in Event,
           NEW dead, NEW after, NEW count \in Nat,
           Fates(log, dead, count),
           \/ e.type = "game_over"
           \/ /\ e.type \in {"pixel", "eliminated"}
              /\ e.player \in 0..(count - 1)
              /\ ~dead[e.player],
           \A n \in 0..(count - 1) :
               after[n] <=> dead[n] \/ (e.type = "eliminated" /\ n = e.player)
    PROVE  Fates(Append(log, e), after, count)
<1> DEFINE longer == Append(log, e)
           last == Len(log) + 1
<1>1. /\ \A i \in DOMAIN log : longer[i] = log[i]
      /\ longer[last] = e
      /\ Eliminations(longer) =
            IF e.type = "eliminated" THEN Eliminations(log) \cup {last}
                                     ELSE Eliminations(log)
      /\ PixelsOf(longer) =
            IF e.type = "pixel" THEN PixelsOf(log) \cup {last} ELSE PixelsOf(log)
  BY Appended
<1>2. /\ Len(log) \in Nat /\ DOMAIN log = 1..Len(log) /\ Len(longer) = last
      /\ Eliminations(log) \subseteq 1..Len(log)
      /\ PixelsOf(log) \subseteq 1..Len(log)
  BY DEF Eliminations, PixelsOf
<1> HIDE DEF longer
<1>3. \A i \in PixelsOf(longer) \cup Eliminations(longer) :
          longer[i].player \in 0..(count - 1)
  <2> SUFFICES ASSUME NEW i \in PixelsOf(longer) \cup Eliminations(longer)
               PROVE  longer[i].player \in 0..(count - 1)
    OBVIOUS
  <2>1. CASE i = last /\ e.type \in {"pixel", "eliminated"}
    BY <1>1, <2>1
  <2>2. CASE i \in PixelsOf(log) \cup Eliminations(log)
    BY <1>1, <1>2, <2>2 DEF Fates
  <2>3. QED
    BY <1>1, <2>1, <2>2
<1>4. ASSUME NEW i \in Eliminations(longer), NEW j \in (i + 1)..Len(longer),
             longer[j].type # "game_over"
      PROVE  longer[j].player # longer[i].player
  <2>1. i \in Eliminations(log) \/ i = last
    BY <1>1
  <2>2. i \in Eliminations(log)
    BY <2>1, <1>2
  <2>3. longer[i] = log[i] /\ log[i].player \in 0..(count - 1) /\ i \in 1..Len(log)
    BY <1>1, <1>2, <2>2 DEF Fates
  <2>4. CASE j \in 1..Len(log)
    <3>1. longer[j] = log[j] /\ j \in (i + 1)..Len(log)
      BY <1>1, <1>2, <2>3, <2>4
    <3>2. QED
      BY <1>4, <2>2, <2>3, <3>1 DEF Fates
  <2>5. CASE j = last
    <3>1. ~dead[e.player] /\ e.player \in 0..(count - 1)
      BY <1>1, <1>4, <2>5
    <3>2. dead[log[i].player]
      BY <2>2, <2>3 DEF Fates
    <3>3. QED
      BY <1>1, <2>3, <2>5, <3>1, <3>2
  <2>6. QED
    BY <1>2, <2>3, <2>4, <2>5
<1>5. ASSUME NEW n \in 0..(count - 1)
      PROVE  after[n] <=> \E i \in Eliminations(longer) : longer[i].player = n
  <2>1. dead[n] <=> \E i \in Eliminations(log) : log[i].player = n
    BY DEF Fates
  <2>2. \A i \in Eliminations(log) : longer[i] = log[i]
    BY <1>1, <1>2
  <2>3. CASE e.type = "eliminated"
    BY <1>1, <2>1, <2>2, <2>3
  <2>4. CASE e.type # "eliminated"
    BY <1>1, <2>1, <2>2, <2>4
  <2>5. QED
    BY <2>3, <2>4
<1>6. QED
  BY <1>3, <1>4, <1>5 DEF Fates, longer

\* The roster changes when a game starts, the rest of the game also in the
\* iterations of the two loops and when the game is over.
LEMMA StepsOfGame ==
    ASSUME [Next]_vars
    PROVE  \/ UNCHANGED gameVars
           \/ NewGame
           \/ /\ UNCHANGED roster
              /\ MoveWorm \/ PlaceWorm \/ TurnEndsGame \/ PlacingEndsGame
  BY DEF Next, Handle, Round, StartGame, PollAll, NoTurn, Disconnections,
     ReadDatagram, NoNewGame, BeginTurn, SkipWorm, TurnGoesOn, SkipPlace,
     PlacingGoesOn, MoveWorm, PlaceWorm, TurnEndsGame, PlacingEndsGame,
     AddGameOverEvent, vars

\* An event at the end of the log leaves the names in it, and a start that
\* was not clean does not become so.
LEMMA LogAppended ==
    ASSUME LogInv, events # <<>>, NEW e \in Event, events' = Append(events, e)
    PROVE  /\ events' # <<>> /\ events' \in Seq(Event)
           /\ Len(events') = Len(events) + 1 /\ Last(events') = e
           /\ PlayersOf(events') = PlayersOf(events)
           /\ Count' = Count /\ Count \in Nat
           /\ CleanStart' => CleanStart
           /\ CleanStart' /\ e.type = "eliminated" => Len(events) > Count
<1>1. /\ events' # <<>> /\ events' \in Seq(Event)
      /\ PlayersOf(events') = PlayersOf(events)
      /\ Eliminations(events') =
            IF e.type = "eliminated"
            THEN Eliminations(events) \cup {Len(events) + 1} ELSE Eliminations(events)
  BY Appended DEF LogInv
<1>2. Len(events') = Len(events) + 1 /\ events'[Len(events) + 1] = e
      /\ Len(events) \in Nat
  BY DEF LogInv
<1>3. Count' = Count /\ Count \in Nat
  BY <1>1 DEF Count, LogInv
<1>4. Last(events') = e
  BY <1>2 DEF Last
<1>5. (CleanStart' => CleanStart)
      /\ (CleanStart' /\ e.type = "eliminated" => Len(events) > Count)
  <2>1. Eliminations(events) \subseteq Eliminations(events')
    BY <1>1
  <2>2. CleanStart' => CleanStart
    BY <1>1, <2>1 DEF CleanStart
  <2>3. CleanStart' /\ e.type = "eliminated" => Len(events) + 1 > Count + 1
    BY <1>1, <1>3 DEF CleanStart, Count
  <2>4. QED
    BY <1>2, <1>3, <2>2, <2>3
<1>6. QED
  BY <1>1, <1>2, <1>3, <1>4, <1>5

\* A worm alive enters a free square.
LEMMA PixelKeepsRules ==
    ASSUME LogInv, GameInv, Seated, OverWithOne, FatesKnown, Apart, gamePlayed,
           NEW n \in 0..(Count - 1), NEW c \in Cell, c \notin squaresUsed,
           CleanStart => ~isPlayerDead[n],
           events' = Append(events, PixelEvent(n, c)),
           squaresUsed' = squaresUsed \cup {c},
           roundedPlayerWorm' =
               [roundedPlayerWorm EXCEPT ![playingPlayerDataIndex[n]] = c],
           UNCHANGED <<roster, isPlayerDead, gamePlayed>>,
           \A m \in 0..(Count - 1) : Placed(m)' /\ m # n => Placed(m)
    PROVE  OverWithOne' /\ FatesKnown' /\ Apart'
<1> DEFINE e == PixelEvent(n, c)
<1>1. events # <<>> /\ Count \in 2..MaxPlayers
  BY DEF LogInv, Seated
<1>2. n \in Num
  BY <1>1, MaxPlayersAssumption DEF Num
<1>3. e \in Event /\ e.type = "pixel" /\ e.player = n
  BY <1>2 DEF Event, PixelEvent
<1>4. /\ events' # <<>> /\ Last(events') = e
      /\ Count' = Count /\ (CleanStart' => CleanStart)
  BY <1>1, <1>3, LogAppended
<1>5. OverWithOne'
  BY <1>3, <1>4 DEF OverWithOne
<1>6. FatesKnown'
  <2> SUFFICES ASSUME CleanStart' PROVE Fates(events', isPlayerDead', Count')
    BY DEF FatesKnown
  <2>1. Fates(events, isPlayerDead, Count) /\ ~isPlayerDead[n]
    BY <1>1, <1>4 DEF FatesKnown
  <2> HIDE DEF e
  <2>2. Fates(Append(events, e), isPlayerDead, Count)
    BY <1>1, <1>3, <2>1, FatesAppended DEF LogInv
  <2>3. QED
    BY <1>4, <2>2 DEF e
<1>7. Apart'
  <2> SUFFICES ASSUME CleanStart', NEW m \in 0..(Count - 1),
                      ~isPlayerDead[m], Placed(m)'
               PROVE  LET worm(k) == roundedPlayerWorm'[playingPlayerDataIndex[k]]
                      IN  /\ worm(m) \in squaresUsed'
                          /\ \A k \in 0..(Count - 1) :
                                /\ ~isPlayerDead[k] /\ Placed(k)'
                                /\ worm(m) = worm(k)
                                => m = k
    BY <1>4 DEF Apart, roster
  <2> DEFINE worm(k) == roundedPlayerWorm'[playingPlayerDataIndex[k]]
             was(k) == roundedPlayerWorm[playingPlayerDataIndex[k]]
  <2>1. \A k \in 0..(Count - 1) : playingPlayerDataIndex[k] \in Slot
    BY <1>1, MaxPlayersAssumption DEF Seated, Num
  <2>2. worm(n) = c
    BY <2>1 DEF GameInv, ServerTypeOK
  <2>3. ASSUME NEW k \in 0..(Count - 1), k # n
        PROVE  worm(k) = was(k)
    <3>1. playingPlayerDataIndex[k] # playingPlayerDataIndex[n]
      BY <1>1, <2>3 DEF Seated
    <3>2. QED
      BY <2>1, <3>1 DEF GameInv, ServerTypeOK
  <2>4. ASSUME NEW k \in 0..(Count - 1), k # n, ~isPlayerDead[k], Placed(k)'
        PROVE  worm(k) \in squaresUsed /\ worm(k) # c /\ Placed(k)
    BY <1>4, <2>3, <2>4 DEF Apart
  <2>5. worm(m) \in squaresUsed'
    BY <2>2, <2>4
  <2>6. ASSUME NEW k \in 0..(Count - 1), ~isPlayerDead[k], Placed(k)',
               worm(m) = worm(k), m # k
        PROVE  FALSE
    <3>1. CASE m = n \/ k = n
      BY <2>2, <2>4, <2>6, <3>1
    <3>2. CASE m # n /\ k # n
      <4>1. was(m) = was(k) /\ Placed(m) /\ Placed(k)
        BY <2>3, <2>4, <2>6, <3>2
      <4>2. QED
        BY <1>4, <2>6, <4>1 DEF Apart
    <3>3. QED
      BY <3>1, <3>2
  <2>7. QED
    BY <2>5, <2>6
<1>8. QED
  BY <1>5, <1>6, <1>7

\* A worm alive, already placed, dies: the other worms stay where they are.
LEMMA DeathKeepsRules ==
    ASSUME LogInv, GameInv, Seated, OverWithOne, FatesKnown, Apart, gamePlayed,
           NEW n \in 0..(Count - 1), ~isPlayerDead[n],
           AddPlayerEliminatedEvent(n),
           squaresUsed \subseteq squaresUsed',
           \A s \in Slot : s # playingPlayerDataIndex[n] =>
               roundedPlayerWorm'[s] = roundedPlayerWorm[s],
           UNCHANGED <<roster, gamePlayed>>,
           \A m \in 0..(Count - 1) : Placed(m)' => Placed(m)
    PROVE  OverWithOne' /\ FatesKnown' /\ Apart'
<1> DEFINE e == PlayerEliminatedEvent(n)
<1>1. events # <<>> /\ Count \in 2..MaxPlayers
  BY DEF LogInv, Seated
<1>2. n \in Num
  BY <1>1, MaxPlayersAssumption DEF Num
<1>3. e \in Event /\ e.type = "eliminated" /\ e.player = n
      /\ events' = Append(events, e)
  BY <1>2 DEF Event, PlayerEliminatedEvent, AddPlayerEliminatedEvent
<1>4. /\ events' # <<>> /\ Last(events') = e
      /\ Count' = Count /\ (CleanStart' => CleanStart)
  BY <1>1, <1>3, LogAppended
<1>5. \A m \in 0..(Count - 1) : isPlayerDead'[m] <=> isPlayerDead[m] \/ m = n
  <2>1. \A m \in 0..(Count - 1) : m \in Num
    BY <1>1, MaxPlayersAssumption DEF Num
  <2>2. QED
    BY <2>1 DEF AddPlayerEliminatedEvent, GameInv, ServerTypeOK
<1>6. OverWithOne'
  BY <1>3, <1>4 DEF OverWithOne
<1>7. FatesKnown'
  <2> SUFFICES ASSUME CleanStart' PROVE Fates(events', isPlayerDead', Count')
    BY DEF FatesKnown
  <2>1. Fates(events, isPlayerDead, Count)
    BY <1>1, <1>4 DEF FatesKnown
  <2> HIDE DEF e
  <2>2. Fates(Append(events, e), isPlayerDead', Count)
    <3>1. \A m \in 0..(Count - 1) :
              isPlayerDead'[m] <=>
                  isPlayerDead[m] \/ (e.type = "eliminated" /\ m = e.player)
      BY <1>3, <1>5
    <3>2. Count \in Nat
      BY <1>1
    <3>3. QED
      BY <1>1, <1>3, <2>1, <3>1, <3>2, FatesAppended DEF LogInv
  <2>3. QED
    BY <1>3, <1>4, <2>2
<1>8. Apart'
  <2> SUFFICES ASSUME CleanStart', NEW m \in 0..(Count - 1),
                      ~isPlayerDead'[m], Placed(m)'
               PROVE  LET worm(k) == roundedPlayerWorm'[playingPlayerDataIndex[k]]
                      IN  /\ worm(m) \in squaresUsed'
                          /\ \A k \in 0..(Count - 1) :
                                /\ ~isPlayerDead'[k] /\ Placed(k)'
                                /\ worm(m) = worm(k)
                                => m = k
    BY <1>4 DEF Apart, roster
  <2> DEFINE worm(k) == roundedPlayerWorm'[playingPlayerDataIndex[k]]
             was(k) == roundedPlayerWorm[playingPlayerDataIndex[k]]
  <2>1. ASSUME NEW k \in 0..(Count - 1), ~isPlayerDead'[k], Placed(k)'
        PROVE  worm(k) = was(k) /\ ~isPlayerDead[k] /\ Placed(k)
    <3>1. k # n /\ ~isPlayerDead[k]
      BY <1>5, <2>1
    <3>2. k \in Num /\ playingPlayerDataIndex[k] \in Slot
      BY <1>1, MaxPlayersAssumption DEF Seated, Num
    <3>3. playingPlayerDataIndex[k] # playingPlayerDataIndex[n]
      BY <1>1, <3>1 DEF Seated
    <3>4. QED
      BY <2>1, <3>1, <3>2, <3>3
  <2>2. worm(m) \in squaresUsed'
    BY <1>4, <2>1 DEF Apart
  <2>3. ASSUME NEW k \in 0..(Count - 1), ~isPlayerDead'[k], Placed(k)',
               worm(m) = worm(k)
        PROVE  m = k
    BY <1>4, <2>1, <2>3 DEF Apart
  <2>4. QED
    BY <2>2, <2>3
<1>9. QED
  BY <1>6, <1>7, <1>8

LEMMA MoveWormKeepsRules ==
    ASSUME LogInv, GameInv, RulesInv, MoveWorm
    PROVE  RulesInv'
<1> DEFINE s == playingPlayerDataIndex[num]
<1> USE DEF RulesInv
<1>1. /\ gamePlayed /\ gamePlayed' = gamePlayed /\ UNCHANGED roster
      /\ pc = "turn" /\ pc' = "turn" /\ num' = num
      /\ events # <<>> /\ Count \in 2..MaxPlayers /\ Len(events) > Count
  BY DEF MoveWorm, GameInv, LoopsInGame, LogInv, Seated, Paced, Placing, connVars
<1>2. num \in 0..(Count - 1) /\ s \in Slot /\ ~isPlayerDead[num] /\ num \in Num
  BY <1>1, MaxPlayersAssumption
     DEF MoveWorm, Moves, GameInv, ServerTypeOK, Seated, Num
<1>3. \A m : Placed(m) /\ Placed(m)' /\ ~Placing /\ ~Placing'
  BY <1>1 DEF Placed, Placing
<1>4. CASE RestInCell(s)
  <2>1. UNCHANGED <<events, isPlayerDead, squaresUsed, roundedPlayerWorm,
                    playersInTheGame, Count>> /\ (CleanStart' <=> CleanStart)
    BY <1>4 DEF RestInCell, Count, CleanStart
  <2>2. Seated' /\ Paced' /\ OverWithOne' /\ FatesKnown'
    BY <1>1, <1>3, <2>1 DEF Seated, Paced, OverWithOne, FatesKnown, roster
  <2>3. Apart'
    BY <1>1, <1>3, <2>1 DEF Apart, roster
  <2>4. QED
    BY <2>2, <2>3
<1>5. ASSUME NEW e \in Event, events' = Append(events, e)
      PROVE  Seated' /\ Paced'
  <2>1. Count' = Count /\ Len(events') = Len(events) + 1
    BY <1>1, <1>5, LogAppended
  <2>2. Len(events) \in Nat
    BY DEF LogInv
  <2>3. QED
    BY <1>1, <1>3, <2>1, <2>2 DEF Seated, Paced, roster
<1>6. CASE \E c \in Neighbours(roundedPlayerWorm[s]) \cap Cell :
               EnterCell(num, s, c)
  <2>1. PICK c \in Cell : EnterCell(num, s, c)
    BY <1>6
  <2>2. CASE c \in squaresUsed
    <3>1. AddPlayerEliminatedEvent(num)
          /\ roundedPlayerWorm' = [roundedPlayerWorm EXCEPT ![s] = c]
          /\ squaresUsed \subseteq squaresUsed'
      BY <2>1, <2>2 DEF EnterCell
    <3>2. \A t \in Slot : t # s => roundedPlayerWorm'[t] = roundedPlayerWorm[t]
      BY <3>1 DEF GameInv, ServerTypeOK
    <3>3. OverWithOne' /\ FatesKnown' /\ Apart'
      BY <1>1, <1>2, <1>3, <3>1, <3>2, DeathKeepsRules
    <3>4. Seated' /\ Paced'
      BY <1>2, <1>5, <3>1 DEF AddPlayerEliminatedEvent, Event
    <3>5. QED
      BY <3>3, <3>4
  <2>3. CASE c \notin squaresUsed
    <3>1. /\ events' = Append(events, PixelEvent(num, c))
          /\ UNCHANGED isPlayerDead
          /\ roundedPlayerWorm' = [roundedPlayerWorm EXCEPT ![s] = c]
          /\ squaresUsed' = squaresUsed \cup {c}
      BY <2>1, <2>3 DEF EnterCell, AddPixelEvent
    <3>2. OverWithOne' /\ FatesKnown' /\ Apart'
      BY <1>1, <1>2, <1>3, <2>3, <3>1, PixelKeepsRules
    <3>3. Seated' /\ Paced'
      BY <1>2, <1>5, <3>1 DEF Event
    <3>4. QED
      BY <3>2, <3>3
  <2>4. QED
    BY <2>2, <2>3
<1>7. CASE LeaveBoard(num, s)
  <2>1. AddPlayerEliminatedEvent(num) /\ UNCHANGED <<squaresUsed, roundedPlayerWorm>>
    BY <1>7 DEF LeaveBoard
  <2>2. OverWithOne' /\ FatesKnown' /\ Apart'
    BY <1>1, <1>2, <1>3, <2>1, DeathKeepsRules
  <2>3. Seated' /\ Paced'
    BY <1>2, <1>5, <2>1 DEF AddPlayerEliminatedEvent, Event
  <2>4. QED
    BY <2>2, <2>3
<1>8. QED
  BY <1>4, <1>6, <1>7 DEF MoveWorm

\* A worm placed on a square that is used makes the start unclean.
LEMMA PlaceWormKeepsRules ==
    ASSUME LogInv, GameInv, RulesInv, PlaceWorm
    PROVE  RulesInv'
<1> DEFINE index == playingPlayerDataIndex[num]
<1> USE DEF RulesInv
<1>1. /\ gamePlayed /\ gamePlayed' = gamePlayed /\ UNCHANGED roster
      /\ Placing /\ Placing' /\ num' = num /\ ~added /\ added'
      /\ events # <<>> /\ Count \in 2..MaxPlayers
  BY DEF PlaceWorm, GameInv, ServerTypeOK, LoopsInGame, LogInv, Seated, Placing, connVars
<1>2. num \in 0..(Count - 1) /\ index \in Slot /\ num \in Num
  BY <1>1, MaxPlayersAssumption
     DEF PlaceWorm, IsPlaced, GameInv, ServerTypeOK, Seated, Num
<1>3. Len(events) = num + 1
  BY <1>1, <1>2 DEF Paced
<1>4. PICK c \in Cell :
          /\ roundedPlayerWorm' = [roundedPlayerWorm EXCEPT ![index] = c]
          /\ squaresUsed' = squaresUsed \cup {c}
          /\ IF c \in squaresUsed THEN AddPlayerEliminatedEvent(index)
                                  ELSE AddPixelEvent(num, c)
  BY DEF PlaceWorm
<1>5. ASSUME NEW e \in Event, events' = Append(events, e)
      PROVE  Seated' /\ Paced'
  <2>1. Count' = Count /\ Len(events') = Len(events) + 1
    BY <1>1, <1>5, LogAppended
  <2>2. Seated'
    BY <1>1, <2>1 DEF Seated, roster
  <2>3. Paced'
    BY <1>1, <1>2, <1>3, <2>1 DEF Paced
  <2>4. QED
    BY <2>2, <2>3
<1>6. CASE c \in squaresUsed
  <2>1. /\ events' = Append(events, PlayerEliminatedEvent(index))
        /\ PlayerEliminatedEvent(index) \in Event
        /\ PlayerEliminatedEvent(index).type = "eliminated"
    BY <1>2, <1>4, <1>6, MaxPlayersAssumption
       DEF AddPlayerEliminatedEvent, PlayerEliminatedEvent, Event, Slot, Num
  <2>2. ~CleanStart' /\ Last(events').type = "eliminated"
    BY <1>1, <1>2, <1>3, <2>1, LogAppended
  <2>3. OverWithOne' /\ FatesKnown' /\ Apart'
    BY <1>1, <2>2 DEF OverWithOne, FatesKnown, Apart
  <2>4. QED
    BY <1>5, <2>1, <2>3
<1>7. CASE c \notin squaresUsed
  <2>1. events' = Append(events, PixelEvent(num, c)) /\ UNCHANGED isPlayerDead
    BY <1>4, <1>7 DEF AddPixelEvent
  <2>2. CleanStart => ~isPlayerDead[num]
    <3> SUFFICES ASSUME CleanStart PROVE ~isPlayerDead[num]
      OBVIOUS
    <3>1. Eliminations(events) = {}
      <4>1. Eliminations(events) \subseteq 1..Len(events)
        BY DEF LogInv, Eliminations
      <4>2. \A i \in Eliminations(events) : i > Count + 1
        BY DEF CleanStart, Count
      <4>3. QED
        BY <1>1, <1>2, <1>3, <4>1, <4>2
    <3>2. QED
      BY <1>1, <1>2, <3>1 DEF FatesKnown, Fates
  <2>3. \A m \in 0..(Count - 1) : Placed(m)' /\ m # num => Placed(m)
    BY <1>1, <1>2 DEF Placed, Placing
  <2>4. OverWithOne' /\ FatesKnown' /\ Apart'
    BY <1>1, <1>2, <1>4, <1>7, <2>1, <2>2, <2>3, PixelKeepsRules
  <2>5. QED
    BY <1>2, <1>5, <2>1, <2>4 DEF Event
<1>8. QED
  BY <1>6, <1>7

LEMMA GameOverKeepsRules ==
    ASSUME LogInv, GameInv, RulesInv, added, AddGameOverEvent
    PROVE  RulesInv'
<1> USE DEF RulesInv
<1>1. /\ gamePlayed /\ ~gamePlayed' /\ UNCHANGED roster
      /\ events # <<>> /\ Count \in 2..MaxPlayers
      /\ playersInTheGame' = 1 /\ UNCHANGED isPlayerDead
  BY DEF AddGameOverEvent, GameInv, LoopsInGame, LogInv, Seated
<1> DEFINE e == GameOverEvent
<1>2. e \in Event /\ e.type = "game_over" /\ events' = Append(events, e)
  BY DEF AddGameOverEvent, Event, GameOverEvent
<1>3. /\ events' # <<>> /\ Last(events') = e
      /\ Count' = Count /\ (CleanStart' => CleanStart)
  BY <1>1, <1>2, LogAppended
<1>4. Seated' /\ Paced' /\ OverWithOne' /\ Apart'
  BY <1>1, <1>2, <1>3 DEF Seated, Paced, OverWithOne, Apart, roster
<1>5. FatesKnown'
  <2> SUFFICES ASSUME CleanStart' PROVE Fates(events', isPlayerDead', Count')
    BY DEF FatesKnown
  <2>1. Fates(events, isPlayerDead, Count) /\ Count \in Nat
    BY <1>1, <1>3 DEF FatesKnown
  <2> HIDE DEF e
  <2>2. Fates(Append(events, e), isPlayerDead, Count)
    BY <1>1, <1>2, <2>1, FatesAppended DEF LogInv
  <2>3. QED
    BY <1>1, <1>2, <1>3, <2>2
<1>6. QED
  BY <1>4, <1>5

\* The names of a new game are those of the players connected, each in its
\* slot, and nobody has been placed.
LEMMA NewGameKeepsRules ==
    ASSUME GameInv, ConnInv, NewGame
    PROVE  RulesInv'
<1>1. PICK players \in InOrder(namesUsed) :
          /\ UpdateCurrentlyPlayingPlayers(players)
          /\ events' = <<NewGameEvent(players)>>
  BY DEF NewGame
<1>2. /\ players \in Seq(namesUsed)
      /\ \A i, j \in 1..Len(players) : players[i] = players[j] => i = j
      /\ Len(players) = Cardinality(Players)
      /\ Len(players) \in 2..MaxPlayers
  <2>1. Cardinality(Players) >= 2
    BY DEF NewGame, MayStart, NumberOfReadyPlayers
  <2>2. QED
    BY <1>1, <2>1, InOrderSeq, NamesCounted DEF ConnInv, ConnTypeOK
<1>3. /\ PlayersOf(events') = players /\ Count' = Len(players)
      /\ events' # <<>> /\ Len(events') = 1 /\ Last(events').type = "new_game"
      /\ Eliminations(events') = {} /\ PixelsOf(events') = {}
  BY <1>1 DEF PlayersOf, NewGameEvent, Count, Last, Eliminations, PixelsOf
<1>4. /\ pc' = "start" /\ num' = 0 /\ ~added' /\ gamePlayed'
  BY DEF NewGame, NextIteration, connVars
<1>5. /\ \A n \in 0..(Count' - 1) :
             /\ playingPlayerDataIndex'[n] \in Players'
             /\ playerName'[playingPlayerDataIndex'[n]] = playingPlayerName'[n]
             /\ takesPartInTheCurrentGame'[playingPlayerDataIndex'[n]]
      /\ \A n \in Count'..MaxPlayers : playingPlayerDataIndex'[n] = -1
  BY <1>3, <1>4, NewGameMatches DEF RosterIsConnected
<1>6. Seated'
  <2>1. Players' \subseteq Slot
    BY DEF Players, Active
  <2>2. \A n \in Num :
            IF n < Count'
            THEN /\ playingPlayerDataIndex'[n] \in Slot
                 /\ takesPartInTheCurrentGame'[playingPlayerDataIndex'[n]]
            ELSE playingPlayerDataIndex'[n] = -1
    BY <1>2, <1>3, <1>5, <2>1, MaxPlayersAssumption DEF Num
  <2>3. ASSUME NEW m \in 0..(Count' - 1), NEW n \in 0..(Count' - 1),
               playingPlayerDataIndex'[m] = playingPlayerDataIndex'[n]
        PROVE  m = n
    <3>1. playingPlayerName'[m] = playingPlayerName'[n]
      BY <1>5, <2>3
    <3>2. \A k \in 0..(Count' - 1) : playingPlayerName'[k] = players[k + 1]
      BY <1>1, <1>2, <1>3, MaxPlayersAssumption
         DEF UpdateCurrentlyPlayingPlayers, Num
    <3>3. m + 1 \in 1..Len(players) /\ n + 1 \in 1..Len(players)
      BY <1>2, <1>3
    <3>4. m + 1 = n + 1
      BY <1>2, <3>1, <3>2, <3>3
    <3>5. QED
      BY <1>2, <1>3, <3>4
  <2>4. QED
    BY <1>2, <1>3, <2>2, <2>3 DEF Seated
<1>7. Paced' /\ OverWithOne'
  BY <1>2, <1>3, <1>4 DEF Paced, Placing, OverWithOne
<1>8. FatesKnown'
  <2>1. \A n \in Num : ~isPlayerDead'[n]
    BY <1>1 DEF UpdateCurrentlyPlayingPlayers
  <2>2. \A n \in 0..(Count' - 1) : n \in Num
    BY <1>2, <1>3, MaxPlayersAssumption DEF Num
  <2>3. QED
    BY <1>3, <2>1, <2>2 DEF FatesKnown, Fates
<1>9. Apart'
  BY <1>2, <1>3, <1>4 DEF Apart, Placed, Placing
<1>10. QED
  BY <1>6, <1>7, <1>8, <1>9 DEF RulesInv

\* Steps that leave the game alone place no worm that takes part.
LEMMA OtherStepKeepsRules ==
    ASSUME LogInv, GameInv, RulesInv, [Next]_vars, UNCHANGED gameVars
    PROVE  RulesInv'
<1> USE DEF RulesInv
<1>1. /\ UNCHANGED <<events, gamePlayed, playersInTheGame, squaresUsed,
                     isPlayerDead, roundedPlayerWorm, roster, Count>>
      /\ CleanStart' <=> CleanStart
  <2>1. UNCHANGED <<events, gamePlayed, playersInTheGame, squaresUsed,
                    isPlayerDead, roundedPlayerWorm, roster>>
    BY DEF gameVars, roster
  <2>2. UNCHANGED Count /\ (CleanStart' <=> CleanStart)
    BY <2>1 DEF Count, CleanStart
  <2>3. QED
    BY <2>1, <2>2
<1>2. Seated' /\ OverWithOne' /\ FatesKnown'
  BY <1>1 DEF Seated, OverWithOne, FatesKnown, roster
<1>3. CASE ~gamePlayed
  BY <1>1, <1>2, <1>3 DEF Paced, Apart
<1>4. CASE gamePlayed
  <2>1. events # <<>> /\ Count \in 2..MaxPlayers /\ num \in -1..MaxPlayers
        /\ Len(events) \in Nat /\ added \in BOOLEAN /\ MaxPlayers \in Nat
    BY <1>4, MaxPlayersAssumption DEF LogInv, Seated, GameInv, ServerTypeOK
  <2>2. Paced' /\ \A n \in 0..(Count - 1) : Placed(n)' => Placed(n)
    <3>1. CASE ~Placing /\ ~Placing'
      BY <1>1, <1>4, <3>1 DEF Paced, Placed
    <3>2. CASE SkipPlace
      <4>1. /\ Placing /\ Placing' /\ num' = num /\ ~added /\ added' = TRUE
            /\ num \in Num /\ ~IsPlaced(num)
        BY <2>1, <3>2 DEF SkipPlace, Placing, connVars, Num
      <4>2. num >= Count
        BY <2>1, <4>1, MaxPlayersAssumption DEF IsPlaced, Seated, Slot
      <4>3. QED
        BY <1>1, <1>4, <2>1, <4>1, <4>2 DEF Paced, Placed
    <3>3. CASE PlacingGoesOn /\ num < MaxPlayers /\ NextIteration /\ UNCHANGED pc
      <4>1. Placing /\ Placing' /\ num \in 0..(MaxPlayers - 1) /\ added
            /\ num' = num + 1 /\ added' = FALSE
        BY <2>1, <3>3 DEF PlacingGoesOn, NextIteration, Placing, GameInv, LoopsInGame
      <4>2. QED
        BY <1>1, <1>4, <2>1, <4>1 DEF Paced, Placed
    <3>4. CASE PlacingGoesOn /\ num = MaxPlayers /\ LoopEnds
      <4>1. Placing /\ ~Placing' /\ added /\ num = MaxPlayers
        BY <2>1, <3>4 DEF PlacingGoesOn, LoopEnds, Placing
      <4>2. QED
        BY <1>1, <1>4, <2>1, <4>1 DEF Paced, Placed
    <3>5. CASE UNCHANGED <<pc, num, added>>
      BY <1>1, <1>4, <3>5 DEF Paced, Placed, Placing
    <3>6. CASE ~SkipPlace /\ ~PlacingGoesOn /\ ~UNCHANGED <<pc, num, added>>
      <4>1. ~NewGame /\ ~PlaceWorm /\ ~PlacingEndsGame
        BY <1>1, <1>4, <2>1 DEF NewGame, MayStart, PlaceWorm, AddPlayerEliminatedEvent,
           AddPixelEvent, PlacingEndsGame, AddGameOverEvent
      <4>2. CASE PollAll \/ NoTurn \/ Disconnections \/ ReadDatagram \/ NoNewGame
        <5>1. num = -1
          BY <4>2 DEF PollAll, Poll, NoTurn, Disconnections, CheckDisconnection,
             ReadDatagram, CheckDatagram, NoNewGame, GameInv, LoopsInGame
        <5>2. num' = -1
          BY <4>2, <5>1 DEF PollAll, NoTurn, Disconnections, ReadDatagram,
             NoNewGame, loopVars
        <5>3. QED
          BY <3>1, <5>1, <5>2 DEF Placing
      <4>3. CASE Round
        <5>1. pc = "turn" /\ (pc' = "turn" \/ num' = -1)
          BY <4>3 DEF Round, BeginTurn, MoveWorm, SkipWorm, TurnGoesOn,
             TurnEndsGame, LoopEnds, connVars
        <5>2. QED
          BY <3>1, <5>1 DEF Placing
      <4>4. QED
        BY <3>6, <4>1, <4>2, <4>3 DEF Next, Handle, StartGame, vars, connVars, loopVars
    <3>7. QED
      BY <3>2, <3>3, <3>4, <3>5, <3>6 DEF PlacingGoesOn
  <2>3. Apart'
    BY <1>1, <2>2 DEF Apart, roster
  <2>4. QED
    BY <1>2, <2>2, <2>3
<1>5. QED
  BY <1>3, <1>4

\* The invariant of the rules is inductive, on top of those of the table, of
\* the game and of its log.
LEMMA RulesInvStep ==
    ASSUME GameInv, ConnInv, LogInv, RulesInv, [Next]_vars
    PROVE  RulesInv'
<1>1. CASE UNCHANGED gameVars
  BY <1>1, OtherStepKeepsRules
<1>2. CASE NewGame
  BY <1>2, NewGameKeepsRules
<1>3. CASE MoveWorm
  BY <1>3, MoveWormKeepsRules
<1>4. CASE PlaceWorm
  BY <1>4, PlaceWormKeepsRules
<1>5. CASE TurnEndsGame \/ PlacingEndsGame
  BY <1>5, GameOverKeepsRules DEF TurnEndsGame, PlacingEndsGame
<1>6. QED
  BY <1>1, <1>2, <1>3, <1>4, <1>5, StepsOfGame

LEMMA RulesInvAlways == Spec => []RulesInv
<1>1. Init => RulesInv
  BY DEF Init, RulesInv, Seated, Paced, OverWithOne, FatesKnown, Apart
<1>2. GameInv /\ ConnInv /\ LogInv /\ RulesInv /\ [Next]_vars => RulesInv'
  BY RulesInvStep
<1>3. QED
  BY <1>1, <1>2, LogInvAlways, GameInvAlways, TableAlways, PTL DEF Spec

\* The dead of a clean game are as many as its eliminations.
LEMMA DeadAreEliminated ==
    ASSUME LogInv, RulesInv, events # <<>>, CleanStart
    PROVE  LET dead == {n \in 0..(Count - 1) : isPlayerDead[n]}
           IN  IsFiniteSet(dead) /\ Cardinality(dead) = Cardinality(Eliminations(events))
<1> DEFINE dead == {n \in 0..(Count - 1) : isPlayerDead[n]}
           out == Eliminations(events)
           who == [i \in out |-> events[i].player]
<1>1. Fates(events, isPlayerDead, Count)
  BY DEF RulesInv, FatesKnown
<1>2. events \in Seq(Event) /\ IsFiniteSet(out) /\ out \subseteq 1..Len(events)
      /\ \A i \in out : events[i].type = "eliminated"
  BY EliminationsFinite DEF LogInv, Eliminations
<1>3. who \in [out -> dead]
  BY <1>1 DEF Fates
<1>4. \A i, j \in out : who[i] = who[j] => i = j
  <2>1. ASSUME NEW i \in out, NEW j \in out, i < j
        PROVE  events[j].player # events[i].player
    <3>1. j \in (i + 1)..Len(events) /\ events[j].type # "game_over"
      BY <1>2, <2>1
    <3>2. QED
      BY <1>1, <3>1 DEF Fates
  <2>2. ASSUME NEW i \in out, NEW j \in out, i # j
        PROVE  events[j].player # events[i].player
    BY <1>2, <2>1, <2>2
  <2>3. QED
    BY <2>2
<1>5. \A n \in dead : \E i \in out : who[i] = n
  BY <1>1 DEF Fates
<1>6. who \in Bijection(out, dead)
  <2>1. who \in Injection(out, dead)
    BY <1>3, <1>4, Fun_IsInj
  <2>2. who \in Surjection(out, dead)
    BY <1>3, <1>5, Fun_IsSurj
  <2>3. QED
    BY <2>1, <2>2, Fun_IsBij
<1>7. QED
  BY <1>2, <1>6, FS_Bijection DEF ExistsBijection

\* The rules of the game, for any number of players on a board of any size:
\* events bear the numbers of players, the eliminated are not heard of again,
\* and one player is left when the game is over.
THEOREM RulesCorrect == Spec => []RulesAfterCleanStart
<1>1. LogInv /\ RulesInv => RulesAfterCleanStart
  <2> SUFFICES ASSUME LogInv, RulesInv, events # <<>>, CleanStart
               PROVE  RulesAfterCleanStart
    BY DEF RulesAfterCleanStart
  <2> DEFINE players == 0..(Count - 1)
             dead == {n \in players : isPlayerDead[n]}
  <2>1. Fates(events, isPlayerDead, Count) /\ Count \in 2..MaxPlayers
    BY DEF RulesInv, FatesKnown, Seated
  <2>2. Last(events).type = "game_over" =>
            Cardinality({n \in players : ~isPlayerDead[n]}) = 1
    <3> SUFFICES ASSUME Last(events).type = "game_over"
                 PROVE  Cardinality({n \in players : ~isPlayerDead[n]}) = 1
      OBVIOUS
    <3>1. 1 = Count - Cardinality(Eliminations(events))
      BY DEF RulesInv, OverWithOne, LogInv, CountOf, Count
    <3>2. IsFiniteSet(dead) /\ Cardinality(dead) = Cardinality(Eliminations(events))
      BY DeadAreEliminated
    <3>3. IsFiniteSet(players) /\ Cardinality(players) = Count
      BY <2>1, MaxPlayersAssumption, FS_Interval
    <3>4. /\ {n \in players : ~isPlayerDead[n]} = players \ dead
          /\ players \cap dead = dead
      OBVIOUS
    <3>5. Cardinality(players \ dead) = Cardinality(players) - Cardinality(dead)
      BY <3>3, <3>4, FS_Difference
    <3>6. Cardinality(dead) \in Nat
      BY <3>2, FS_CardinalityType
    <3>7. Cardinality(players \ dead) = 1
      BY <2>1, <3>1, <3>2, <3>3, <3>5, <3>6, MaxPlayersAssumption
    <3>8. QED
      BY <3>4, <3>7
  <2>3. QED
    BY <2>1, <2>2 DEF RulesAfterCleanStart, Fates, Count
<1>2. QED
  BY <1>1, RulesInvAlways, LogInvAlways, PTL

\* Two worms alive are in different slots and on different squares, for any
\* number of worms on a board of any size.
THEOREM WormsStayApart == Spec => []WormsApart
<1>1. LogInv /\ GameInv /\ RulesInv => WormsApart
  <2> SUFFICES ASSUME LogInv, GameInv, RulesInv, events # <<>>, CleanStart,
                      NEW m \in Num, NEW n \in Num,
                      m # n, gamePlayed, Moves(m), Moves(n),
                      pc # "start" \/ num = -1
               PROVE  LET s == playingPlayerDataIndex[m]
                          t == playingPlayerDataIndex[n]
                      IN  s # t /\ roundedPlayerWorm[s] # roundedPlayerWorm[t]
    BY DEF WormsApart
  <2>1. Count \in 2..MaxPlayers
    BY DEF RulesInv, Seated
  <2>2. m \in 0..(Count - 1) /\ n \in 0..(Count - 1)
    BY <2>1, MaxPlayersAssumption DEF RulesInv, Seated, Moves, Num
  <2>3. ~isPlayerDead[m] /\ ~isPlayerDead[n] /\ Placed(m) /\ Placed(n)
    BY DEF Moves, Placed, Placing
  <2>4. playingPlayerDataIndex[m] # playingPlayerDataIndex[n]
    BY <2>2 DEF RulesInv, Seated
  <2>5. QED
    BY <2>2, <2>3, <2>4 DEF RulesInv, Apart
<1>2. QED
  BY <1>1, RulesInvAlways, LogInvAlways, GameInvAlways, PTL
=============================================================================
