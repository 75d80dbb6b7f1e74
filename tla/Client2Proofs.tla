--------------------------- MODULE Client2Proofs ---------------------------
(***************************************************************************)
(* What client 2 shows, for any number and length of games, any size of    *)
(* datagrams and any network.                                              *)
(***************************************************************************)
EXTENDS Client2, DisseminationProofs

\* What is shown, as if one datagram had brought it.
Showing ==
    [game |-> game_id, from |-> 0, to |-> Len(screen) - 1, over |-> Ended(screen)]

\* No two things that the client was told or will be told disagree on the end
\* of a game: hence nothing follows a GAME_OVER that it has shown.
Client2Inv ==
    /\ NetInv
    /\ \A d, e \in toClient : Agree(d, e)
    /\ game_id \in 0..MaxGames
    /\ next_expected_event_no = Len(screen)
    /\ game_id = 0 <=> screen = <<>>
    /\ screen # <<>> =>
           /\ Len(screen) \in 1..MaxLog
           /\ IsLog(screen, game_id, Len(screen))
           /\ IsTrue(Showing)
           /\ \A d \in toClient : Agree(d, Showing) /\ Agree(Showing, d)

LEMMA NextIsNumber == Client2Inv => next_expected_event_no \in Number
BY BoundsAssumption DEF Client2Inv, Number

LEMMA LogIsBeginning ==
    ASSUME NEW s, NEW g, NEW n \in Nat \ {0}, IsLog(s, g, n)
    PROVE  /\ s # <<>>
           /\ Shown!Beginning(s, g)
           /\ Shown!Complete(s) <=> Ended(s)
<1>1. s \in Seq(EventRecord) /\ Len(s) = n
  BY DEF IsLog
<1>2. s # <<>>
  BY <1>1
<1>3. ASSUME NEW i \in 1..Len(s)
      PROVE  /\ s[i].game = g
             /\ s[i].no = i - 1
             /\ s[i].kind \in {"new_game", "body", "game_over"}
             /\ s[i].kind = "new_game" <=> i = 1
             /\ s[i].kind = "game_over" => i = Len(s)
  <2>1. s[i] \in EventRecord
    BY <1>1
  <2> QED BY <1>1, <2>1 DEF IsLog, EventRecord
<1>4. Shown!Beginning(s, g)
  BY <1>2, <1>3 DEF Shown!Beginning, Shown!Kind
<1> QED BY <1>2, <1>4 DEF Shown!Complete, Ended

\* A datagram that is used begins the showing of another game, or continues
\* one that has not come to its end.
LEMMA ReceiveSteps ==
    ASSUME Client2Inv, NEW d \in toClient, ReceiveFromGame(d)
    PROVE  Client2Inv' /\ Shown!Next
<1>1. IsTrue(d)
  BY DEF Client2Inv, NetInv
<1>2. /\ d.game \in 1..MaxGames /\ d.from \in Nat /\ d.to \in 0..(MaxLog - 1)
      /\ d.over \in BOOLEAN /\ d.from <= d.to
      /\ MaxGames \in Nat /\ MaxLog \in Nat
  BY <1>1, BoundsAssumption DEF IsTrue, Datagram, EventNo
<1>3. NetInv' /\ toClient' \subseteq toClient /\ UNCHANGED serverVars
  BY ClientKeepsNet DEF Client2Inv, ReceiveFromGame
<1>4. /\ game_id' = d.game
      /\ next_expected_event_no' = d.to + 1
      /\ IsExpected(d)
      /\ screen' = IF d.from = 0 THEN EventsOf(d) ELSE screen \o EventsOf(d)
  BY DEF ReceiveFromGame
<1>5. /\ IsLog(screen', d.game, d.to + 1)
      /\ Ended(screen') <=> d.over
      /\ Shown!Next
  <2>1. CASE d.game = game_id
    <3>1. screen # <<>> /\ d.from = Len(screen)
      BY <1>2, <1>4, <2>1 DEF Client2Inv, IsExpected
    <3>2. /\ Len(screen) \in 1..MaxLog /\ d.from # 0
          /\ IsLog(screen, d.game, d.from)
          /\ Agree(Showing, d)
      BY <2>1, <3>1 DEF Client2Inv
    <3>3. ~Ended(screen)
      <4>1. SUFFICES ASSUME Ended(screen) PROVE FALSE
        OBVIOUS
      <4>2. Showing.game = d.game /\ Showing.over /\ Showing.to = Len(screen) - 1
        BY <2>1, <4>1 DEF Showing
      <4>3. d.to <= Len(screen) - 1
        BY <3>2, <4>2 DEF Agree
      <4> QED BY <1>2, <3>1, <3>2, <4>3
    <3>4. /\ IsLog(screen', d.game, d.to + 1)
          /\ Ended(screen') <=> d.over
          /\ SubSeq(screen', 1, Len(screen)) = screen
      BY <1>1, <1>4, <3>2, <3>3, NextDatagram
    <3>5. ~Shown!Complete(screen)
      BY <1>2, <3>1, <3>2, <3>3, LogIsBeginning
    <3>6. Shown!Beginning(screen', d.game)
      BY <1>2, <3>4, LogIsBeginning
    <3>7. Len(screen') > Len(screen)
      BY <1>2, <3>1, <3>4 DEF IsLog
    <3>8. Shown!Continue
      BY <1>2, <3>1, <3>4, <3>5, <3>6, <3>7 DEF Shown!Continue
    <3> QED BY <3>4, <3>8 DEF Shown!Next
  <2>2. CASE d.game # game_id
    <3>1. d.from = 0 /\ screen' = EventsOf(d)
      BY <1>4, <2>2 DEF IsExpected
    <3>2. IsLog(EventsOf(d), d.game, d.to + 1) /\ (Ended(EventsOf(d)) <=> d.over)
      BY <1>1, <3>1, FirstDatagram
    <3>3. IsLog(screen', d.game, d.to + 1) /\ (Ended(screen') <=> d.over)
      BY <3>1, <3>2
    <3>4. Shown!Beginning(screen', d.game)
      BY <1>2, <3>3, LogIsBeginning
    <3>5. screen # <<>> => screen[1].game # d.game
      BY <2>2 DEF Client2Inv, IsLog
    <3>6. Shown!Begin
      BY <1>2, <3>4, <3>5 DEF Shown!Begin
    <3> QED BY <3>3, <3>6 DEF Shown!Next
  <2> QED BY <2>1, <2>2
<1>6. Len(screen') = d.to + 1 /\ screen' # <<>>
  BY <1>2, <1>5, LogIsBeginning DEF IsLog
<1>7. /\ Showing'.game = d.game /\ Showing'.from = 0 /\ Showing'.to = d.to
      /\ Showing'.over <=> d.over
      /\ Showing'.over \in BOOLEAN
      /\ Showing' \in Datagram
  <2>1. Showing' = [game |-> game_id', from |-> 0, to |-> Len(screen') - 1,
                    over |-> Ended(screen')]
    BY DEF Showing, Ended
  <2>2. Ended(screen') \in BOOLEAN
    BY DEF Ended
  <2>3. Len(screen') - 1 = d.to /\ 0 \in EventNo /\ d.to \in EventNo
    BY <1>2, <1>6 DEF EventNo
  <2> HIDE DEF Showing
  <2>4. Showing' \in Datagram
    BY <1>2, <1>4, <2>1, <2>2, <2>3 DEF Datagram
  <2>5. Showing'.game = d.game /\ Showing'.from = 0 /\ Showing'.to = d.to
    BY <1>4, <2>1, <2>3
  <2>6. Showing'.over = Ended(screen')
    BY <2>1
  <2> QED BY <1>5, <2>2, <2>4, <2>5, <2>6
<1>8. IsTrue(Showing)'
  <2>1. UNCHANGED <<game, count, gamePlayed>>
    BY <1>3 DEF serverVars
  <2> QED BY <1>1, <1>2, <1>7, <2>1 DEF IsTrue
<1>9. \A e \in toClient' : Agree(e, Showing') /\ Agree(Showing', e)
  <2>1. ASSUME NEW e \in toClient' PROVE Agree(e, d) /\ Agree(d, e)
    BY <1>3 DEF Client2Inv
  <2> QED BY <1>7, <2>1 DEF Agree
<1>10. Client2Inv'
  <2>1. \A e, f \in toClient' : Agree(e, f)
    BY <1>3 DEF Client2Inv
  <2>2. (\A e, f \in toClient : Agree(e, f))'
    BY <2>1 DEF Agree
  <2>3. (\A e \in toClient : Agree(e, Showing) /\ Agree(Showing, e))'
    BY <1>9 DEF Agree
  <2>4. IsLog(screen, game_id, Len(screen))'
    BY <1>4, <1>5, <1>6 DEF IsLog
  <2>5. /\ game_id' \in 1..MaxGames /\ Len(screen') \in 1..MaxLog
        /\ next_expected_event_no' = Len(screen')
    BY <1>2, <1>4, <1>6
  <2> QED BY <1>3, <1>6, <1>8, <2>2, <2>3, <2>4, <2>5 DEF Client2Inv
<1> QED BY <1>5, <1>10

LEMMA InitClient2 == Init => Client2Inv /\ Shown!Init
<1> SUFFICES ASSUME Init PROVE Client2Inv /\ Shown!Init
  OBVIOUS
<1>1. NetInv
  BY InitNet DEF Init
<1>2. game_id = 0 /\ next_expected_event_no = 0 /\ screen = <<>> /\ toClient = {}
  BY DEF Init, DisInit
<1>3. 0 \in 0..MaxGames
  BY BoundsAssumption
<1> QED BY <1>1, <1>2, <1>3 DEF Client2Inv, Shown!Init

LEMMA NextClient2 ==
    ASSUME Client2Inv, [Next]_vars
    PROVE  Client2Inv' /\ [Shown!Next]_screen
<1>1. ASSUME UNCHANGED clientVars, NetInv',
             toClient' \subseteq toClient, UNCHANGED serverVars
      PROVE  Client2Inv' /\ UNCHANGED screen
  <2>1. UNCHANGED Showing /\ UNCHANGED <<game, gamePlayed, count>>
    BY <1>1 DEF Showing, Ended, clientVars, serverVars
  <2> QED BY <1>1, <2>1 DEF Client2Inv, clientVars, IsLog, IsTrue, Agree
<1>2. CASE ServerNext /\ UNCHANGED clientVars
  <2>1. NetInv' /\ \A d, e \in toClient' : Agree(d, e)
    BY <1>2, ServerKeepsNet, AllAgreeStays DEF Client2Inv
  <2>2. UNCHANGED <<game_id, next_expected_event_no, screen>> /\ Showing' = Showing
    BY <1>2 DEF clientVars, Showing, Ended
  <2>3. ASSUME screen # <<>>
        PROVE  IsTrue(Showing)' /\ \A d \in toClient' : Agree(d, Showing) /\ Agree(Showing, d)
    <3> DEFINE s == Showing
    <3>1. IsTrue(s) /\ \A d \in toClient : Agree(d, s) /\ Agree(s, d)
      BY <2>3 DEF Client2Inv
    <3> QED BY <1>2, <2>2, <3>1, AgreementStays DEF Client2Inv, IsTrue
  <2> QED BY <2>1, <2>2, <2>3 DEF Client2Inv, IsLog, Agree
<1>3. CASE SendToGame
  BY <1>1, <1>3, ClientKeepsNet, NextIsNumber DEF SendToGame, Client2Inv
<1>4. ASSUME NEW d \in toClient, ReceiveFromGame(d)
      PROVE  Client2Inv' /\ [Shown!Next]_screen
  BY <1>4, ReceiveSteps
<1>5. ASSUME NEW d \in toClient, Reject(d)
      PROVE  Client2Inv' /\ [Shown!Next]_screen
  BY <1>1, <1>5, ClientKeepsNet DEF Client2Inv, Reject
<1>6. CASE UNCHANGED vars
  <2>1. NetInv' /\ UNCHANGED serverVars /\ UNCHANGED clientVars /\ toClient' = toClient
    BY <1>6 DEF vars, netVars, serverVars, Client2Inv, NetInv, ServerOK, IsTrue
  <2> QED BY <1>1, <2>1
<1> QED BY <1>2, <1>3, <1>4, <1>5, <1>6 DEF Next, ClientNext

LEMMA Client2InvAlways == Spec => []Client2Inv
BY InitClient2, NextClient2, PTL DEF Spec

-----------------------------------------------------------------------------

\* Every variable of the network and of client 2 keeps its type.
THEOREM Client2TypeCorrect == Spec => []TypeOK
<1>1. Client2Inv => TypeOK
  <2> SUFFICES ASSUME Client2Inv PROVE TypeOK
    OBVIOUS
  <2>1. DisTypeOK
    BY DEF Client2Inv, NetInv, ServerOK, IsTrue, DisTypeOK, Number
  <2> QED BY <2>1, NextIsNumber DEF TypeOK, Client2Inv
<1> QED BY <1>1, Client2InvAlways, PTL

\* The GUI of client 2 gets beginnings of games, without gaps or repetitions,
\* nothing after GAME_OVER, and no game twice running.
THEOREM Client2ShowsBeginnings == Spec => ShowsBeginnings
<1>1. Spec => Shown!Init /\ [][Shown!Next]_screen
  BY InitClient2, NextClient2, Client2InvAlways, PTL DEF Spec
<1> QED BY <1>1 DEF ShowsBeginnings, Shown!Spec
=============================================================================
