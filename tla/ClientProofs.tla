---------------------------- MODULE ClientProofs ----------------------------
(***************************************************************************)
(* What client 1 shows, for any number and length of games, any size of    *)
(* datagrams and any network.                                              *)
(*                                                                         *)
(* A number may be read as another one, so the events on the screen need   *)
(* not be those of their places in the log.  But the number read in each   *)
(* is its place, and numbers are only ever read as smaller ones: hence the *)
(* screen never gets longer than the log, event 0 is known for what it is, *)
(* and where no event was taken for another one the screen is the log.     *)
(***************************************************************************)
EXTENDS Client, DisseminationProofs

\* Each event on the screen was read as the one that comes next there.
ReadInOrder(s) ==
    \A i \in 1..Len(s) : s[i].no \in EventNo /\ ReadAs[s[i].no] = i - 1

\* The screen is the beginning of a log, all of it between games, unless an
\* event was mistaken; and the client waits for the event after it, or for
\* event 0 between games.
ClientInv ==
    /\ NetInv
    /\ following \in BOOLEAN
    /\ gameId \in 0..MaxGames
    /\ nextExpectedEventNo = IF following THEN Len(screen) ELSE 0
    /\ screen \in Seq(EventRecord)
    /\ following => screen # <<>>
    /\ screen # <<>> =>
           /\ gameId \in 1..MaxGames
           /\ Len(screen) \in 1..MaxLog
           /\ Ended(screen) <=> ~following
           /\ ReadInOrder(screen)
           /\ ~HasMistake(screen) => IsLog(screen, gameId, Len(screen))

LEMMA NextIsNumber == ClientInv => nextExpectedEventNo \in Number
BY BoundsAssumption DEF ClientInv, Number

LEMMA LogIsBeginning ==
    ASSUME NEW s, NEW g, NEW n \in Nat \ {0}, IsLog(s, g, n)
    PROVE  /\ s # <<>>
           /\ Shown!Beginning(s, g)
           /\ Shown!Complete(s) <=> Ended(s)
<1>1. s \in Seq(EventRecord) /\ Len(s) = n
  BY DEF IsLog
<1>2. s # <<>>
  BY <1>1
<1>3. ASSUME NEW i \in 1..Len(s)
      PROVE  /\ s[i].game = g
             /\ s[i].no = i - 1
             /\ s[i].kind \in {"new_game", "body", "game_over"}
             /\ s[i].kind = "new_game" <=> i = 1
             /\ s[i].kind = "game_over" => i = Len(s)
  <2>1. s[i] \in EventRecord
    BY <1>1
  <2> QED BY <1>1, <2>1 DEF IsLog, EventRecord
<1>4. Shown!Beginning(s, g)
  BY <1>2, <1>3 DEF Shown!Beginning, Shown!Kind
<1> QED BY <1>2, <1>4 DEF Shown!Complete, Ended

\* Numbers read as less than MaxLog were at least that.
LEMMA ReadIsBelow ==
    ASSUME NEW n \in Number, ReadAs[n] \in Number
    PROVE  ReadAs[n] <= n
<1>1. ReadAs[n] <= MaxLog /\ MaxLog \in Nat /\ 2 * MaxLog < Words /\ Words \in Nat
  BY BoundsAssumption, BaseAssumption DEF Number, Words
<1> QED BY <1>1, NumbersRead

\* The events taken are the first ones of the datagram, read as those that come
\* next; without the others it is a datagram that the server might have sent.
LEMMA TakenFacts ==
    ASSUME NEW d, IsTrue(d), IsExpected(d), nextExpectedEventNo \in Number,
           ServerOK
    PROVE  /\ IsTrue(TakenPart(d))
           /\ TakenPart(d).game = d.game
           /\ TakenPart(d).from = d.from
           /\ nextExpectedEventNo <= d.from
           /\ \A j \in d.from..TakenPart(d).to :
                  ReadAs[j] = nextExpectedEventNo + j - d.from
<1> DEFINE m == Max(Taken(d))
           part == TakenPart(d)
<1>1. /\ d \in Datagram
      /\ d.from \in EventNo /\ d.to \in EventNo /\ d.from <= d.to
      /\ d.from \in Nat /\ d.to \in Nat /\ d.over \in BOOLEAN /\ d.game \in 1..MaxGames
      /\ EventNo \subseteq Number
  BY BoundsAssumption DEF IsTrue, Datagram, EventNo, Number
<1>2. ReadAs[d.from] = nextExpectedEventNo
  BY DEF IsExpected
<1>3. nextExpectedEventNo <= d.from /\ nextExpectedEventNo \in Nat
  <2>1. ReadAs[d.from] <= d.from
    BY <1>1, <1>2, ReadIsBelow
  <2> QED BY <1>2, <2>1, BoundsAssumption DEF Number
<1>4. m \in Taken(d)
  <2>1. Taken(d) \subseteq d.from..d.to
    BY DEF Taken
  <2>2. Taken(d) \in SUBSET (0..d.to)
    BY <1>1, <2>1
  <2>3. d.from \in d.from..d.to /\ \A j \in d.from..d.from : j = d.from
    BY <1>1
  <2>4. nextExpectedEventNo + d.from - d.from = nextExpectedEventNo
    BY <1>1, <1>3
  <2>5. d.from \in Taken(d)
    BY <1>2, <2>3, <2>4 DEF Taken
  <2> QED BY <1>1, <2>2, <2>5, MaxOfNats
<1>5. m \in d.from..d.to /\ \A j \in d.from..m : ReadAs[j] = nextExpectedEventNo + j - d.from
  BY <1>4 DEF Taken
<1> HIDE DEF m
<1>6. /\ part.game = d.game /\ part.from = d.from /\ part.to = m
      /\ part.over <=> d.over /\ d.to \in Taken(d)
      /\ part \in Datagram
  <2>1. m \in EventNo
    BY <1>1, <1>5, BoundsAssumption DEF EventNo
  <2>2. part = [d EXCEPT !.to = m, !.over = @ /\ d.to \in Taken(d)]
    BY DEF TakenPart, m
  <2>3. (d.over /\ d.to \in Taken(d)) \in BOOLEAN
    BY Zenon
  <2> HIDE DEF part
  <2>4. part = [game |-> d.game, from |-> d.from, to |-> m,
                over |-> d.over /\ d.to \in Taken(d)]
    BY <1>1, <2>2 DEF Datagram
  <2> QED BY <1>1, <2>1, <2>3, <2>4 DEF Datagram
<1>7. d.to \in Taken(d) => m = d.to
  <2>1. Taken(d) \in SUBSET (0..d.to)
    BY <1>1 DEF Taken
  <2>2. d.to \in Taken(d) => d.to <= m
    BY <1>1, <2>1, MaxOfNats DEF m
  <2> QED BY <1>1, <1>5, <2>2
<1>8. m = d.to => d.to \in Taken(d)
  BY <1>4
<1> HIDE DEF part
<1>9. IsTrue(part)
  <2>1. count \in Nat /\ gamePlayed \in BOOLEAN
    BY DEF ServerOK
  <2>2. /\ d.over => d.to >= 1
        /\ d.game <= game
        /\ d.game = game => /\ d.to < count
                            /\ d.over <=> ~gamePlayed /\ d.to = count - 1
    BY DEF IsTrue
  <2>3. part.over => part.to = d.to
    BY <1>6, <1>7
  <2>4. d.game = game => (part.over <=> ~gamePlayed /\ part.to = count - 1)
    BY <1>1, <1>5, <1>6, <1>7, <1>8, <2>1, <2>2
  <2> QED BY <1>1, <1>5, <1>6, <2>1, <2>2, <2>3, <2>4 DEF IsTrue
<1> QED BY <1>3, <1>5, <1>6, <1>9 DEF part

\* What follows the screen, if each of its events was read as the next one.
LEMMA ContinuedFacts ==
    ASSUME NEW s \in Seq(EventRecord), s # <<>>, ReadInOrder(s),
           NEW p, IsTrue(p),
           \A j \in p.from..p.to : ReadAs[j] = Len(s) + j - p.from
    PROVE  /\ s \o EventsOf(p) \in Seq(EventRecord)
           /\ Len(s \o EventsOf(p)) = Len(s) + p.to - p.from + 1
           /\ p.from # 0 => (Ended(s \o EventsOf(p)) <=> p.over)
           /\ ReadInOrder(s \o EventsOf(p))
           /\ HasMistake(s) \/ p.from # Len(s) => HasMistake(s \o EventsOf(p))
<1> DEFINE t == EventsOf(p)
           u == s \o t
           k == p.to - p.from + 1
<1>1. /\ p.from \in Nat /\ p.to \in Nat /\ p.over \in BOOLEAN /\ p.from <= p.to
      /\ p.to <= MaxLog - 1 /\ MaxLog \in Nat
  BY BoundsAssumption DEF IsTrue, Datagram, EventNo
<1>2. /\ t \in Seq(EventRecord)
      /\ Len(t) = k
      /\ \A i \in 1..k :
             /\ t[i].no = p.from + i - 1
             /\ t[i].kind = "game_over" <=> p.over /\ p.from + i - 1 = p.to
  BY EventsOfDatagram
<1>3. Len(s) \in Nat /\ k \in Nat \ {0}
  BY <1>1
<1> HIDE DEF t, k
<1>4. /\ u \in Seq(EventRecord) /\ Len(u) = Len(s) + k
      /\ \A i \in 1..Len(s) : u[i] = s[i]
      /\ \A i \in 1..k : u[Len(s) + i] = t[i]
  <2>1. t \in Seq(EventRecord)
    BY <1>2
  <2>2. u \in Seq(EventRecord) /\ Len(u) = Len(s) + Len(t)
    BY <2>1, ConcatProperties
  <2>3. /\ \A i \in 1..Len(s) : u[i] = s[i]
        /\ \A i \in 1..Len(t) : u[Len(s) + i] = t[i]
    BY <2>1
  <2> QED BY <1>2, <2>1, <2>2, <2>3
<1> HIDE DEF u
<1>5. Ended(u) <=> p.over
  <2>1. k \in 1..k
    BY <1>3
  <2>2. p.from + k - 1 = p.to
    BY <1>1 DEF k
  <2>3. u[Len(u)] = t[k]
    BY <1>4, <2>1
  <2> QED BY <1>2, <2>1, <2>2, <2>3 DEF Ended
<1>6. ASSUME NEW i \in 1..Len(u)
      PROVE  u[i].no \in EventNo /\ ReadAs[u[i].no] = i - 1
  <2>1. CASE i \in 1..Len(s)
    BY <1>4, <2>1 DEF ReadInOrder
  <2>2. CASE i \notin 1..Len(s)
    <3> DEFINE j == i - Len(s)
    <3>1. j \in 1..k /\ i = Len(s) + j
      BY <1>3, <1>4, <2>2
    <3>2. u[i].no = p.from + j - 1
      BY <1>2, <1>4, <3>1
    <3>3. p.from + j - 1 \in p.from..p.to /\ p.from + j - 1 \in EventNo
      BY <1>1, <3>1 DEF k, EventNo
    <3>4. Len(s) + (p.from + j - 1) - p.from = i - 1
      BY <1>1, <1>3, <3>1
    <3> QED BY <3>2, <3>3, <3>4
  <2> QED BY <2>1, <2>2
<1>7. ASSUME HasMistake(s) PROVE HasMistake(u)
  <2>1. PICK i \in DOMAIN s : ReadAs[s[i].no] # s[i].no
    BY <1>7 DEF HasMistake
  <2>2. i \in 1..Len(s)
    OBVIOUS
  <2>3. i \in DOMAIN u /\ u[i] = s[i]
    BY <1>3, <1>4, <2>2
  <2> QED BY <2>1, <2>3 DEF HasMistake
<1>8. ASSUME p.from # Len(s) PROVE HasMistake(u)
  <2>1. 1 \in 1..k /\ Len(s) + 1 \in 1..Len(u)
    BY <1>3, <1>4
  <2>2. u[Len(s) + 1].no = p.from
    BY <1>1, <1>2, <1>4, <2>1
  <2>3. ReadAs[p.from] = Len(s)
    BY <1>1, <1>3
  <2>4. Len(s) + 1 \in DOMAIN u
    BY <1>4, <2>1
  <2> QED BY <1>8, <2>2, <2>3, <2>4 DEF HasMistake
<1>9. ReadInOrder(u)
  BY <1>6 DEF ReadInOrder
<1>10. Len(u) = Len(s) + p.to - p.from + 1
  BY <1>1, <1>3, <1>4 DEF k
<1> QED BY <1>4, <1>5, <1>7, <1>8, <1>9, <1>10 DEF u, t

\* A log is read in order if event 0 was read as itself and the others after it.
LEMMA FirstIsRead ==
    ASSUME NEW p, IsTrue(p), p.from = 0,
           \A j \in p.from..p.to : ReadAs[j] = j - p.from
    PROVE  /\ ReadInOrder(EventsOf(p))
           /\ ~HasMistake(EventsOf(p))
<1>1. p.to \in Nat /\ p.to <= MaxLog - 1 /\ MaxLog \in Nat
  BY BoundsAssumption DEF IsTrue, Datagram, EventNo
<1> DEFINE s == EventsOf(p)
<1>2. s \in Seq(EventRecord) /\ Len(s) = p.to + 1
      /\ \A i \in 1..(p.to + 1) : s[i].no = i - 1
  BY FirstDatagram DEF IsLog
<1> HIDE DEF s
<1>3. ASSUME NEW i \in 1..Len(s)
      PROVE  s[i].no \in EventNo /\ s[i].no = i - 1 /\ ReadAs[s[i].no] = i - 1
  <2>1. s[i].no = i - 1 /\ i - 1 \in 0..p.to /\ (i - 1) - 0 = i - 1
    BY <1>1, <1>2
  <2> QED BY <1>1, <2>1 DEF EventNo
<1>4. DOMAIN s = 1..Len(s)
  BY <1>2
<1>5. ReadInOrder(s) /\ ~HasMistake(s)
  BY <1>3, <1>4 DEF ReadInOrder, HasMistake
<1> QED BY <1>5 DEF s

\* A datagram that is used begins a showing, when there was none or it had
\* come to its end, or continues one; unless some event is mistaken.
LEMMA DecodeSteps ==
    ASSUME ClientInv, NEW d \in toClient, DecodeMessageFromGameServer(d)
    PROVE  ClientInv' /\ (Shown!Next \/ HasMistake(screen'))
<1> DEFINE p == TakenPart(d)
<1>1. IsTrue(d) /\ ServerOK
  BY DEF ClientInv, NetInv
<1>2. NetInv'
  BY ClientKeepsNet DEF ClientInv, DecodeMessageFromGameServer
<1>3. /\ gameId' = d.game
      /\ IsExpected(d)
      /\ following' = ~p.over
      /\ nextExpectedEventNo' =
            IF p.over THEN 0 ELSE nextExpectedEventNo + p.to - p.from + 1
      /\ Forward(p)
  BY Zenon DEF DecodeMessageFromGameServer
<1>4. /\ IsTrue(p) /\ p.game = d.game /\ p.from = d.from
      /\ nextExpectedEventNo <= p.from
      /\ \A j \in p.from..p.to : ReadAs[j] = nextExpectedEventNo + j - p.from
  BY <1>1, <1>3, NextIsNumber, TakenFacts
<1> HIDE DEF p
<1>5. /\ p.game \in 1..MaxGames /\ p.from \in Nat /\ p.to \in 0..(MaxLog - 1)
      /\ p.over \in BOOLEAN /\ p.from <= p.to
      /\ MaxGames \in Nat /\ MaxLog \in Nat
  BY <1>4, BoundsAssumption DEF IsTrue, Datagram, EventNo
<1>6. following' \in BOOLEAN /\ (following' <=> ~p.over)
  BY <1>3, <1>5
<1>7. CASE p.from = 0
  <2>1. screen' = EventsOf(p)
    BY <1>3, <1>7 DEF Forward
  <2>2. /\ IsLog(EventsOf(p), p.game, p.to + 1)
        /\ Ended(EventsOf(p)) <=> p.over
    BY <1>4, <1>7, FirstDatagram
  <2>3. ~following /\ nextExpectedEventNo = 0
    BY <1>4, <1>7 DEF ClientInv
  <2>4. ReadInOrder(EventsOf(p))
    <3>1. \A j \in p.from..p.to : nextExpectedEventNo + j - p.from = j - p.from
      BY <1>5, <2>3
    <3> QED BY <1>4, <1>7, <3>1, FirstIsRead
  <2>5. /\ screen' \in Seq(EventRecord) /\ Len(screen') = p.to + 1
        /\ screen' # <<>>
        /\ Ended(screen') <=> p.over
        /\ ReadInOrder(screen')
        /\ IsLog(screen', p.game, Len(screen'))
    BY <1>5, <2>1, <2>2, <2>4 DEF IsLog
  <2>6. ClientInv'
    BY <1>2, <1>3, <1>4, <1>5, <1>6, <1>7, <2>3, <2>5
       DEF ClientInv, Ended, ReadInOrder, HasMistake, IsLog
  <2>7. screen = <<>> \/ Shown!Complete(screen)
    BY <2>3 DEF ClientInv, Ended, Shown!Complete
  <2>8. Shown!Beginning(screen', p.game)
    BY <1>5, <2>5, LogIsBeginning
  <2>9. Shown!Begin
    BY <1>5, <2>7, <2>8 DEF Shown!Begin
  <2> QED BY <2>6, <2>9 DEF Shown!Next
<1>8. CASE p.from # 0
  <2>1. ReadAs[p.from] = nextExpectedEventNo
    BY <1>3, <1>4 DEF IsExpected
  <2>2. following /\ p.game = gameId /\ nextExpectedEventNo = Len(screen)
    <3>1. p.from \in Number
      BY <1>5 DEF Number
    <3>2. nextExpectedEventNo # 0
      BY <1>8, <2>1, <3>1, NumbersRead
    <3> QED BY <1>3, <1>4, <3>2 DEF ClientInv, IsExpected
  <2>3. /\ screen # <<>> /\ screen \in Seq(EventRecord) /\ Len(screen) \in 1..MaxLog
        /\ ReadInOrder(screen) /\ ~Ended(screen)
        /\ ~HasMistake(screen) => IsLog(screen, p.game, Len(screen))
    BY <2>2 DEF ClientInv
  <2>4. screen' = screen \o EventsOf(p)
    BY <1>3, <1>8 DEF Forward
  <2>5. /\ screen' \in Seq(EventRecord)
        /\ Len(screen') = Len(screen) + p.to - p.from + 1
        /\ Ended(screen') <=> p.over
        /\ ReadInOrder(screen')
        /\ HasMistake(screen) \/ p.from # Len(screen) => HasMistake(screen')
    BY <1>4, <1>8, <2>2, <2>3, <2>4, ContinuedFacts
  <2>6. Len(screen') \in 1..MaxLog /\ Len(screen') > Len(screen) /\ screen' # <<>>
    BY <1>4, <1>5, <2>2, <2>3, <2>5
  <2>7. ASSUME ~HasMistake(screen')
        PROVE  IsLog(screen', p.game, Len(screen')) /\ Shown!Next
    <3>1. IsLog(screen, p.game, p.from) /\ p.from = Len(screen)
      BY <2>3, <2>5, <2>7
    <3>2. /\ IsLog(screen', p.game, p.to + 1)
          /\ SubSeq(screen', 1, Len(screen)) = screen
      BY <1>4, <1>8, <2>3, <2>4, <3>1, NextDatagram
    <3>3. Len(screen') = p.to + 1
      BY <3>2 DEF IsLog
    <3>4. ~Shown!Complete(screen)
      BY <2>3 DEF Shown!Complete, Ended
    <3>5. Shown!Beginning(screen', p.game)
      BY <1>5, <3>2, LogIsBeginning
    <3>6. Shown!Continue
      BY <1>5, <2>3, <2>6, <3>2, <3>4, <3>5 DEF Shown!Continue
    <3> QED BY <3>2, <3>3, <3>6 DEF Shown!Next
  <2>8. ClientInv'
    <3>1. nextExpectedEventNo' = IF following' THEN Len(screen') ELSE 0
      BY <1>3, <1>6, <2>2, <2>5
    <3>2. gameId' \in 1..MaxGames
      BY <1>3, <1>4, <1>5
    <3> QED BY <1>2, <1>3, <1>4, <1>6, <2>5, <2>6, <2>7, <3>1, <3>2
            DEF ClientInv, Ended, ReadInOrder, HasMistake, IsLog
  <2> QED BY <2>7, <2>8
<1> QED BY <1>7, <1>8

LEMMA InitClient == Init => ClientInv /\ Shown!Init
<1> SUFFICES ASSUME Init PROVE ClientInv /\ Shown!Init
  OBVIOUS
<1>1. NetInv
  BY InitNet DEF Init
<1>2. following \in BOOLEAN /\ ~following
  BY DEF Init
<1>3. gameId = 0 /\ nextExpectedEventNo = 0 /\ screen = <<>>
  BY DEF Init
<1>4. 0 \in 0..MaxGames
  BY BoundsAssumption
<1> QED BY <1>1, <1>2, <1>3, <1>4 DEF ClientInv, Shown!Init

LEMMA NextClient ==
    ASSUME ClientInv, [Next]_vars
    PROVE  /\ ClientInv'
           /\ [Shown!Next \/ HasMistake(screen')]_screen
           /\ [Log!Next]_(Log!logVars)
<1>1. ASSUME UNCHANGED clientVars, NetInv' PROVE ClientInv' /\ UNCHANGED screen
  BY <1>1 DEF ClientInv, clientVars, IsLog, Ended, ReadInOrder, HasMistake
<1>2. ASSUME UNCHANGED serverVars PROVE UNCHANGED Log!logVars
  BY <1>2 DEF serverVars, Log!logVars
<1>3. CASE ServerNext /\ UNCHANGED clientVars
  BY <1>1, <1>3, ServerKeepsNet, LogStep DEF ClientInv, NetInv
<1>4. CASE CheckSendMessageToGameServer
  BY <1>1, <1>2, <1>4, ClientKeepsNet, NextIsNumber
     DEF CheckSendMessageToGameServer, ClientInv
<1>5. ASSUME NEW d \in toClient, DecodeMessageFromGameServer(d)
      PROVE  /\ ClientInv'
             /\ [Shown!Next \/ HasMistake(screen')]_screen
             /\ [Log!Next]_(Log!logVars)
  BY <1>2, <1>5, DecodeSteps, ClientKeepsNet
     DEF ClientInv, DecodeMessageFromGameServer
<1>6. ASSUME NEW d \in toClient, Ignore(d)
      PROVE  /\ ClientInv'
             /\ [Shown!Next \/ HasMistake(screen')]_screen
             /\ [Log!Next]_(Log!logVars)
  BY <1>1, <1>2, <1>6, ClientKeepsNet DEF ClientInv, Ignore
<1>7. CASE UNCHANGED vars
  BY <1>1, <1>2, <1>7 DEF vars, netVars, serverVars, ClientInv, NetInv, ServerOK, IsTrue
<1> QED BY <1>3, <1>4, <1>5, <1>6, <1>7 DEF Next, ClientNext

LEMMA ClientInvAlways == Spec => []ClientInv
BY InitClient, NextClient, PTL DEF Spec

-----------------------------------------------------------------------------

\* Every variable of the network and of client 1 keeps its type.
THEOREM ClientTypeCorrect == Spec => []TypeOK
<1>1. ClientInv => TypeOK
  <2> SUFFICES ASSUME ClientInv PROVE TypeOK
    OBVIOUS
  <2>1. DisTypeOK
    BY DEF ClientInv, NetInv, ServerOK, IsTrue, DisTypeOK, Number
  <2> QED BY <2>1, NextIsNumber DEF TypeOK, ClientInv
<1> QED BY <1>1, ClientInvAlways, PTL

\* The GUI of client 1 gets the games from their beginning to their end, one
\* after the other; what it is shown of a game has a gap only if one event of it
\* was taken for another one.
THEOREM ClientShowsWholeGames == Spec => ShowsWholeGames
<1>1. Spec => Shown!Init /\ [][Shown!Next \/ HasMistake(screen')]_screen
  BY InitClient, NextClient, ClientInvAlways, PTL DEF Spec
<1> QED BY <1>1 DEF ShowsWholeGames

\* In games of up to 384 events (one and a half times the values of a byte) no
\* event is taken for another one.
LEMMA ShortAreNotMistaken ==
    ASSUME MaxLog <= Base + Base \div 2,
           NEW s \in Seq(EventRecord), Len(s) <= MaxLog, ReadInOrder(s)
    PROVE  ~HasMistake(s)
<1> SUFFICES ASSUME HasMistake(s) PROVE FALSE
  OBVIOUS
<1>1. PICK i \in DOMAIN s : ReadAs[s[i].no] # s[i].no
  BY DEF HasMistake
<1>2. i \in 1..Len(s) /\ Len(s) \in Nat
  OBVIOUS
<1> DEFINE n == s[i].no
<1>3. n \in EventNo /\ ReadAs[n] = i - 1
  BY <1>2 DEF ReadInOrder
<1> HIDE DEF n
<1>4. /\ n \in Nat /\ n < Base + Base \div 2 /\ n \in Number
      /\ MaxLog \in Nat /\ 2 * MaxLog < Words /\ Words \in Nat
  <2>1. Base + Base \div 2 \in Nat /\ Words \in Nat
    BY BaseAssumption DEF Words
  <2> QED BY <1>3, <2>1, BoundsAssumption DEF EventNo, Number
<1>5. ReadAs[n] = n
  <2>1. ~(2 * ReadAs[n] >= Words)
    BY <1>2, <1>3, <1>4
  <2> QED BY <1>4, <2>1, SmallAreNotMistaken, NumbersRead
<1> QED BY <1>1, <1>5 DEF n

\* So such games are shown whole without exception.
THEOREM ShortGamesAreShownWhole ==
    ASSUME MaxLog <= Base + Base \div 2
    PROVE  Spec => Shown!Spec
<1>1. ASSUME ClientInv, [Next]_vars PROVE [Shown!Next]_screen
  <2>1. ClientInv' /\ [Shown!Next \/ HasMistake(screen')]_screen
    BY <1>1, NextClient
  <2>2. CASE screen' # <<>>
    <3>1. /\ screen' \in Seq(EventRecord) /\ Len(screen') <= MaxLog
          /\ ReadInOrder(screen')
      BY <2>1, <2>2, BoundsAssumption DEF ClientInv, ReadInOrder
    <3> QED BY <2>1, <3>1, ShortAreNotMistaken
  <2>3. CASE screen' = <<>>
    BY <2>1, <2>3 DEF HasMistake
  <2> QED BY <2>2, <2>3
<1>2. Spec => Shown!Init /\ [][Shown!Next]_screen
  BY <1>1, InitClient, ClientInvAlways, PTL DEF Spec
<1> QED BY <1>2 DEF Shown!Spec

\* The server whose log this is keeps the contract of EventLog.
THEOREM ClientKeepsLogContract == Spec => LogContract
<1>1. Init => Log!Init
  BY LogInit DEF Init
<1>2. Spec => Log!Init /\ [][Log!Next]_(Log!logVars)
  BY <1>1, NextClient, ClientInvAlways, PTL DEF Spec
<1> QED BY <1>2 DEF LogContract, Log!Spec
=============================================================================
