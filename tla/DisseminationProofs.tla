------------------------ MODULE DisseminationProofs ------------------------
(***************************************************************************)
(* What the network may carry, whatever it loses, repeats or delays, for   *)
(* any number of games, any length of the logs and any size of datagrams.  *)
(* The proofs about both clients rest on it.                               *)
(***************************************************************************)
EXTENDS Dissemination, NumbersProofs, SequenceTheorems, TLAPS

\* The server's side.
ServerOK ==
    /\ game \in 0..MaxGames
    /\ gamePlayed \in BOOLEAN
    /\ count \in 0..MaxLog
    /\ isConnected \in BOOLEAN
    /\ toServer \subseteq Number
    /\ count > 0 => game > 0
    /\ gamePlayed => count \in 1..(MaxLog - 1)
    /\ ~gamePlayed => count # 1

\* A datagram says of the game that is played nothing but what is in its log.
IsTrue(d) ==
    /\ d \in Datagram
    /\ d.from <= d.to
    /\ d.over => d.to >= 1
    /\ d.game <= game
    /\ d.game = game => /\ d.to < count
                        /\ d.over <=> ~gamePlayed /\ d.to = count - 1

\* Two datagrams of a game do not contradict each other on its end.
Agree(d, e) ==
    d.game = e.game /\ d.over => e.to <= d.to /\ (e.over <=> e.to = d.to)

NetInv ==
    /\ ServerOK
    /\ \A d \in toClient : IsTrue(d)

-----------------------------------------------------------------------------
(* The server's steps *)

LEMMA MinOfTwo ==
    ASSUME NEW a \in Nat, NEW b \in Nat
    PROVE  Min({a, b}) = IF a <= b THEN a ELSE b
<1>1. CASE a <= b
  <2>1. \A x \in {a, b} : (\A y \in {a, b} : x <= y) => x = a
    BY <1>1
  <2> QED BY <1>1, <2>1 DEF Min
<1>2. CASE ~(a <= b)
  <2>1. \A x \in {a, b} : (\A y \in {a, b} : x <= y) => x = b
    BY <1>2
  <2> QED BY <1>2, <2>1 DEF Min
<1> QED BY <1>1, <1>2

\* A number read is less than the number sent, or too large for any log, and
\* none but 0 is read as 0.
LEMMA NumbersRead ==
    ASSUME NEW n \in Number
    PROVE  /\ ReadAs[n] = AsRead(n)
           /\ ReadAs[n] \in Nat
           /\ ReadAs[n] <= n \/ 2 * ReadAs[n] >= Words
           /\ ReadAs[n] = 0 <=> n = 0
<1>0. /\ n \in Nat /\ n <= MaxLog /\ MaxLog \in Nat /\ 2 * MaxLog < Words
      /\ Words \in Nat
  BY BoundsAssumption, BaseAssumption DEF Number, Words
<1>1. ReadAs[n] = AsRead(n)
  BY DEF ReadAs
<1>2. 2 * n < Words /\ n \in Word /\ 0 \in Word
  BY <1>0 DEF Word
<1>3. AsRead(n) \in Nat /\ (AsRead(n) <= n \/ 2 * AsRead(n) >= Words)
  BY <1>0, <1>2, ReadIsLessOrHuge
<1>4. AsRead(0) = 0
  <2>1. 2 * 0 < Words
    BY <1>0
  <2>2. AsRead(0) \in Nat /\ (AsRead(0) <= 0 \/ 2 * AsRead(0) >= Words)
    BY <2>1, ReadIsLessOrHuge
  <2>3. IsPlain(0)
    BY BaseAssumption DEF IsPlain, AddNumber, Shift
  <2> QED BY <1>2, <2>3, ReadsPlainNumbers
<1>5. AsRead(n) = 0 => n = 0
  BY <1>2, <1>4, ReadingIsInjective
<1> QED BY <1>1, <1>3, <1>4, <1>5

\* Every datagram of an answer is true.
LEMMA BatchIsTrue ==
    ASSUME ServerOK, NEW i \in 0..(count - 1)
    PROVE  IsTrue([game |-> game, from |-> i,
                   to |-> Min({i + PerDatagram, count}) - 1,
                   over |-> ~gamePlayed /\ i + PerDatagram >= count])
<1>1. /\ MaxLog \in Nat /\ MaxGames \in Nat \ {0} /\ PerDatagram \in Nat \ {0}
      /\ count \in 1..MaxLog /\ game \in 1..MaxGames /\ i \in Nat
  BY BoundsAssumption DEF ServerOK
<1> DEFINE m == Min({i + PerDatagram, count})
<1>2. m = IF i + PerDatagram <= count THEN i + PerDatagram ELSE count
  <2>1. i + PerDatagram \in Nat /\ count \in Nat
    BY <1>1
  <2> QED BY <2>1, MinOfTwo
<1>3. /\ m \in Nat /\ m - 1 \in i..(count - 1)
      /\ i + PerDatagram >= count <=> m = count
  BY <1>1, <1>2
<1>4. ~gamePlayed => count >= 2
  BY <1>1 DEF ServerOK
<1> DEFINE d == [game |-> game, from |-> i, to |-> m - 1,
                 over |-> ~gamePlayed /\ i + PerDatagram >= count]
<1>5. d \in Datagram
  BY <1>1, <1>3 DEF Datagram, EventNo
<1> HIDE DEF m
<1>6. /\ d.game = game /\ d.from = i /\ d.to = m - 1
      /\ d.over <=> ~gamePlayed /\ i + PerDatagram >= count
  OBVIOUS
<1> HIDE DEF d
<1>7. IsTrue(d)
  BY <1>1, <1>3, <1>4, <1>5, <1>6 DEF IsTrue
<1> QED BY <1>7 DEF d, m

LEMMA AnswersAreTrue ==
    ASSUME ServerOK, NEW n \in Nat, SendDatagrams(n)
    PROVE  \A d \in toClient' \ toClient : IsTrue(d) /\ d.game = game
<1> SUFFICES ASSUME NEW d \in toClient' \ toClient
             PROVE  IsTrue(d) /\ d.game = game
  OBVIOUS
<1>1. PICK i \in {j \in n..(count - 1) : (j - n) % PerDatagram = 0} :
          d = [game |-> game, from |-> i,
               to |-> Min({i + PerDatagram, count}) - 1,
               over |-> ~gamePlayed /\ i + PerDatagram >= count]
  BY DEF SendDatagrams, Transmit
<1>2. i \in 0..(count - 1)
  BY DEF ServerOK
<1> QED BY <1>1, <1>2, BatchIsTrue

\* What a step of the server does to the log, and that what it sends is true.
LEMMA ServerSteps ==
    ASSUME ServerOK, ServerNext
    PROVE  /\ ServerOK'
           /\ \/ UNCHANGED <<game, gamePlayed, count>>
              \/ ~gamePlayed /\ game' = game + 1 /\ gamePlayed' /\ count' = 1
              \/ gamePlayed /\ game' = game /\ count' = count + 1
           /\ \A d \in toClient' \ toClient : IsTrue(d)' /\ d.game = game'
<1>0. MaxLog \in Nat /\ MaxLog >= 2 /\ MaxGames \in Nat \ {0}
  BY BoundsAssumption
<1>1. CASE NewGame
  <2>1. /\ ~gamePlayed /\ game' = game + 1 /\ count' = 1 /\ game' \in 1..MaxGames
        /\ UNCHANGED <<isConnected, toServer>>
    BY <1>0, <1>1 DEF NewGame, ServerOK
  <2>2. gamePlayed' \in BOOLEAN /\ gamePlayed'
    BY <1>1 DEF NewGame
  <2>3. ServerOK'
    BY <1>0, <2>1, <2>2 DEF ServerOK
  <2>4. \A d \in toClient' \ toClient :
            d = [game |-> game', from |-> 0, to |-> 0, over |-> FALSE]
    BY <1>1 DEF NewGame, SendEvent, Transmit
  <2>5. ASSUME NEW d \in toClient' \ toClient PROVE IsTrue(d)' /\ d.game = game'
    <3>1. d = [game |-> game', from |-> 0, to |-> 0, over |-> FALSE]
      BY <2>4
    <3>2. d.game = game' /\ d.from = 0 /\ d.to = 0 /\ ~d.over
      BY <3>1
    <3>3. d \in Datagram
      BY <1>0, <2>1, <3>1 DEF Datagram, EventNo
    <3> QED BY <2>1, <2>2, <3>2, <3>3 DEF IsTrue
  <2> QED BY <2>1, <2>2, <2>3, <2>5
<1>2. CASE AddEvent
  <2>1. /\ gamePlayed /\ game' = game /\ count' = count + 1
        /\ count \in 1..(MaxLog - 2) /\ game \in 1..MaxGames
        /\ UNCHANGED <<gamePlayed, isConnected, toServer>>
    BY <1>0, <1>2 DEF AddEvent, ServerOK
  <2>2. ServerOK'
    BY <1>0, <2>1 DEF ServerOK
  <2>3. \A d \in toClient' \ toClient :
            d = [game |-> game, from |-> count, to |-> count, over |-> FALSE]
    BY <1>2 DEF AddEvent, SendEvent, Transmit
  <2>4. ASSUME NEW d \in toClient' \ toClient PROVE IsTrue(d)' /\ d.game = game'
    <3>1. d = [game |-> game, from |-> count, to |-> count, over |-> FALSE]
      BY <2>3
    <3>2. d.game = game /\ d.from = count /\ d.to = count /\ ~d.over
      BY <3>1
    <3>3. d \in Datagram
      BY <1>0, <2>1, <3>1 DEF Datagram, EventNo
    <3> QED BY <2>1, <3>2, <3>3 DEF IsTrue
  <2> QED BY <2>1, <2>2, <2>4
<1>3. CASE AddGameOver
  <2>1. /\ gamePlayed /\ game' = game /\ count' = count + 1
        /\ count \in 1..(MaxLog - 1) /\ game \in 1..MaxGames
        /\ UNCHANGED <<isConnected, toServer>>
    BY <1>0, <1>3 DEF AddGameOver, ServerOK
  <2>2. gamePlayed' \in BOOLEAN /\ ~gamePlayed'
    BY <1>3 DEF AddGameOver
  <2>3. ServerOK'
    BY <1>0, <2>1, <2>2 DEF ServerOK
  <2>4. \A d \in toClient' \ toClient :
            d = [game |-> game, from |-> count, to |-> count, over |-> TRUE]
    BY <1>3 DEF AddGameOver, SendEvent, Transmit
  <2>5. ASSUME NEW d \in toClient' \ toClient PROVE IsTrue(d)' /\ d.game = game'
    <3>1. d = [game |-> game, from |-> count, to |-> count, over |-> TRUE]
      BY <2>4
    <3>2. d.game = game /\ d.from = count /\ d.to = count /\ d.over
      BY <3>1
    <3>3. d \in Datagram
      BY <1>0, <2>1, <3>1 DEF Datagram, EventNo
    <3> QED BY <2>1, <2>2, <3>2, <3>3 DEF IsTrue
  <2> QED BY <2>1, <2>2, <2>3, <2>5
<1>4. CASE Disconnect
  BY <1>4 DEF Disconnect, netVars, ServerOK
<1>5. ASSUME NEW n \in Number, Answer(n)
      PROVE  /\ ServerOK' /\ UNCHANGED <<game, gamePlayed, count>>
             /\ \A d \in toClient' \ toClient : IsTrue(d)' /\ d.game = game'
  <2>1. UNCHANGED <<game, gamePlayed, count>>
    BY <1>5 DEF Answer
  <2>2. ServerOK'
    BY <1>5 DEF Answer, ServerOK
  <2>3. \A d \in toClient' \ toClient : IsTrue(d) /\ d.game = game
    <3>1. ReadAs[n] \in Nat
      BY NumbersRead
    <3> QED BY <1>5, <3>1, AnswersAreTrue DEF Answer
  <2> QED BY <2>1, <2>2, <2>3 DEF IsTrue
<1> QED BY <1>1, <1>2, <1>3, <1>4, <1>5 DEF ServerNext

\* What is true stays true.
LEMMA TrueStays ==
    ASSUME ServerOK, NEW d, IsTrue(d),
           \/ UNCHANGED <<game, gamePlayed, count>>
           \/ ~gamePlayed /\ game' = game + 1 /\ gamePlayed' /\ count' = 1
           \/ gamePlayed /\ game' = game /\ count' = count + 1,
           ServerOK'
    PROVE  IsTrue(d)'
<1>1. d.game \in Nat /\ d.to \in Nat /\ d.over \in BOOLEAN
  BY DEF IsTrue, Datagram, EventNo
<1>2. game \in Nat /\ count \in Nat
  BY DEF ServerOK
<1> QED BY <1>1, <1>2 DEF IsTrue, ServerOK

LEMMA InitNet == DisInit => NetInv
<1> SUFFICES ASSUME DisInit PROVE NetInv
  OBVIOUS
<1>1. game = 0 /\ count = 0 /\ toClient = {} /\ toServer = {}
  BY DEF DisInit
<1>2. gamePlayed \in BOOLEAN /\ ~gamePlayed /\ isConnected \in BOOLEAN
  BY DEF DisInit
<1>3. ServerOK
  BY <1>1, <1>2, BoundsAssumption DEF ServerOK
<1> QED BY <1>1, <1>3 DEF NetInv

LEMMA ServerKeepsNet ==
    ASSUME NetInv, ServerNext
    PROVE  NetInv'
BY ServerSteps, TrueStays DEF NetInv

\* Nothing else changes what may be on its way to the client.
LEMMA ClientKeepsNet ==
    ASSUME NetInv,
           \/ \E n \in Number : Report(n)
           \/ \E d \in toClient : Deliver(d)
    PROVE  NetInv' /\ toClient' \subseteq toClient /\ UNCHANGED serverVars
<1>1. CASE \E n \in Number : Report(n)
  BY <1>1 DEF Report, NetInv, ServerOK, IsTrue, serverVars
<1>2. CASE \E d \in toClient : Deliver(d)
  BY <1>2 DEF Deliver, NetInv, ServerOK, IsTrue, serverVars
<1> QED BY <1>1, <1>2

\* Datagrams that are true of a log of n events agree, if they are of its game.
LEMMA CurrentAgree ==
    ASSUME NEW g, NEW n \in Nat, NEW open \in BOOLEAN,
           NEW d \in Datagram, NEW e \in Datagram,
           d.game = g =>
               d.to < n /\ (d.over <=> ~open /\ d.to = n - 1),
           e.game = g =>
               e.to < n /\ (e.over <=> ~open /\ e.to = n - 1),
           d.game = g
    PROVE  Agree(d, e) /\ Agree(e, d)
<1>1. d.to \in Nat /\ e.to \in Nat
  BY BoundsAssumption DEF Datagram, EventNo
<1>2. CASE e.game = g
  BY <1>1, <1>2 DEF Agree
<1>3. CASE e.game # g
  BY <1>3 DEF Agree
<1> QED BY <1>2, <1>3

\* Whatever agrees with all that is on its way goes on doing so: what the
\* server sends is of a game of which it knows all.
LEMMA AgreementStays ==
    ASSUME NetInv, ServerNext, NEW s, IsTrue(s),
           \A d \in toClient : Agree(d, s) /\ Agree(s, d)
    PROVE  IsTrue(s)' /\ \A d \in toClient' : Agree(d, s) /\ Agree(s, d)
<1>1. IsTrue(s)'
  BY ServerSteps, TrueStays DEF NetInv
<1>2. ASSUME NEW d \in toClient' \ toClient PROVE Agree(d, s) /\ Agree(s, d)
  <2>1. IsTrue(d)' /\ d.game = game'
    BY ServerSteps DEF NetInv
  <2>2. count' \in Nat /\ gamePlayed' \in BOOLEAN
    BY ServerSteps DEF NetInv, ServerOK
  <2> QED BY <1>1, <2>1, <2>2, CurrentAgree DEF IsTrue
<1> QED BY <1>1, <1>2

LEMMA AllAgreeStays ==
    ASSUME NetInv, ServerNext, \A d, e \in toClient : Agree(d, e)
    PROVE  \A d, e \in toClient' : Agree(d, e)
<1>1. \A s \in toClient : \A d \in toClient' : Agree(d, s) /\ Agree(s, d)
  BY AgreementStays DEF NetInv
<1>2. ASSUME NEW d \in toClient' \ toClient, NEW e \in toClient' \ toClient
      PROVE  Agree(d, e)
  <2>1. IsTrue(d)' /\ d.game = game' /\ IsTrue(e)'
    BY ServerSteps DEF NetInv
  <2>2. count' \in Nat /\ gamePlayed' \in BOOLEAN
    BY ServerSteps DEF NetInv, ServerOK
  <2> QED BY <2>1, <2>2, CurrentAgree DEF IsTrue
<1> QED BY <1>1, <1>2

-----------------------------------------------------------------------------
(* The log on the server's side is one that EventLog allows *)

\* The log of n events.
LogOf(n, played) ==
    [i \in 1..n |->
        IF i = 1 THEN "new_game"
        ELSE IF i = n /\ ~played THEN "game_over" ELSE "body"]

Entry == {"new_game", "body", "game_over"}

LEMMA FunctionIsSequence ==
    ASSUME NEW S, NEW n \in Nat, NEW f \in [1..n -> S]
    PROVE  f \in Seq(S) /\ Len(f) = n
OBVIOUS

LEMMA LogIsSequence ==
    ASSUME NEW n \in Nat, NEW played \in BOOLEAN
    PROVE  LogOf(n, played) \in Seq(Entry) /\ Len(LogOf(n, played)) = n
<1>1. LogOf(n, played) \in [1..n -> Entry]
  BY Zenon DEF LogOf, Entry
<1> QED BY <1>1, FunctionIsSequence

LEMMA EntryOf ==
    ASSUME NEW n \in Nat, NEW i \in 1..n
    PROVE  /\ LogOf(n, TRUE)[i] = IF i = 1 THEN "new_game" ELSE "body"
           /\ LogOf(n, FALSE)[i] =
                  IF i = 1 THEN "new_game"
                  ELSE IF i = n THEN "game_over" ELSE "body"
BY Zenon DEF LogOf

LEMMA AppendedIsEqual ==
    ASSUME NEW S, NEW s \in Seq(S), NEW t \in Seq(S), NEW e \in S,
           Len(t) = Len(s) + 1,
           \A i \in 1..Len(s) : t[i] = s[i],
           t[Len(s) + 1] = e
    PROVE  t = Append(s, e)
<1>1. /\ Append(s, e) \in Seq(S)
      /\ Len(Append(s, e)) = Len(s) + 1
      /\ \A i \in 1..Len(s) : Append(s, e)[i] = s[i]
      /\ Append(s, e)[Len(s) + 1] = e
  BY AppendProperties
<1>2. Len(s) \in Nat
  OBVIOUS
<1>3. ASSUME NEW i \in 1..Len(t) PROVE t[i] = Append(s, e)[i]
  <2>1. i \in 1..Len(s) \/ i = Len(s) + 1
    BY <1>2
  <2> QED BY <1>1, <2>1
<1> QED BY <1>1, <1>3, SeqEqual

LEMMA LogGrows ==
    ASSUME NEW n \in Nat \ {0}
    PROVE  /\ LogOf(n + 1, TRUE) = Append(LogOf(n, TRUE), "body")
           /\ LogOf(n + 1, FALSE) = Append(LogOf(n, TRUE), "game_over")
<1>1. LogOf(n, TRUE) \in Seq(Entry) /\ Len(LogOf(n, TRUE)) = n
  BY LogIsSequence
<1>2. n + 1 \in Nat /\ "body" \in Entry /\ "game_over" \in Entry
  BY DEF Entry
<1>3. /\ LogOf(n + 1, TRUE) \in Seq(Entry) /\ Len(LogOf(n + 1, TRUE)) = n + 1
      /\ LogOf(n + 1, FALSE) \in Seq(Entry) /\ Len(LogOf(n + 1, FALSE)) = n + 1
  BY <1>2, LogIsSequence
<1>4. ASSUME NEW i \in 1..n
      PROVE  /\ LogOf(n + 1, TRUE)[i] = LogOf(n, TRUE)[i]
             /\ LogOf(n + 1, FALSE)[i] = LogOf(n, TRUE)[i]
  <2>1. i \in 1..(n + 1) /\ i # n + 1 /\ n \in Nat
    OBVIOUS
  <2>2. LogOf(n, TRUE)[i] = IF i = 1 THEN "new_game" ELSE "body"
    BY <2>1, EntryOf
  <2>3. /\ LogOf(n + 1, TRUE)[i] = IF i = 1 THEN "new_game" ELSE "body"
        /\ LogOf(n + 1, FALSE)[i] =
               IF i = 1 THEN "new_game"
               ELSE IF i = n + 1 THEN "game_over" ELSE "body"
    BY <1>2, <2>1, EntryOf
  <2> QED BY <2>1, <2>2, <2>3
<1>5. LogOf(n + 1, TRUE)[n + 1] = "body" /\ LogOf(n + 1, FALSE)[n + 1] = "game_over"
  <2>1. n + 1 \in 1..(n + 1) /\ n + 1 # 1
    OBVIOUS
  <2> QED BY <1>2, <2>1, EntryOf
<1> DEFINE s == LogOf(n, TRUE)
           t == LogOf(n + 1, TRUE)
           u == LogOf(n + 1, FALSE)
<1>6. /\ s \in Seq(Entry) /\ t \in Seq(Entry) /\ u \in Seq(Entry)
      /\ Len(t) = Len(s) + 1 /\ Len(u) = Len(s) + 1
      /\ \A i \in 1..Len(s) : t[i] = s[i] /\ u[i] = s[i]
      /\ t[Len(s) + 1] = "body" /\ u[Len(s) + 1] = "game_over"
  BY <1>1, <1>3, <1>4, <1>5
<1> HIDE DEF s, t, u
<1>7. t = Append(s, "body")
  BY <1>2, <1>6, AppendedIsEqual
<1>8. u = Append(s, "game_over")
  BY <1>2, <1>6, AppendedIsEqual
<1> QED BY <1>7, <1>8 DEF s, t, u

LEMMA LogInit == DisInit => Log!Init
<1> SUFFICES ASSUME DisInit PROVE Log!Init
  OBVIOUS
<1>1. game = 0 /\ count = 0
  BY DEF DisInit
<1>2. gamePlayed = FALSE
  BY DEF DisInit
<1>3. LogOf(count, gamePlayed) = <<>>
  BY <1>1 DEF LogOf
<1> QED BY <1>1, <1>2, <1>3 DEF Log!Init, LogOf

LEMMA LogStep ==
    ASSUME ServerOK, ServerNext
    PROVE  [Log!Next]_(Log!logVars)
<1>1. ServerOK'
  BY ServerSteps
<1>2. CASE UNCHANGED <<game, gamePlayed, count>>
  BY <1>2 DEF Log!logVars
<1>3. CASE ~gamePlayed /\ game' = game + 1 /\ gamePlayed' /\ count' = 1
  <2>1. game' \in 1..MaxGames
    BY <1>1, <1>3 DEF ServerOK
  <2>2. gamePlayed' = TRUE
    BY <1>1, <1>3 DEF ServerOK
  <2>3. LogOf(count, gamePlayed)' = <<"new_game">>
    BY <1>3 DEF LogOf
  <2> QED BY <1>3, <2>1, <2>2, <2>3 DEF Log!Next, Log!Open, LogOf
<1>4. CASE gamePlayed /\ game' = game /\ count' = count + 1
  <2>1. count \in Nat \ {0} /\ gamePlayed' \in BOOLEAN /\ gamePlayed = TRUE
    BY <1>1, <1>4 DEF ServerOK
  <2>2. LogOf(count, gamePlayed)' = LogOf(count + 1, gamePlayed')
    BY <1>4 DEF LogOf
  <2>3. CASE gamePlayed'
    <3>1. gamePlayed' = TRUE
      BY <2>1, <2>3
    <3>2. LogOf(count, gamePlayed)' = Append(LogOf(count, gamePlayed), "body")
      BY <2>1, <2>2, <3>1, LogGrows
    <3> QED BY <1>4, <2>1, <3>1, <3>2 DEF Log!Next, Log!Extend, LogOf
  <2>4. CASE ~gamePlayed'
    <3>1. gamePlayed' = FALSE
      BY <2>1, <2>4
    <3>2. LogOf(count, gamePlayed)' = Append(LogOf(count, gamePlayed), "game_over")
      BY <2>1, <2>2, <3>1, LogGrows
    <3> QED BY <1>4, <3>1, <3>2 DEF Log!Next, Log!Close, LogOf
  <2> QED BY <2>3, <2>4
<1> QED BY <1>2, <1>3, <1>4, ServerSteps

-----------------------------------------------------------------------------
(* What a client makes of a datagram *)

EventRecord == [game: Nat, no: Nat, kind: {"new_game", "body", "game_over"}]

\* s is the beginning of the log of game g, n events long.
IsLog(s, g, n) ==
    /\ s \in Seq(EventRecord)
    /\ Len(s) = n
    /\ \A i \in 1..n :
           /\ s[i].game = g
           /\ s[i].no = i - 1
           /\ s[i].kind = "new_game" <=> i = 1
           /\ s[i].kind = "game_over" => i = n

Ended(s) == s[Len(s)].kind = "game_over"

LEMMA EventsOfDatagram ==
    ASSUME NEW d, IsTrue(d)
    PROVE  /\ EventsOf(d) \in Seq(EventRecord)
           /\ Len(EventsOf(d)) = d.to - d.from + 1
           /\ \A i \in 1..(d.to - d.from + 1) :
                  /\ EventsOf(d)[i].game = d.game
                  /\ EventsOf(d)[i].no = d.from + i - 1
                  /\ EventsOf(d)[i].kind = "new_game" <=> d.from + i - 1 = 0
                  /\ EventsOf(d)[i].kind = "game_over" <=>
                         d.over /\ d.from + i - 1 = d.to
<1>1. /\ d.from \in Nat /\ d.to \in Nat /\ d.game \in Nat /\ d.over \in BOOLEAN
      /\ d.from <= d.to /\ (d.over => d.to >= 1)
  BY BoundsAssumption DEF IsTrue, Datagram, EventNo
<1>2. \A n \in Nat : /\ KindOf(d, n) \in {"new_game", "body", "game_over"}
                     /\ KindOf(d, n) = "new_game" <=> n = 0
                     /\ KindOf(d, n) = "game_over" <=> n # 0 /\ n = d.to /\ d.over
  BY DEF KindOf
<1> DEFINE k == d.to - d.from + 1
<1>3. k \in Nat /\ \A i \in 1..k : d.from + i - 1 \in Nat
  BY <1>1
<1>4. EventsOf(d) = [i \in 1..k |->
                        [game |-> d.game, no |-> d.from + i - 1,
                         kind |-> KindOf(d, d.from + i - 1)]]
  BY DEF EventsOf
<1> HIDE DEF k
<1>5. \A i \in 1..k : [game |-> d.game, no |-> d.from + i - 1,
                       kind |-> KindOf(d, d.from + i - 1)] \in EventRecord
  BY <1>1, <1>2, <1>3 DEF EventRecord
<1>6. EventsOf(d) \in Seq(EventRecord) /\ Len(EventsOf(d)) = k
  BY <1>3, <1>4, <1>5
<1>7. \A i \in 1..k :
          /\ EventsOf(d)[i].game = d.game
          /\ EventsOf(d)[i].no = d.from + i - 1
          /\ EventsOf(d)[i].kind = KindOf(d, d.from + i - 1)
  BY <1>4
<1>8. \A i \in 1..k :
          /\ EventsOf(d)[i].kind = "new_game" <=> d.from + i - 1 = 0
          /\ EventsOf(d)[i].kind = "game_over" <=> d.over /\ d.from + i - 1 = d.to
  BY <1>1, <1>2, <1>3, <1>7
<1> QED BY <1>6, <1>7, <1>8 DEF k

\* A datagram that starts with event 0 is the beginning of a log.
LEMMA FirstDatagram ==
    ASSUME NEW d, IsTrue(d), d.from = 0
    PROVE  /\ IsLog(EventsOf(d), d.game, d.to + 1)
           /\ Ended(EventsOf(d)) <=> d.over
<1>1. d.to \in Nat /\ d.over \in BOOLEAN
  BY BoundsAssumption DEF IsTrue, Datagram, EventNo
<1> DEFINE s == EventsOf(d)
<1>2. /\ s \in Seq(EventRecord)
      /\ Len(s) = d.to + 1
      /\ \A i \in 1..(d.to + 1) :
             /\ s[i].game = d.game
             /\ s[i].no = i - 1
             /\ s[i].kind = "new_game" <=> i = 1
             /\ s[i].kind = "game_over" <=> d.over /\ i = d.to + 1
  BY <1>1, EventsOfDatagram
<1> HIDE DEF s
<1>3. IsLog(s, d.game, d.to + 1) /\ (Ended(s) <=> d.over)
  BY <1>1, <1>2 DEF IsLog, Ended
<1> QED BY <1>3 DEF s

\* One that starts with the event after the last continues it.
LEMMA NextDatagram ==
    ASSUME NEW d, IsTrue(d), NEW s, d.from # 0,
           IsLog(s, d.game, d.from), ~Ended(s)
    PROVE  /\ IsLog(s \o EventsOf(d), d.game, d.to + 1)
           /\ Ended(s \o EventsOf(d)) <=> d.over
           /\ SubSeq(s \o EventsOf(d), 1, Len(s)) = s
<1>1. /\ d.from \in Nat \ {0} /\ d.to \in Nat /\ d.over \in BOOLEAN /\ d.from <= d.to
  BY BoundsAssumption DEF IsTrue, Datagram, EventNo
<1> DEFINE t == EventsOf(d)
           u == s \o t
<1>2. /\ t \in Seq(EventRecord)
      /\ Len(t) = d.to - d.from + 1
  BY EventsOfDatagram
<1>3. s \in Seq(EventRecord) /\ Len(s) = d.from
  BY DEF IsLog
<1>4. \A i \in 1..(d.to - d.from + 1) :
             /\ t[i].game = d.game
             /\ t[i].no = d.from + i - 1
             /\ t[i].kind # "new_game"
             /\ t[i].kind = "game_over" <=> d.over /\ d.from + i - 1 = d.to
  BY <1>1, EventsOfDatagram
<1> HIDE DEF t
<1>5. /\ u \in Seq(EventRecord) /\ Len(u) = d.to + 1
      /\ \A i \in 1..d.from : u[i] = s[i]
      /\ \A i \in (d.from + 1)..(d.to + 1) : u[i] = t[i - d.from]
  <2>1. u \in Seq(EventRecord) /\ Len(u) = Len(s) + Len(t)
    BY <1>2, <1>3
  <2>2. \A i \in 1..Len(s) : u[i] = s[i]
    BY <1>2, <1>3
  <2>3. \A i \in (Len(s) + 1)..(Len(s) + Len(t)) : u[i] = t[i - Len(s)]
    BY <1>2, <1>3
  <2>4. Len(s) + Len(t) = d.to + 1 /\ Len(s) = d.from
    BY <1>1, <1>2, <1>3
  <2> HIDE DEF u
  <2> QED BY <2>1, <2>2, <2>3, <2>4
<1>6. SubSeq(u, 1, Len(s)) = s
  BY <1>1, <1>3, <1>5
<1> HIDE DEF u
<1>7. ASSUME NEW i \in 1..d.from
      PROVE  /\ u[i].game = d.game
             /\ u[i].no = i - 1
             /\ u[i].kind = "new_game" <=> i = 1
             /\ u[i].kind # "game_over"
  <2>1. /\ s[i].game = d.game
        /\ s[i].no = i - 1
        /\ s[i].kind = "new_game" <=> i = 1
        /\ s[i].kind = "game_over" => i = d.from
    BY DEF IsLog
  <2>2. s[d.from].kind # "game_over"
    BY <1>3 DEF Ended
  <2>3. u[i] = s[i]
    BY <1>5
  <2> QED BY <2>1, <2>2, <2>3
<1>8. ASSUME NEW i \in (d.from + 1)..(d.to + 1)
      PROVE  /\ u[i].game = d.game
             /\ u[i].no = i - 1
             /\ u[i].kind # "new_game"
             /\ u[i].kind = "game_over" <=> d.over /\ i = d.to + 1
  <2>1. i - d.from \in 1..(d.to - d.from + 1) /\ d.from + (i - d.from) - 1 = i - 1
    BY <1>1
  <2>2. u[i] = t[i - d.from]
    BY <1>5
  <2> QED BY <1>1, <1>4, <2>1, <2>2
<1>9. IsLog(u, d.game, d.to + 1)
  <2>1. ASSUME NEW i \in 1..(d.to + 1)
        PROVE  i \in 1..d.from \/ i \in (d.from + 1)..(d.to + 1)
    BY <1>1
  <2>2. ASSUME NEW i \in 1..(d.to + 1)
        PROVE  /\ u[i].game = d.game
               /\ u[i].no = i - 1
               /\ u[i].kind = "new_game" <=> i = 1
               /\ u[i].kind = "game_over" => i = d.to + 1
    <3>1. CASE i \in 1..d.from
      BY <1>7, <3>1
    <3>2. CASE i \in (d.from + 1)..(d.to + 1)
      BY <1>1, <1>8, <3>2
    <3> QED BY <2>1, <3>1, <3>2
  <2> QED BY <1>5, <2>2 DEF IsLog
<1>10. Ended(u) <=> d.over
  BY <1>1, <1>5, <1>8 DEF Ended
<1> QED BY <1>6, <1>9, <1>10 DEF u, t
=============================================================================
