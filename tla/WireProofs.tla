----------------------------- MODULE WireProofs -----------------------------
(***************************************************************************)
(* A game on its way from the log to the screen, for every game, any sizes *)
(* of datagrams, pipes and lists, and any delay, loss and repetition.      *)
(*                                                                         *)
(* First, sums and offsets, from which the packing follows; then what a    *)
(* client reads of numbers and lists; the types of everything on the way;  *)
(* what may end the GUI; and last, that the lines that are still unread    *)
(* lead from the screen to what the client has read.                       *)
(***************************************************************************)
EXTENDS Wire, NumbersProofs, FiniteSetTheorems, SequenceTheorems

-----------------------------------------------------------------------------
(* Sums *)

\* There is a function as SumsOf() chooses one.
LEMMA SumsExist ==
    ASSUME NEW s \in Seq(Nat), NEW n \in 0..Len(s)
    PROVE  \E f : f = [k \in 0..n |-> IF k = 0 THEN 0 ELSE f[k - 1] + s[k]]
<1> DEFINE Sums(m) ==
               \E f : f = [k \in 0..m |-> IF k = 0 THEN 0 ELSE f[k - 1] + s[k]]
           Missing == {m \in 0..Len(s) : ~Sums(m)}
<1>1. ASSUME Missing # {} PROVE FALSE
  <2>0. Missing \in SUBSET Nat /\ Len(s) \in Nat
    OBVIOUS
  <2> HIDE DEF Missing
  <2>1. PICK m \in Missing : \A k \in Missing : m <= k
    BY <2>0, <1>1, LeastNat
  <2>2. m \in 0..Len(s) /\ ~Sums(m)
    BY DEF Missing
  <2>3. CASE m = 0
    <3> DEFINE f == [k \in 0..m |-> 0]
    <3>1. f = [k \in 0..m |-> IF k = 0 THEN 0 ELSE f[k - 1] + s[k]]
      BY <2>3
    <3> QED BY <2>2, <3>1
  <2>4. CASE m # 0
    <3>1. m - 1 \in 0..Len(s) /\ m - 1 \notin Missing
      <4>1. m - 1 \in 0..Len(s) /\ ~(m <= m - 1)
        BY <2>0, <2>2, <2>4
      <4> QED BY <2>1, <4>1
    <3>2. Sums(m - 1)
      BY <3>1 DEF Missing
    <3>3. PICK f : f = [k \in 0..(m - 1) |-> IF k = 0 THEN 0 ELSE f[k - 1] + s[k]]
      BY <3>2
    <3> DEFINE g == [k \in 0..m |-> IF k = m THEN f[m - 1] + s[m] ELSE f[k]]
    <3>4. ASSUME NEW k \in 0..m
          PROVE  g[k] = IF k = 0 THEN 0 ELSE g[k - 1] + s[k]
      <4>1. CASE k = m
        BY <2>2, <2>4, <4>1
      <4>2. CASE k # m
        <5>1. k \in 0..(m - 1) /\ (k # 0 => k - 1 \in 0..m /\ k - 1 # m)
          BY <2>2, <4>2
        <5>2. g[k] = f[k] /\ (k # 0 => g[k - 1] = f[k - 1])
          BY <4>2, <5>1
        <5>3. f[k] = IF k = 0 THEN 0 ELSE f[k - 1] + s[k]
          BY <3>3, <5>1
        <5> QED BY <5>2, <5>3
      <4> QED BY <4>1, <4>2
    <3>5. g = [k \in 0..m |-> g[k]]
      OBVIOUS
    <3> HIDE DEF g
    <3>6. g = [k \in 0..m |-> IF k = 0 THEN 0 ELSE g[k - 1] + s[k]]
      BY <3>4, <3>5
    <3> QED BY <2>2, <3>6
  <2> QED BY <2>3, <2>4
<1> QED BY <1>1

\* SumsOf() is what its definition says, and its values are numbers.
LEMMA SumsOfNats ==
    ASSUME NEW s \in Seq(Nat)
    PROVE  /\ SumsOf(s) \in [0..Len(s) -> Nat]
           /\ SumsOf(s)[0] = 0
           /\ \A k \in 1..Len(s) : SumsOf(s)[k] = SumsOf(s)[k - 1] + s[k]
<1> DEFINE f == SumsOf(s)
           Strange == {k \in 0..Len(s) : f[k] \notin Nat}
<1>1. \E h : h = [k \in 0..Len(s) |-> IF k = 0 THEN 0 ELSE h[k - 1] + s[k]]
  BY SumsExist
<1>2. f = [k \in 0..Len(s) |-> IF k = 0 THEN 0 ELSE f[k - 1] + s[k]]
  BY <1>1 DEF SumsOf
<1> HIDE DEF f
<1>3. \A k \in 1..Len(s) : f[k] = f[k - 1] + s[k]
  BY <1>2
<1>4. f[0] = 0
  BY <1>2
<1>5. ASSUME Strange # {} PROVE FALSE
  <2>0. Strange \in SUBSET Nat
    OBVIOUS
  <2> HIDE DEF Strange
  <2>1. PICK m \in Strange : \A k \in Strange : m <= k
    BY <2>0, <1>5, LeastNat
  <2> USE DEF Strange
  <2>2. m \in 1..Len(s)
    BY <1>4, <2>1
  <2>3. m - 1 \in 0..Len(s) /\ m - 1 \notin Strange
    BY <2>1, <2>2
  <2>4. f[m] \in Nat
    BY <1>3, <2>2, <2>3
  <2> QED BY <2>1, <2>4
<1>6. \A k \in 0..Len(s) : f[k] \in Nat
  BY <1>5
<1>7. f \in [0..Len(s) -> Nat]
  BY <1>2, <1>6
<1> QED BY <1>3, <1>4, <1>7 DEF f

\* Sums of positive numbers grow.
LEMMA SumsGrow ==
    ASSUME NEW s \in Seq(Nat \ {0}), NEW i \in 0..Len(s), NEW j \in 0..Len(s), i < j
    PROVE  SumsOf(s)[i] < SumsOf(s)[j]
<1> DEFINE f == SumsOf(s)
           Low == {k \in (i + 1)..Len(s) : f[k] <= f[i]}
<1>1. /\ \A k \in 0..Len(s) : f[k] \in Nat
      /\ \A k \in 1..Len(s) : f[k] = f[k - 1] + s[k]
  <2>1. s \in Seq(Nat)
    OBVIOUS
  <2>2. SumsOf(s) \in [0..Len(s) -> Nat]
    BY <2>1, SumsOfNats
  <2> QED BY <2>1, <2>2, SumsOfNats
<1> HIDE DEF f
<1>0. Len(s) \in Nat /\ i \in Nat /\ j \in Nat /\ \A k \in 1..Len(s) : s[k] \in Nat \ {0}
  OBVIOUS
<1>2. ASSUME Low # {} PROVE FALSE
  <2>0. Low \in SUBSET Nat
    BY <1>0
  <2> HIDE DEF Low
  <2>1. PICK m \in Low : \A k \in Low : m <= k
    BY <2>0, <1>2, LeastNat
  <2>a. m \in (i + 1)..Len(s) /\ f[m] <= f[i]
    BY DEF Low
  <2>2. m \in 1..Len(s) /\ m - 1 \in 0..Len(s) /\ m - 1 \notin Low
    BY <1>0, <2>a, <2>1
  <2>3. f[m - 1] >= f[i]
    <3>1. CASE m - 1 = i
      BY <1>0, <1>1, <3>1
    <3>2. CASE m - 1 # i
      <4>1. m - 1 \in (i + 1)..Len(s)
        BY <1>0, <2>a, <3>2
      <4>2. ~(f[m - 1] <= f[i])
        BY <4>1, <2>2 DEF Low
      <4>3. f[m - 1] \in Nat /\ f[i] \in Nat
        BY <1>0, <1>1, <2>2
      <4> QED BY <4>2, <4>3
    <3> QED BY <3>1, <3>2
  <2>4. f[m] = f[m - 1] + s[m] /\ s[m] \in Nat \ {0}
    BY <1>0, <1>1, <2>2
  <2>5. f[m] \in Nat /\ f[m - 1] \in Nat /\ f[i] \in Nat
    BY <1>0, <1>1, <2>2
  <2> QED BY <2>a, <2>3, <2>4, <2>5
<1>3. j \in (i + 1)..Len(s) /\ j \notin Low
  BY <1>0, <1>2
<1>4. ~(f[j] <= f[i])
  BY <1>3 DEF Low
<1>5. f[j] \in Nat /\ f[i] \in Nat
  BY <1>1
<1> QED BY <1>4, <1>5 DEF f

-----------------------------------------------------------------------------
(* A game and its events *)

\* What is assumed of a game, part by part.
LEMMA GameFacts ==
    ASSUME NEW g \in DOMAIN Games
    PROVE  /\ Games[g].lengths \in Seq(1..20) /\ Len(Games[g].lengths) >= 2
           /\ Games[g].board \in (1..MaxNumber) \X (1..MaxNumber)
           /\ Games[g].body \in Seq(Bodies(g))
           /\ Len(Games[g].body) + 2 <= MaxNumber
           /\ Games[g].turns \in Seq(1..(Len(Games[g].body) + 2))
           /\ Games[g].turns # <<>>
           /\ \A i \in 2..Len(Games[g].turns) : Games[g].turns[i - 1] <= Games[g].turns[i]
  BY GamesAssumption

LEMMA LogOfGame ==
    ASSUME NEW g \in DOMAIN Games
    PROVE  LET n == Len(Games[g].body) + 2
           IN  /\ n \in Nat /\ n >= 2
               /\ Len(Logs[g]) = n /\ DOMAIN Logs[g] = 1..n
               /\ Logs[g][1] = [kind |-> "NEW_GAME", board |-> Games[g].board,
                                players |-> Names(g)]
               /\ \A i \in 2..(n - 1) : Logs[g][i] \in Bodies(g)
               /\ Logs[g][n] = [kind |-> "GAME_OVER"]
<1> DEFINE b == Games[g].body
           first == [kind |-> "NEW_GAME", board |-> Games[g].board, players |-> Names(g)]
           last == [kind |-> "GAME_OVER"]
<1>1. b \in Seq(Bodies(g))
  BY GameFacts
<1>2. Logs[g] = <<first>> \o b \o <<last>>
  BY DEF Logs
<1> HIDE DEF b, first, last
<1>3. /\ Len(b) \in Nat
      /\ \A i \in 1..Len(b) : b[i] \in Bodies(g)
      /\ b \in Seq(Bodies(g) \cup {first, last})
      /\ <<first>> \in Seq(Bodies(g) \cup {first, last})
      /\ <<last>> \in Seq(Bodies(g) \cup {first, last})
  BY <1>1
<1> DEFINE c == <<first>> \o b
<1>4. /\ c \in Seq(Bodies(g) \cup {first, last})
      /\ Len(c) = Len(b) + 1
      /\ c[1] = first
      /\ \A i \in 2..(Len(b) + 1) : c[i] = b[i - 1]
  BY <1>3
<1>5. Logs[g] = c \o <<last>>
  BY <1>2
<1> HIDE DEF c
<1>6. /\ Len(Logs[g]) = Len(b) + 2 /\ DOMAIN Logs[g] = 1..(Len(b) + 2)
      /\ \A i \in 1..(Len(b) + 1) : Logs[g][i] = c[i]
      /\ Logs[g][Len(b) + 2] = last
  BY <1>3, <1>4, <1>5
<1>7. ASSUME NEW i \in 2..(Len(b) + 1) PROVE Logs[g][i] \in Bodies(g)
  <2>1. i \in 1..(Len(b) + 1) /\ i - 1 \in 1..Len(b)
    BY <1>3
  <2> QED BY <1>3, <1>4, <1>6, <2>1
<1>8. Logs[g][1] = first
  BY <1>3, <1>4, <1>6
<1> QED BY <1>3, <1>6, <1>7, <1>8 DEF b, first, last

\* The names of NEW_GAME take up more bytes the more there are.
LEMMA NamesSizeGrows ==
    ASSUME NEW g \in DOMAIN Games
    PROVE  LET n == Len(Games[g].lengths)
           IN  /\ n \in Nat /\ n >= 2
               /\ Names(g) \in Seq(1..n) /\ Len(Names(g)) = n
               /\ DOMAIN Names(g) = 1..n
               /\ \A k \in 1..n : Names(g)[k] = k
               /\ \A k \in 0..n : NamesSize(g, k) \in Nat
               /\ \A j, k \in 0..n : j < k => NamesSize(g, j) < NamesSize(g, k)
<1> DEFINE s == Games[g].lengths
<1>1. s \in Seq(1..20) /\ Len(s) >= 2
  BY GameFacts
<1> HIDE DEF s
<1>2. s \in Seq(Nat) /\ s \in Seq(Nat \ {0}) /\ Len(s) \in Nat /\ DOMAIN s = 1..Len(s)
  BY <1>1
<1>3. SumsOf(s) \in [0..Len(s) -> Nat]
  BY <1>2, SumsOfNats
<1>4. ASSUME NEW k \in 0..Len(s) PROVE NamesSize(g, k) = SumsOf(s)[k] + k
  BY DEF NamesSize, s
<1>5. \A k \in 0..Len(s) : SumsOf(s)[k] \in Nat
  BY <1>3
<1>6. \A k \in 0..Len(s) : NamesSize(g, k) \in Nat
  BY <1>2, <1>4, <1>5
<1>7. ASSUME NEW j \in 0..Len(s), NEW k \in 0..Len(s), j < k
      PROVE  NamesSize(g, j) < NamesSize(g, k)
  <2>1. SumsOf(s)[j] < SumsOf(s)[k]
    BY <1>2, <1>7, SumsGrow
  <2>2. NamesSize(g, j) = SumsOf(s)[j] + j /\ NamesSize(g, k) = SumsOf(s)[k] + k
    BY <1>4
  <2>3. SumsOf(s)[j] \in Nat /\ SumsOf(s)[k] \in Nat /\ j \in Nat /\ k \in Nat
    BY <1>2, <1>5
  <2> HIDE DEF s
  <2> QED BY <1>7, <2>1, <2>2, <2>3
<1>8. Names(g) = [i \in 1..Len(s) |-> i]
  BY <1>2 DEF Names, s
<1>9. Names(g) \in Seq(1..Len(s)) /\ Len(Names(g)) = Len(s)
  BY <1>2, <1>8
<1> QED BY <1>1, <1>2, <1>6, <1>7, <1>8, <1>9 DEF s

LEMMA EventSizes ==
    ASSUME NEW g \in DOMAIN Games, NEW i \in DOMAIN Logs[g]
    PROVE  EventSize(g, Logs[g][i]) \in Nat \ {0}
<1> DEFINE n == Len(Games[g].body) + 2
           e == Logs[g][i]
<1>1. /\ n \in Nat /\ n >= 2 /\ i \in 1..n
      /\ Logs[g][1] = [kind |-> "NEW_GAME", board |-> Games[g].board, players |-> Names(g)]
      /\ \A k \in 2..(n - 1) : Logs[g][k] \in Bodies(g)
      /\ Logs[g][n] = [kind |-> "GAME_OVER"]
  BY LogOfGame
<1> HIDE DEF n
<1>2. CASE i = 1
  <2>1. e.kind = "NEW_GAME" /\ e.players = Names(g)
    BY <1>1, <1>2
  <2>2. NamesSize(g, Len(e.players)) \in Nat
    BY <2>1, NamesSizeGrows
  <2> QED BY <2>1, <2>2 DEF EventSize, DataLength
<1>3. CASE i = n
  BY <1>1, <1>3 DEF EventSize, DataLength
<1>4. CASE i \in 2..(n - 1)
  <2>1. e \in Bodies(g)
    BY <1>1, <1>4
  <2>2. e.kind \in {"PIXEL", "PLAYER_ELIMINATED"}
    BY <2>1 DEF Bodies
  <2> QED BY <2>2 DEF EventSize, DataLength
<1> QED BY <1>1, <1>2, <1>3, <1>4

\* Every event takes up bytes.
LEMMA OffsetsGrow ==
    ASSUME NEW g \in DOMAIN Games
    PROVE  /\ \A i \in 0..Len(Logs[g]) : Offsets[g][i] \in Nat
           /\ \A i, j \in 0..Len(Logs[g]) : i < j => Offsets[g][i] < Offsets[g][j]
           /\ \A i \in 1..Len(Logs[g]) :
                  Offsets[g][i] = Offsets[g][i - 1] + EventSize(g, Logs[g][i])
<1> DEFINE s == [i \in DOMAIN Logs[g] |-> EventSize(g, Logs[g][i])]
<1>1. Len(Logs[g]) \in Nat /\ DOMAIN Logs[g] = 1..Len(Logs[g])
  BY LogOfGame
<1>2. \A i \in 1..Len(Logs[g]) : s[i] \in Nat \ {0}
  BY <1>1, EventSizes
<1>4. Offsets[g] = SumsOf(s)
  BY DEF Offsets
<1>5. \A i \in 1..Len(Logs[g]) : s[i] = EventSize(g, Logs[g][i])
  BY <1>1
<1>a. s = [i \in 1..Len(Logs[g]) |-> s[i]]
  BY <1>1
<1> HIDE DEF s
<1>b. s \in [1..Len(Logs[g]) -> Nat \ {0}]
  BY <1>2, <1>a
<1>3. s \in Seq(Nat \ {0}) /\ s \in Seq(Nat) /\ Len(s) = Len(Logs[g])
  BY <1>1, <1>b
<1>6. Offsets[g] \in [0..Len(Logs[g]) -> Nat]
  BY <1>3, <1>4, SumsOfNats
<1>7. \A i \in 1..Len(Logs[g]) : Offsets[g][i] = Offsets[g][i - 1] + s[i]
  BY <1>3, <1>4, SumsOfNats
<1>8. \A i, j \in 0..Len(Logs[g]) : i < j => Offsets[g][i] < Offsets[g][j]
  BY <1>3, <1>4, SumsGrow
<1> QED BY <1>5, <1>6, <1>7, <1>8

-----------------------------------------------------------------------------
(* The datagrams of an answer *)

\* A game is played, as far as turn.
PlanTyped ==
    /\ plan \in DOMAIN Games
    /\ turn \in DOMAIN Games[plan].turns

LEMMA MadeFacts ==
    ASSUME PlanTyped
    PROVE  /\ plan \in DOMAIN Games
           /\ Total = Len(Logs[plan]) /\ Total = Len(Games[plan].body) + 2
           /\ Total \in Nat /\ Total >= 2 /\ Total <= MaxNumber
           /\ Made \in 1..Total
<1>1. /\ Len(Logs[plan]) = Len(Games[plan].body) + 2
      /\ Len(Games[plan].body) + 2 \in Nat
      /\ Len(Games[plan].body) + 2 >= 2
  BY LogOfGame DEF PlanTyped
<1>2. /\ Len(Games[plan].body) + 2 <= MaxNumber
      /\ Games[plan].turns \in Seq(1..(Len(Games[plan].body) + 2))
  BY GameFacts DEF PlanTyped
<1>3. Games[plan].turns[turn] \in 1..(Len(Games[plan].body) + 2)
  BY <1>2 DEF PlanTyped
<1> QED BY <1>1, <1>2, <1>3 DEF PlanTyped, Total, Made

LEMMA MaxDatagramIsNat == MaxDatagram \in Nat /\ MaxDatagram < Words /\ MaxUdp \in Nat
  BY DatagramAssumption, BaseAssumption DEF Word, Words

LEMMA SizeGrows ==
    ASSUME PlanTyped, NEW i \in 0..(Total - 1), NEW j \in i..(Total - 1)
    PROVE  /\ SizeOf(plan, i, j) \in Nat
           /\ \A k \in i..j : SizeOf(plan, i, k) <= SizeOf(plan, i, j)
           /\ SizeOf(plan, i, i) <= MaxDatagram
<1>1. Total = Len(Logs[plan]) /\ Total \in Nat /\ plan \in DOMAIN Games
  BY MadeFacts
<1>2. i \in Nat /\ j \in Nat /\ i <= j /\ j + 1 <= Total
  BY <1>1
<1>3. ASSUME NEW k \in i..j
      PROVE  /\ SizeOf(plan, i, k) \in Nat /\ SizeOf(plan, i, j) \in Nat
             /\ SizeOf(plan, i, k) <= SizeOf(plan, i, j)
  <2>1. i \in 0..Len(Logs[plan]) /\ k + 1 \in 0..Len(Logs[plan]) /\ j + 1 \in 0..Len(Logs[plan])
    BY <1>1, <1>2
  <2>2. /\ Offsets[plan][i] \in Nat /\ Offsets[plan][k + 1] \in Nat
        /\ Offsets[plan][j + 1] \in Nat
    BY <1>1, <2>1, OffsetsGrow
  <2>3. Offsets[plan][i] < Offsets[plan][k + 1]
    BY <1>1, <1>2, <2>1, OffsetsGrow
  <2>4. k = j \/ Offsets[plan][k + 1] < Offsets[plan][j + 1]
    <3>1. k = j \/ k + 1 < j + 1
      BY <1>2
    <3> QED BY <1>1, <2>1, <3>1, OffsetsGrow
  <2>5. Offsets[plan][k + 1] <= Offsets[plan][j + 1]
    BY <2>2, <2>4
  <2> QED BY <2>2, <2>3, <2>5 DEF SizeOf
<1>4. SizeOf(plan, i, i) <= MaxDatagram
  <2>1. i + 1 \in 1..Len(Logs[plan]) /\ DOMAIN Logs[plan] = 1..Len(Logs[plan])
    BY <1>1, <1>2
  <2>2. Offsets[plan][i + 1] = Offsets[plan][i] + EventSize(plan, Logs[plan][i + 1])
    <3>1. (i + 1) - 1 = i
      BY <1>2
    <3> QED BY <1>1, <2>1, <3>1, OffsetsGrow
  <2>3. Offsets[plan][i] \in Nat
    BY <1>1, <1>2, OffsetsGrow
  <2>4. EventSize(plan, Logs[plan][i + 1]) \in Nat
    BY <1>1, <2>1, EventSizes
  <2>5. 4 + EventSize(plan, Logs[plan][i + 1]) <= MaxDatagram
    BY <1>1, <2>1, DatagramAssumption
  <2>6. SizeOf(plan, i, i) = 4 + EventSize(plan, Logs[plan][i + 1])
    BY <2>2, <2>3, <2>4 DEF SizeOf
  <2> QED BY <2>5, <2>6
<1>5. i \in i..j /\ j \in i..j
  BY <1>2
<1> QED BY <1>3, <1>4, <1>5

\* A datagram that is filled: it fits, and the next event would not.
LEMMA FilledFacts ==
    ASSUME PlanTyped, NEW i \in 0..(Made - 1)
    PROVE  /\ Filled(i) = Datagram(i, Filled(i).to)
           /\ Filled(i).from = i /\ Filled(i).to \in i..(Made - 1)
           /\ Filled(i).size = SizeOf(plan, i, Filled(i).to)
           /\ Filled(i).size <= MaxDatagram
           /\ Filled(i).to < Made - 1 =>
                  SizeOf(plan, i, Filled(i).to + 1) > MaxDatagram
<1> DEFINE fitting == {j \in i..(Len(Logs[plan]) - 1) : Fits(plan, i, j)}
           l == Max({i} \cup fitting)
           t == Min({l, Made - 1})
<1>1. /\ Total = Len(Logs[plan]) /\ Total \in Nat /\ plan \in DOMAIN Games
      /\ Made \in 1..Total
  BY MadeFacts
<1>2. i \in Nat /\ i <= Made - 1 /\ i \in 0..(Total - 1) /\ Made \in Nat
  BY <1>1
<1>3. {i} \cup fitting \in SUBSET (0..Total) /\ {i} \cup fitting # {}
  BY <1>1, <1>2
<1>4. l \in {i} \cup fitting /\ \A k \in {i} \cup fitting : k <= l
  <2> HIDE DEF fitting
  <2> QED BY <1>1, <1>3, MaxOfNats
<1>5. l \in i..(Total - 1)
  BY <1>1, <1>2, <1>4
<1>6. SizeOf(plan, i, l) <= MaxDatagram
  <2>1. CASE l = i
    BY <1>2, <1>5, <2>1, SizeGrows
  <2>2. CASE l \in fitting
    BY <2>2 DEF Fits
  <2> QED BY <1>4, <2>1, <2>2
<1> HIDE DEF l
<1>7. t \in {l, Made - 1} /\ t <= l /\ t <= Made - 1
  <2>1. {l, Made - 1} \in SUBSET Nat
    BY <1>1, <1>2, <1>5
  <2> QED BY <2>1, MinOfNats
<1> HIDE DEF t
<1>8. LastFitting[plan][i] = l
  BY <1>1, <1>2 DEF LastFitting, l
<1>9. Filled(i) = [from |-> i, to |-> t, size |-> SizeOf(plan, i, t)]
  BY <1>8 DEF Filled, Datagram, t
<1>10. t \in i..(Made - 1) /\ t \in i..l
  BY <1>1, <1>2, <1>5, <1>7
<1>11. SizeOf(plan, i, t) <= MaxDatagram
  <2>1. /\ SizeOf(plan, i, l) \in Nat
        /\ SizeOf(plan, i, t) <= SizeOf(plan, i, l)
    BY <1>2, <1>5, <1>10, SizeGrows
  <2>2. t \in i..(Total - 1)
    BY <1>1, <1>2, <1>10
  <2>3. SizeOf(plan, i, t) \in Nat
    BY <1>2, <2>2, SizeGrows
  <2> QED BY <1>6, <2>1, <2>3, MaxDatagramIsNat
<1>12. ASSUME t < Made - 1 PROVE SizeOf(plan, i, t + 1) > MaxDatagram
  <2>1. t = l
    BY <1>7, <1>12, <1>10, <1>2
  <2>2. l + 1 \in i..(Total - 1) /\ ~(l + 1 <= l)
    BY <1>1, <1>2, <1>5, <1>12, <2>1
  <2>3. l + 1 \notin fitting
    BY <1>4, <2>2
  <2>4. ~(SizeOf(plan, i, l + 1) <= MaxDatagram)
    BY <1>1, <2>2, <2>3 DEF Fits
  <2>5. SizeOf(plan, i, l + 1) \in Nat
    BY <1>2, <2>2, SizeGrows
  <2> QED BY <2>1, <2>4, <2>5, MaxDatagramIsNat
<1> QED BY <1>9, <1>10, <1>11, <1>12 DEF Datagram

\* What is collected by going from i to next[i], until m.
Climbs(f, n, m, item, next) ==
    f = [i \in n..m |-> IF i = m THEN {} ELSE {item[i]} \cup f[next[i]]]

\* A recursion that climbs to m ends.
LEMMA ClimbExists ==
    ASSUME NEW m \in Nat, NEW n \in 0..m, NEW item, NEW next,
           \A i \in n..(m - 1) : next[i] \in (i + 1)..m
    PROVE  \E f : Climbs(f, n, m, item, next)
<1> DEFINE Climb(a) ==
               \E f : f = [i \in a..m |->
                              IF i = m THEN {} ELSE {item[i]} \cup f[next[i]]]
           Missing == {k \in 0..(m - n) : ~Climb(m - k)}
<1>1. ASSUME Missing # {} PROVE FALSE
  <2>0. Missing \in SUBSET Nat
    OBVIOUS
  <2> HIDE DEF Missing
  <2>1. PICK k \in Missing : \A j \in Missing : k <= j
    BY <2>0, <1>1, LeastNat
  <2> DEFINE a == m - k
  <2>2. k \in 0..(m - n) /\ a \in n..m /\ ~Climb(a)
    BY DEF Missing
  <2>3. CASE k = 0
    <3> DEFINE f == [i \in a..m |-> {}]
    <3>1. a = m
      BY <2>2, <2>3
    <3>2. f = [i \in a..m |-> IF i = m THEN {} ELSE {item[i]} \cup f[next[i]]]
      BY <3>1
    <3> QED BY <2>2, <3>2
  <2>4. CASE k # 0
    <3>1. k - 1 \in 0..(m - n) /\ ~(k <= k - 1) /\ m - (k - 1) = a + 1
      BY <2>2, <2>4
    <3>2. Climb(a + 1)
      <4>1. k - 1 \notin Missing
        BY <2>1, <3>1
      <4> QED BY <3>1, <4>1 DEF Missing
    <3> HIDE DEF a
    <3>3. PICK f : f = [i \in (a + 1)..m |->
                           IF i = m THEN {} ELSE {item[i]} \cup f[next[i]]]
      BY <3>2
    <3> DEFINE g == [i \in a..m |->
                        IF i = a THEN {item[a]} \cup f[next[a]] ELSE f[i]]
    <3>4. a \in Nat /\ a \in n..(m - 1)
      BY <2>2, <2>4 DEF a
    <3>5. \A i \in (a + 1)..m : g[i] = f[i]
      BY <3>4
    <3>6. ASSUME NEW i \in a..m
          PROVE  g[i] = IF i = m THEN {} ELSE {item[i]} \cup g[next[i]]
      <4>1. CASE i = a
        <5>1. next[a] \in (a + 1)..m /\ a # m
          BY <3>4
        <5>2. g[a] = {item[a]} \cup f[next[a]]
          BY <3>4
        <5> QED BY <3>5, <4>1, <5>1, <5>2
      <4>2. CASE i # a /\ i # m
        <5>1. i \in (a + 1)..m /\ i \in n..(m - 1)
          BY <3>4, <4>2
        <5>2. next[i] \in (i + 1)..m
          BY <5>1
        <5>3. next[i] \in (a + 1)..m
          BY <3>4, <5>1, <5>2
        <5>4. f[i] = {item[i]} \cup f[next[i]]
          BY <3>3, <4>2, <5>1
        <5>5. g[i] = f[i] /\ g[next[i]] = f[next[i]]
          BY <3>5, <5>1, <5>3
        <5> QED BY <4>2, <5>4, <5>5
      <4>3. CASE i # a /\ i = m
        <5>1. i \in (a + 1)..m
          BY <3>4, <4>3
        <5>2. f[i] = {}
          BY <3>3, <4>3, <5>1
        <5> QED BY <3>5, <4>3, <5>1, <5>2
      <4> QED BY <4>1, <4>2, <4>3
    <3>7. g = [i \in a..m |-> g[i]]
      OBVIOUS
    <3> HIDE DEF g
    <3>8. g = [i \in a..m |-> IF i = m THEN {} ELSE {item[i]} \cup g[next[i]]]
      BY <3>6, <3>7
    <3> QED BY <2>2, <3>8 DEF a
  <2> QED BY <2>3, <2>4
<1>2. m - n \in 0..(m - n) /\ m - (m - n) = n
  OBVIOUS
<1>3. Climb(m - (m - n))
  BY <1>1, <1>2
<1>4. Climb(n)
  BY <1>2, <1>3
<1>5. PICK f : f = [i \in n..m |->
                       IF i = m THEN {} ELSE {item[i]} \cup f[next[i]]]
  BY <1>4
<1> QED BY <1>5 DEF Climbs

\* An answer is made of filled datagrams that follow on one another.
LEMMA AnswerFacts ==
    ASSUME PlanTyped, NEW n \in 0..(Made - 1)
    PROVE  /\ Filled(n) \in SendDatagrams(n)
           /\ \A d \in SendDatagrams(n) : \E k \in n..(Made - 1) : d = Filled(k)
           /\ \A x \in n..(Made - 1) :
                  \E d \in SendDatagrams(n) :
                      /\ x \in d.from..d.to
                      /\ \A e \in SendDatagrams(n) : x \in e.from..e.to => e = d
<1> DEFINE item == [i \in n..(Made - 1) |-> Filled(i)]
           next == [i \in n..(Made - 1) |-> Filled(i).to + 1]
           b == CHOOSE b : b = [i \in n..Made |->
                    IF i = Made THEN {} ELSE {Filled(i)} \cup b[Filled(i).to + 1]]
           InOrder(i) ==
               /\ \A d \in b[i] : \E k \in i..(Made - 1) : d = Filled(k)
               /\ \A x \in i..(Made - 1) :
                      \E d \in b[i] :
                          /\ x \in d.from..d.to
                          /\ \A e \in b[i] : x \in e.from..e.to => e = d
           Wrong == {k \in 0..(Made - n) : ~InOrder(Made - k)}
<1>1. Made \in Nat /\ n \in Nat /\ n < Made
  BY MadeFacts
<1>2. ASSUME NEW i \in n..(Made - 1)
      PROVE  /\ i \in 0..(Made - 1)
             /\ Filled(i).from = i /\ Filled(i).to \in i..(Made - 1)
  <2>1. i \in 0..(Made - 1)
    BY <1>1
  <2> QED BY <2>1, FilledFacts
<1>3. \E f : f = [i \in n..Made |->
                     IF i = Made THEN {} ELSE {Filled(i)} \cup f[Filled(i).to + 1]]
  <2>1. \A i \in n..(Made - 1) : next[i] \in (i + 1)..Made
    BY <1>1, <1>2
  <2>2. \A i \in n..Made : i # Made => item[i] = Filled(i) /\ next[i] = Filled(i).to + 1
    BY <1>1
  <2> HIDE DEF item, next
  <2>3. PICK f : Climbs(f, n, Made, item, next)
    <3>1. n \in 0..Made
      BY <1>1
    <3> QED BY <1>1, <2>1, <3>1, ClimbExists
  <2>4. f = [i \in n..Made |->
                IF i = Made THEN {} ELSE {Filled(i)} \cup f[Filled(i).to + 1]]
    BY <2>2, <2>3 DEF Climbs
  <2> QED BY <2>4
<1>4. b = [i \in n..Made |->
              IF i = Made THEN {} ELSE {Filled(i)} \cup b[Filled(i).to + 1]]
  BY <1>3
<1>5. SendDatagrams(n) = b[n]
  BY <1>1 DEF SendDatagrams
<1> HIDE DEF b, item, next
<1>6. b[Made] = {} /\ \A i \in n..(Made - 1) : b[i] = {Filled(i)} \cup b[Filled(i).to + 1]
  <2>1. ASSUME NEW i \in n..Made
        PROVE  b[i] = IF i = Made THEN {} ELSE {Filled(i)} \cup b[Filled(i).to + 1]
    BY <1>4
  <2>2. Made \in n..Made /\ \A i \in n..(Made - 1) : i \in n..Made /\ i # Made
    BY <1>1
  <2> QED BY <2>1, <2>2
<1>7. ASSUME Wrong # {} PROVE FALSE
  <2>0. Wrong \in SUBSET Nat
    OBVIOUS
  <2> HIDE DEF Wrong
  <2>1. PICK k \in Wrong : \A j \in Wrong : k <= j
    BY <2>0, <1>7, LeastNat
  <2> DEFINE i == Made - k
  <2>2. k \in 0..(Made - n) /\ ~InOrder(i)
    BY DEF Wrong
  <2>3. k # 0
    <3>1. CASE k = 0
      <4>1. i = Made /\ i..(Made - 1) = {}
        BY <1>1, <3>1
      <4> QED BY <1>6, <2>2, <4>1
    <3> QED BY <3>1
  <2>4. i \in n..(Made - 1)
    BY <1>1, <2>2, <2>3
  <2> DEFINE f == Filled(i)
             r == f.to + 1
  <2>5. f.from = i /\ f.to \in i..(Made - 1) /\ r \in (i + 1)..Made
    BY <1>1, <1>2, <2>4
  <2>6. InOrder(r)
    <3>1. Made - r \in 0..(Made - n) /\ ~(k <= Made - r) /\ Made - (Made - r) = r
      BY <1>1, <2>2, <2>4, <2>5
    <3>2. Made - r \notin Wrong
      BY <2>1, <3>1
    <3> HIDE DEF r
    <3> QED BY <3>1, <3>2 DEF Wrong
  <2>7. b[i] = {f} \cup b[r]
    BY <1>6, <2>4
  <2> HIDE DEF f, i
  <2>8. ASSUME NEW d \in b[i] PROVE \E j \in i..(Made - 1) : d = Filled(j)
    <3>1. CASE d = f
      BY <2>4, <2>5, <3>1, <1>1 DEF f, i
    <3>2. CASE d \in b[r]
      <4>1. PICK j \in r..(Made - 1) : d = Filled(j)
        BY <2>6, <3>2
      <4>2. j \in i..(Made - 1)
        BY <1>1, <2>4, <2>5, <4>1
      <4> QED BY <4>1, <4>2
    <3> QED BY <2>7, <3>1, <3>2
  <2>9. \A d \in b[r] : d.from \in r..(Made - 1)
    <3>1. ASSUME NEW d \in b[r] PROVE d.from \in r..(Made - 1)
      <4>1. PICK j \in r..(Made - 1) : d = Filled(j)
        BY <2>6
      <4>2. j \in n..(Made - 1)
        BY <1>1, <2>4, <2>5, <4>1
      <4> QED BY <1>2, <4>1, <4>2
    <3> QED BY <3>1
  <2>10. ASSUME NEW x \in i..(Made - 1)
         PROVE  \E d \in b[i] : /\ x \in d.from..d.to
                                /\ \A e \in b[i] : x \in e.from..e.to => e = d
    <3>1. CASE x <= f.to
      <4>1. x \in f.from..f.to
        BY <1>1, <2>4, <2>5, <3>1
      <4>2. ASSUME NEW e \in b[r], x \in e.from..e.to PROVE FALSE
        <5>1. e.from \in r..(Made - 1)
          BY <2>9
        <5>2. e.from <= x
          BY <4>2, <5>1
        <5> QED BY <1>1, <2>4, <2>5, <3>1, <5>1, <5>2
      <4>3. \A e \in b[i] : x \in e.from..e.to => e = f
        BY <2>7, <4>2
      <4> QED BY <2>7, <4>1, <4>3
    <3>2. CASE ~(x <= f.to)
      <4>1. x \in r..(Made - 1)
        BY <1>1, <2>4, <2>5, <3>2
      <4>2. PICK d \in b[r] : /\ x \in d.from..d.to
                              /\ \A e \in b[r] : x \in e.from..e.to => e = d
        BY <2>6, <4>1
      <4>3. ~(x \in f.from..f.to)
        BY <1>1, <2>4, <2>5, <3>2
      <4>4. \A e \in b[i] : x \in e.from..e.to => e = d
        BY <2>7, <4>2, <4>3
      <4> QED BY <2>7, <4>2, <4>4
    <3> QED BY <3>1, <3>2
  <2>11. InOrder(i)
    BY <2>8, <2>10
  <2> QED BY <2>2, <2>11 DEF i
<1>8. InOrder(n)
  <2>1. Made - n \in 0..(Made - n) /\ Made - (Made - n) = n
    BY <1>1
  <2>2. Made - n \notin Wrong
    BY <1>7
  <2> QED BY <2>1, <2>2
<1>9. Filled(n) \in b[n]
  BY <1>1, <1>6
<1> QED BY <1>5, <1>8, <1>9

-----------------------------------------------------------------------------
(* What a client reads *)

LEMMA ReadsFacts ==
    ASSUME client \in {1, 2}, NEW n \in 0..MaxNumber
    PROVE  /\ Reads(n) = ReadsAs(client, n)
           /\ Reads(n) \in Nat
           /\ Reads(n) <= n \/ Reads(n) > MaxNumber
           /\ client = 2 => Reads(n) = n
<1>1. n \in Nat /\ 2 * n < Words /\ n \in Word /\ n <= MaxNumber /\ MaxNumber \in Nat
      /\ 2 * MaxNumber < Words /\ Words \in Nat
  BY MaxNumberAssumption, BaseAssumption DEF Word, Words
<1>2. Reads(n) = ReadsAs(client, n)
  BY DEF Reads, ReadsOf
<1>3. client = 2 => Reads(n) = n
  BY <1>1, <1>2, DwordInverts DEF ReadsAs
<1>4. CASE client = 2
  BY <1>1, <1>2, <1>3, <1>4
<1>5. CASE client = 1
  <2>1. Reads(n) = AsRead(n)
    BY <1>2, <1>5 DEF ReadsAs
  <2>2. AsRead(n) \in Nat /\ (AsRead(n) <= n \/ 2 * AsRead(n) >= Words)
    BY <1>1, ReadIsLessOrHuge
  <2> QED BY <1>1, <1>2, <1>3, <2>1, <2>2
<1> QED BY <1>4, <1>5

LEMMA ReadsApart ==
    ASSUME client \in {1, 2}, NEW m \in 0..MaxNumber, NEW n \in 0..MaxNumber,
           Reads(m) = Reads(n)
    PROVE  m = n
<1>1. m \in Word /\ n \in Word
  BY MaxNumberAssumption, BaseAssumption DEF Word, Words
<1>2. CASE client = 2
  BY <1>2, ReadsFacts
<1>3. CASE client = 1
  <2>1. Reads(m) = AsRead(m) /\ Reads(n) = AsRead(n)
    BY <1>3, ReadsFacts DEF ReadsAs
  <2> QED BY <1>1, <2>1, ReadingIsInjective
<1> QED BY <1>2, <1>3

LEMMA ReadsZero ==
    ASSUME client \in {1, 2}
    PROVE  Reads(0) = 0 /\ \A n \in 0..MaxNumber : Reads(n) = 0 => n = 0
<1>1. 0 \in 0..MaxNumber
  BY MaxNumberAssumption
<1>2. Reads(0) \in Nat /\ (Reads(0) <= 0 \/ Reads(0) > MaxNumber)
      /\ (client = 2 => Reads(0) = 0) /\ Reads(0) = ReadsAs(client, 0)
  BY <1>1, ReadsFacts
<1>3. ASSUME client = 1 PROVE Reads(0) = 0
  <2>1. 0 \in Word /\ IsPlain(0)
    <3>1. Shift(0) = 0 /\ 0 % Base = 0 /\ 0 < Base \div 2
      BY BaseAssumption DEF Shift
    <3>2. AddNumber(0) = <<0, 0, 0, 0>>
      BY <3>1 DEF AddNumber
    <3>3. 0 \in Word
      BY BaseAssumption DEF Word, Words
    <3> QED BY <3>1, <3>2, <3>3 DEF IsPlain
  <2>2. AsRead(0) = 0
    BY <2>1, ReadsPlainNumbers
  <2> QED BY <1>2, <1>3, <2>2 DEF ReadsAs
<1>4. Reads(0) = 0
  BY <1>2, <1>3
<1>5. \A n \in 0..MaxNumber : Reads(n) = 0 => n = 0
  BY <1>1, <1>4, ReadsApart
<1> QED BY <1>4, <1>5

\* The players that the client reads: the first ones, or all of them unless
\* it reads another length.
List == PlayersRead[client][plan]

LEMMA ListFacts ==
    ASSUME client \in {1, 2}, PlanTyped
    PROVE  /\ Len(Names(plan)) \in Nat /\ Len(Names(plan)) >= 2
           /\ Names(plan) = [i \in 1..Len(Names(plan)) |-> i]
           /\ Len(List) \in 0..Len(Names(plan))
           /\ List = SubSeq(Names(plan), 1, Len(List))
           /\ List = [i \in 1..Len(List) |-> i]
           /\ List \in Seq(Nat)
           /\ IsMisread \/ List = Names(plan)
<1> DEFINE g == plan
           n == Len(Names(g))
           length == ReadsAs(client, DataLength(g, Logs[g][1]))
           whole == {k \in DOMAIN Names(g) : length = 13 + NamesSize(g, k)}
           k == Max({0} \cup whole)
<1>1. plan \in DOMAIN Games
  BY DEF PlanTyped
<1>2. /\ n \in Nat /\ n >= 2
      /\ n = Len(Games[g].lengths)
      /\ Names(g) \in Seq(1..n) /\ DOMAIN Names(g) = 1..n
      /\ \A i \in 1..n : Names(g)[i] = i
      /\ \A i \in 0..n : NamesSize(g, i) \in Nat
  BY <1>1, NamesSizeGrows
<1>3. Names(g) = [i \in 1..n |-> i]
  BY <1>2 DEF Names
<1>4. List = SubSeq(Names(g), 1, k)
  BY <1>1 DEF List, PlayersRead
<1>5. {0} \cup whole \in SUBSET (0..n)
  BY <1>2
<1>6. k \in {0} \cup whole /\ \A i \in {0} \cup whole : i <= k
  <2> HIDE DEF whole
  <2> QED BY <1>2, <1>5, MaxOfNats
<1>7. k \in 0..n
  BY <1>5, <1>6
<1>8. IsMisread \/ k = n
  <2>1. SUFFICES ASSUME ~IsMisread PROVE k = n
    OBVIOUS
  <2>2. /\ Logs[g][1] = [kind |-> "NEW_GAME", board |-> Games[g].board, players |-> Names(g)]
        /\ 1 \in DOMAIN Logs[g] /\ Event(0) = Logs[g][1]
    BY <1>1, LogOfGame DEF Event
  <2>3. DataLength(g, Logs[g][1]) = 13 + NamesSize(g, n)
    <3>1. NamesSize(g, n) \in Nat
      BY <1>2
    <3>2. Logs[g][1].kind = "NEW_GAME" /\ Logs[g][1].players = Names(g)
      BY <2>2
    <3>3. DataLength(g, Logs[g][1]) = 5 + (8 + NamesSize(g, n))
      BY <3>2 DEF DataLength
    <3> QED BY <3>1, <3>3
  <2>4. DataLength(g, Logs[g][1]) \in Word
    <3>1. NamesSize(g, n) \in Nat
      BY <1>2
    <3>2. 4 + (DataLength(g, Logs[g][1]) + 8) <= MaxDatagram
      BY <1>1, <2>2, DatagramAssumption DEF EventSize
    <3>3. Words \in Nat
      BY BaseAssumption DEF Words
    <3> QED BY <2>3, <3>1, <3>2, <3>3, MaxDatagramIsNat DEF Word
  <2>5. length = DataLength(g, Logs[g][1])
    <3>1. CASE client = 2
      BY <2>4, <3>1, DwordInverts DEF ReadsAs
    <3>2. CASE client = 1
      <4>1. IsPlain(DataLength(g, Logs[g][1]))
        BY <2>1, <2>2, <3>2 DEF IsMisread
      <4> QED BY <2>4, <3>2, <4>1, ReadsPlainNumbers DEF ReadsAs
    <3> QED BY <3>1, <3>2
  <2>6. n \in whole
    BY <1>2, <2>3, <2>5
  <2> HIDE DEF whole, k
  <2> QED BY <1>2, <1>6, <1>7, <2>6
<1> HIDE DEF k, n
<1>9. /\ Len(List) = k
      /\ \A i \in 1..k : List[i] = i
      /\ List \in Seq(Nat)
      /\ DOMAIN List = 1..k
  <2>1. Names(g) \in Seq(Nat) /\ Len(Names(g)) = n
    BY <1>2, <1>3 DEF n
  <2>2. SubSeq(Names(g), 1, k) = [i \in 1..k |-> Names(g)[i]]
    BY <1>2, <1>7, <2>1
  <2>3. SubSeq(Names(g), 1, k) = [i \in 1..k |-> i]
    BY <1>2, <1>7, <2>2
  <2>4. k \in Nat
    BY <1>2, <1>7
  <2> QED BY <1>4, <2>3, <2>4
<1>10. List = [i \in 1..k |-> i]
  BY <1>9
<1>11. k = n => List = Names(g)
  BY <1>3, <1>10
<1> QED BY <1>2, <1>3, <1>4, <1>7, <1>8, <1>9, <1>10, <1>11 DEF n

LEMMA EventFacts ==
    ASSUME PlanTyped
    PROVE  /\ Event(0) = [kind |-> "NEW_GAME", board |-> Games[plan].board,
                          players |-> Names(plan)]
           /\ Games[plan].board[1] \in 1..MaxNumber
           /\ Games[plan].board[2] \in 1..MaxNumber
           /\ \A n \in 1..(Total - 2) : Event(n) \in Bodies(plan)
           /\ Event(Total - 1) = [kind |-> "GAME_OVER"]
<1>1. Total \in Nat /\ plan \in DOMAIN Games /\ Total = Len(Games[plan].body) + 2
  BY MadeFacts
<1>2. /\ Logs[plan][1] = [kind |-> "NEW_GAME", board |-> Games[plan].board,
                          players |-> Names(plan)]
      /\ \A i \in 2..(Total - 1) : Logs[plan][i] \in Bodies(plan)
      /\ Logs[plan][Total] = [kind |-> "GAME_OVER"]
  BY <1>1, LogOfGame
<1>3. Games[plan].board[1] \in 1..MaxNumber /\ Games[plan].board[2] \in 1..MaxNumber
  BY <1>1, GameFacts
<1>4. Event(0) = Logs[plan][1] /\ Event(Total - 1) = Logs[plan][Total]
  BY <1>1 DEF Event
<1>5. \A n \in 1..(Total - 2) : n + 1 \in 2..(Total - 1) /\ Event(n) = Logs[plan][n + 1]
  BY <1>1 DEF Event
<1> QED BY <1>2, <1>3, <1>4, <1>5

\* The fields of moves and eliminations.
LEMMA BodyFacts ==
    ASSUME PlanTyped, NEW e \in Bodies(plan)
    PROVE  /\ e.kind \in {"PIXEL", "PLAYER_ELIMINATED"}
           /\ e.player \in Nat
           /\ e.kind = "PIXEL" =>
                  /\ e.player < Len(Names(plan))
                  /\ e.at[1] \in 0..(Games[plan].board[1] - 1)
                  /\ e.at[2] \in 0..(Games[plan].board[2] - 1)
<1>1. Len(Names(plan)) = Len(Games[plan].lengths) /\ Len(Names(plan)) \in Nat
  BY NamesSizeGrows, GameFacts DEF PlanTyped
<1> QED BY <1>1 DEF Bodies

\* The client, but for what it has written.
ClientTyped ==
    /\ client \in {1, 2}
    /\ PlanTyped
    /\ nextExpectedEventNo \in 0..Made
    /\ known \in {<<>>, List}
    /\ nextExpectedEventNo > 0 \/ known # <<>> => known = List /\ Len(List) >= 2
    /\ runs \in BOOLEAN

\* A datagram that the server may have sent.
Sent(d) ==
    /\ \E i \in 0..(Made - 1) : \E j \in i..(Made - 1) : d = Datagram(i, j)
    /\ d.size <= MaxDatagram

\* The first event that is not taken.
Stop(d) == Min(NotTaken(d, PlayersOf(d)))

\* What a client takes of a datagram: events that bear the numbers it waits
\* for, all about players it knows.
LEMMA TakenFacts ==
    ASSUME ClientTyped, NEW d, Sent(d)
    PROVE  /\ d.from \in 0..(Made - 1) /\ d.to \in d.from..(Made - 1)
           /\ Stop(d) \in d.from..(d.to + 1)
           /\ \A k \in d.from..(Stop(d) - 1) :
                  IsNext(d, k, PlayersOf(d)) /\ ~IsRefused(Event(k), PlayersOf(d))
           /\ Stop(d) <= d.to =>
                  ~IsNext(d, Stop(d), PlayersOf(d)) \/ IsRefused(Event(Stop(d)), PlayersOf(d))
<1>1. Made \in 1..Total /\ Total \in Nat
  BY MadeFacts DEF ClientTyped
<1>2. PICK i \in 0..(Made - 1) : \E j \in i..(Made - 1) : d = Datagram(i, j)
  BY DEF Sent
<1>3. PICK j \in i..(Made - 1) : d = Datagram(i, j)
  BY <1>2
<1>4. d.from = i /\ d.to = j
  BY <1>3 DEF Datagram
<1> DEFINE left == NotTaken(d, PlayersOf(d))
<1>5. \A k : k \in left <=>
          \/ k = d.to + 1
          \/ /\ k \in d.from..d.to
             /\ ~IsNext(d, k, PlayersOf(d)) \/ IsRefused(Event(k), PlayersOf(d))
  BY DEF NotTaken
<1> HIDE DEF left
<1>6. left \in SUBSET Nat /\ left # {}
  BY <1>1, <1>4, <1>5
<1>7. Min(left) \in left /\ \A k \in left : Min(left) <= k
  BY <1>6, MinOfNats
<1>8. Stop(d) = Min(left)
  BY DEF Stop, left
<1>9. Stop(d) \in d.from..(d.to + 1)
  BY <1>1, <1>4, <1>5, <1>7, <1>8
<1>10. ASSUME NEW k \in d.from..(Stop(d) - 1)
       PROVE  IsNext(d, k, PlayersOf(d)) /\ ~IsRefused(Event(k), PlayersOf(d))
  <2>1. ~(Stop(d) <= k) /\ k \in d.from..d.to
    BY <1>1, <1>4, <1>9
  <2>2. k \notin left
    BY <1>7, <1>8, <2>1
  <2> QED BY <1>5, <2>1, <2>2
<1>11. Stop(d) <= d.to =>
           ~IsNext(d, Stop(d), PlayersOf(d)) \/ IsRefused(Event(Stop(d)), PlayersOf(d))
  <2>1. Stop(d) <= d.to => Stop(d) # d.to + 1
    BY <1>1, <1>4, <1>9
  <2> QED BY <1>5, <1>7, <1>8, <2>1
<1> QED BY <1>1, <1>4, <1>9, <1>10, <1>11

\* A client for which an event of a datagram is the next one knows the players.
LEMMA NextIsKnown ==
    ASSUME ClientTyped, NEW d, Sent(d), NEW i \in d.from..d.to,
           IsNext(d, i, PlayersOf(d)),
           i > d.from => IsNext(d, d.from, PlayersOf(d))
    PROVE  /\ PlayersOf(d) = List
           /\ d.from = 0 <=> nextExpectedEventNo = 0
           /\ Reads(d.from) = nextExpectedEventNo
           /\ nextExpectedEventNo <= d.from
<1>1. /\ client \in {1, 2} /\ Made \in 1..Total /\ Total \in Nat /\ Total <= MaxNumber
      /\ MaxNumber \in Nat /\ nextExpectedEventNo \in 0..Made
  BY MadeFacts, MaxNumberAssumption DEF ClientTyped
<1>2. d.from \in 0..(Made - 1) /\ d.to \in d.from..(Made - 1)
  BY TakenFacts
<1>3. IsNext(d, d.from, PlayersOf(d))
  <2>1. i = d.from \/ i > d.from
    BY <1>1, <1>2
  <2> QED BY <2>1
<1>4. Reads(d.from) = nextExpectedEventNo
  BY <1>1, <1>2, <1>3 DEF IsNext
<1>5. d.from \in 0..MaxNumber
  BY <1>1, <1>2
<1>6. d.from = 0 <=> nextExpectedEventNo = 0
  BY <1>1, <1>4, <1>5, ReadsZero
<1>7. nextExpectedEventNo <= d.from
  <2>1. Reads(d.from) <= d.from \/ Reads(d.from) > MaxNumber
    BY <1>1, <1>5, ReadsFacts
  <2> QED BY <1>1, <1>4, <2>1
<1>8. PlayersOf(d) = List
  <2>1. CASE d.from = 0
    BY <1>6, <2>1 DEF PlayersOf, List
  <2>2. CASE d.from # 0
    <3>1. nextExpectedEventNo > 0
      BY <1>1, <1>6, <2>2
    <3> QED BY <2>2, <3>1 DEF PlayersOf, ClientTyped
  <2> QED BY <2>1, <2>2
<1> QED BY <1>4, <1>6, <1>7, <1>8

\* A client that takes something of a datagram.
LEMMA TakingFacts ==
    ASSUME ClientTyped, NEW d, Sent(d), Stop(d) # d.from
    PROVE  /\ PlayersOf(d) = List /\ Len(List) >= 2
           /\ d.from = 0 <=> nextExpectedEventNo = 0
           /\ Reads(d.from) = nextExpectedEventNo
           /\ nextExpectedEventNo + Stop(d) - d.from \in 1..Stop(d)
           /\ Stop(d) \in 1..Made /\ d.from < Stop(d)
           /\ \A k \in d.from..(Stop(d) - 1) : ~IsRefused(Event(k), List)
<1>1. /\ client \in {1, 2} /\ Made \in 1..Total /\ Total \in Nat
      /\ nextExpectedEventNo \in 0..Made
  BY MadeFacts DEF ClientTyped
<1>2. /\ d.from \in 0..(Made - 1) /\ d.to \in d.from..(Made - 1)
      /\ Stop(d) \in d.from..(d.to + 1)
      /\ \A k \in d.from..(Stop(d) - 1) :
             IsNext(d, k, PlayersOf(d)) /\ ~IsRefused(Event(k), PlayersOf(d))
  BY TakenFacts
<1>3. d.from \in d.from..(Stop(d) - 1) /\ d.from \in d.from..d.to /\ d.from < Stop(d)
  BY <1>1, <1>2
<1>4. IsNext(d, d.from, PlayersOf(d)) /\ ~(d.from > d.from)
  BY <1>1, <1>2, <1>3
<1>5. /\ PlayersOf(d) = List
      /\ d.from = 0 <=> nextExpectedEventNo = 0
      /\ Reads(d.from) = nextExpectedEventNo
      /\ nextExpectedEventNo <= d.from
  BY <1>3, <1>4, NextIsKnown
<1>6. Len(List) >= 2
  <2>1. CASE d.from = 0
    <3>1. ~IsRefused(Event(0), List)
      BY <1>2, <1>3, <1>5, <2>1
    <3>2. Event(0).kind = "NEW_GAME"
      BY EventFacts DEF ClientTyped
    <3>3. Len(List) \in Nat
      <4>1. List \in Seq(Nat)
        BY ListFacts DEF ClientTyped
      <4> QED BY <4>1
    <3> QED BY <3>1, <3>2, <3>3 DEF IsRefused
  <2>2. CASE d.from # 0
    <3>1. nextExpectedEventNo > 0
      BY <1>1, <1>5, <2>2
    <3> QED BY <3>1 DEF ClientTyped
  <2> QED BY <2>1, <2>2
<1>7. nextExpectedEventNo + Stop(d) - d.from \in 1..Stop(d) /\ Stop(d) \in 1..Made
  BY <1>1, <1>2, <1>3, <1>5
<1>8. \A k \in d.from..(Stop(d) - 1) : ~IsRefused(Event(k), List)
  BY <1>2, <1>5
<1> QED BY <1>3, <1>5, <1>6, <1>7, <1>8

\* All that a client receives was sent.
LEMMA ReceivedWasSent ==
    ASSUME ClientTyped, ReceiveAnswer \/ ReceiveOther
    PROVE  \E d : Sent(d) /\ Receive(d)
<1>1. /\ Made \in 1..Total /\ Total \in Nat /\ Total <= MaxNumber
      /\ nextExpectedEventNo \in 0..Made /\ PlanTyped
  BY MadeFacts DEF ClientTyped
<1>2. ASSUME NEW i \in 0..(Made - 1) PROVE Sent(Filled(i)) /\ Sent(Datagram(i, i))
  <2>1. /\ Filled(i) = Datagram(i, Filled(i).to) /\ Filled(i).to \in i..(Made - 1)
        /\ Filled(i).size <= MaxDatagram
    BY <1>1, FilledFacts
  <2>2. i \in i..(Made - 1) /\ i \in 0..(Total - 1) /\ i \in i..(Total - 1)
    BY <1>1
  <2>3. Datagram(i, i).size <= MaxDatagram
    BY <1>1, <2>2, SizeGrows DEF Datagram
  <2> QED BY <2>1, <2>2, <2>3 DEF Sent
<1>3. ASSUME NEW n \in Nat, NEW d \in SendDatagrams(n) PROVE Sent(d)
  <2>1. n \in 0..(Made - 1)
    <3>1. n < Made
      BY <1>3 DEF SendDatagrams
    <3> QED BY <1>1, <3>1
  <2>2. PICK k \in n..(Made - 1) : d = Filled(k)
    BY <1>1, <2>1, AnswerFacts
  <2>3. k \in 0..(Made - 1)
    BY <1>1, <2>1
  <2> QED BY <1>2, <2>2, <2>3
<1>4. CASE ReceiveAnswer
  <2>1. PICK d \in Answer(nextExpectedEventNo) : Receive(d)
    BY <1>4 DEF ReceiveAnswer
  <2>2. AsRead(nextExpectedEventNo) \in Nat
    <3>1. nextExpectedEventNo \in Nat /\ 2 * nextExpectedEventNo < Words
      <4>1. Words \in Nat
        BY BaseAssumption DEF Words
      <4> QED BY <1>1, <4>1, MaxNumberAssumption
    <3> QED BY <3>1, ReadIsLessOrHuge
  <2> QED BY <1>3, <2>1, <2>2 DEF Answer
<1>5. CASE ReceiveOther
  <2>1. CASE \E i \in 0..(Made - 1) : Receive(Datagram(i, i))
    BY <1>2, <2>1
  <2>2. CASE \E d \in SendDatagrams(0) : Receive(d)
    BY <1>3, <2>2
  <2> QED BY <1>5, <2>1, <2>2 DEF ReceiveOther
<1> QED BY <1>4, <1>5

\* What a step may be.
LEMMA StepKinds ==
    ASSUME ClientTyped, [Next]_vars
    PROVE  \/ PlayTurn
           \/ \E d : Sent(d) /\ Receive(d)
           \/ WriteLine
           \/ LoseGui
           \/ GuiNext
           \/ UNCHANGED vars
<1>1. CASE ReceiveAnswer \/ ReceiveOther
  BY <1>1, ReceivedWasSent
<1> QED BY <1>1 DEF Next

\* Events that a client may tell its GUI of, and the lines for them.
Tellable == {n \in 0..(Total - 1) : ~IsRefused(Event(n), List)}

Told == {Line(Event(n), List) : n \in Tellable}

\* The part of the list for which there is room.
Listed == SubSeq(List, 1, Min({Len(List), MaxPlayer}))

\* The first n events, and those of them that show on a list.
FirstEvents(n) == {Event(i) : i \in 0..(n - 1)}

OfListed(n, kind) == {e \in FirstEvents(n) : e.kind = kind /\ e.player < Len(Listed)}

\* Portrait() of a client that knows the list.
Picture(n) ==
    IF n = 0 THEN Blank
    ELSE [board |-> ReadsBoth(Event(0).board),
          players |-> Listed,
          marked |-> {e.player + 1 : e \in OfListed(n, "PLAYER_ELIMINATED")},
          drawn |-> {<<e.player + 1, ReadsBoth(e.at)>> : e \in OfListed(n, "PIXEL")}]

\* One game, read by one client.
LEMMA SameGame ==
    ASSUME client' = client, plan' = plan
    PROVE  /\ List' = List /\ Total' = Total /\ Listed' = Listed
           /\ Tellable' = Tellable /\ Told' = Told
           /\ IsMisread' = IsMisread
           /\ \A n : Picture(n)' = Picture(n)
           /\ \A n : Reads(n)' = Reads(n)
           /\ \A n : Line(Event(n), List)' = Line(Event(n), List)
<1>1. List' = List /\ Total' = Total
  BY DEF List, Total
<1>2. Listed' = Listed
  BY <1>1 DEF Listed
<1>3. \A n : Reads(n)' = Reads(n)
  BY DEF Reads
<1>4. \A n : Event(n)' = Event(n)
  BY DEF Event
<1>5. \A e : IsRefused(e, List)' = IsRefused(e, List)
  BY <1>1, <1>3, <1>4 DEF IsRefused, IsOnBoard
<1>6. \A e : Line(e, List)' = Line(e, List)
  BY <1>1, <1>3 DEF Line, ReadsBoth, Named
<1>7. Tellable' = Tellable
  BY <1>1, <1>4, <1>5 DEF Tellable
<1>8. Told' = Told
  BY <1>4, <1>6, <1>7 DEF Told
<1>9. \A n : Picture(n)' = Picture(n)
  BY <1>2, <1>3, <1>4 DEF Picture, OfListed, FirstEvents, ReadsBoth
<1>10. IsMisread' = IsMisread
  BY <1>4 DEF IsMisread
<1>11. \A n : Line(Event(n), List)' = Line(Event(n), List)
  BY <1>4, <1>6
<1> QED BY <1>1, <1>2, <1>3, <1>7, <1>8, <1>9, <1>10, <1>11

LEMMA PlayTurnFacts ==
    ASSUME ClientTyped, PlayTurn
    PROVE  /\ PlanTyped' /\ Made' \in Nat /\ Made <= Made'
           /\ client' = client /\ plan' = plan
<1>1. /\ client' = client /\ plan' = plan /\ turn' = turn + 1
      /\ turn < Len(Games[plan].turns)
  BY DEF PlayTurn, clientVars
<1>2. plan \in DOMAIN Games /\ turn \in DOMAIN Games[plan].turns
  BY DEF ClientTyped, PlanTyped
<1> DEFINE t == Games[plan].turns
<1>3. /\ t \in Seq(1..(Len(Games[plan].body) + 2))
      /\ \A i \in 2..Len(t) : t[i - 1] <= t[i]
      /\ Len(Games[plan].body) + 2 \in Nat
  BY <1>2, GameFacts, LogOfGame
<1> HIDE DEF t
<1>4. turn \in 1..Len(t) /\ turn + 1 \in 2..Len(t) /\ (turn + 1) - 1 = turn
  BY <1>1, <1>2, <1>3 DEF t
<1>5. t[turn] <= t[turn + 1] /\ t[turn + 1] \in Nat /\ turn + 1 \in DOMAIN t
  BY <1>3, <1>4
<1> QED BY <1>1, <1>2, <1>5 DEF PlanTyped, Made, t

\* The round of a client over a datagram.
LEMMA ReceiveKinds ==
    ASSUME NEW d, Receive(d)
    PROVE  /\ UNCHANGED <<guiVars, client, plan, turn>>
           /\ runs /\ out = <<>> /\ gui = "running"
           /\ \/ ReceiveTooLong(d)
              \/ /\ client = 2 => d.size <= MaxUdp
                 /\ nextExpectedEventNo' =
                        IF Stop(d) = d.from THEN nextExpectedEventNo
                        ELSE IF client = 1 /\ Stop(d) = Total THEN 0
                        ELSE nextExpectedEventNo + Stop(d) - d.from
                 /\ known' = IF Stop(d) > d.from THEN PlayersOf(d) ELSE known
                 /\ runs' = ~EndsAt(d, Stop(d), PlayersOf(d))
                 /\ out' = IF client = 1 /\ ~runs' THEN <<>>
                           ELSE Lines(d.from, Stop(d), PlayersOf(d))
  BY DEF Receive, ReceiveEvents, IsWaiting, Stop

LEMMA ClientTypedStep == ClientTyped /\ [Next]_vars => ClientTyped'
<1> SUFFICES ASSUME ClientTyped, [Next]_vars PROVE ClientTyped'
  OBVIOUS
<1>1. /\ client \in {1, 2} /\ PlanTyped /\ Made \in 1..Total /\ Total \in Nat
      /\ nextExpectedEventNo \in 0..Made /\ known \in {<<>>, List}
      /\ nextExpectedEventNo > 0 \/ known # <<>> => known = List /\ Len(List) >= 2
      /\ runs \in BOOLEAN
  BY MadeFacts DEF ClientTyped
<1>2. CASE PlayTurn
  <2>1. PlanTyped' /\ Made' \in Nat /\ Made <= Made' /\ client' = client /\ plan' = plan
    BY <1>2, PlayTurnFacts
  <2>2. List' = List
    BY <2>1, SameGame
  <2>3. UNCHANGED <<nextExpectedEventNo, known, runs>>
    BY <1>2 DEF PlayTurn, clientVars
  <2>4. nextExpectedEventNo \in 0..Made'
    BY <1>1, <2>1
  <2> QED BY <1>1, <2>1, <2>2, <2>3, <2>4 DEF ClientTyped
<1>3. ASSUME NEW d, Sent(d), Receive(d) PROVE ClientTyped'
  <2>1. UNCHANGED <<client, plan, turn>>
    BY <1>3, ReceiveKinds
  <2>2. List' = List /\ Made' = Made /\ PlanTyped'
    BY <1>1, <2>1, SameGame DEF Made, PlanTyped
  <2>3. CASE ReceiveTooLong(d)
    BY <1>1, <2>1, <2>2, <2>3 DEF ReceiveTooLong, ClientTyped
  <2>4. CASE ~ReceiveTooLong(d)
    <3>1. /\ nextExpectedEventNo' =
                 IF Stop(d) = d.from THEN nextExpectedEventNo
                 ELSE IF client = 1 /\ Stop(d) = Total THEN 0
                 ELSE nextExpectedEventNo + Stop(d) - d.from
          /\ known' = IF Stop(d) > d.from THEN PlayersOf(d) ELSE known
          /\ runs' = ~EndsAt(d, Stop(d), PlayersOf(d))
      BY <1>3, <2>4, ReceiveKinds
    <3>2. /\ d.from \in 0..(Made - 1) /\ d.to \in d.from..(Made - 1)
          /\ Stop(d) \in d.from..(d.to + 1)
      BY <1>3, TakenFacts
    <3>3. runs' \in BOOLEAN
      BY <3>1 DEF EndsAt
    <3>4. CASE Stop(d) = d.from
      <4>1. nextExpectedEventNo' = nextExpectedEventNo /\ known' = known
        BY <1>1, <3>1, <3>2, <3>4
      <4> QED BY <1>1, <2>1, <2>2, <3>3, <4>1 DEF ClientTyped
    <3>5. CASE Stop(d) # d.from
      <4>1. /\ PlayersOf(d) = List /\ Len(List) >= 2
            /\ nextExpectedEventNo + Stop(d) - d.from \in 1..Stop(d)
            /\ Stop(d) \in 1..Made /\ d.from < Stop(d)
        BY <1>3, <3>5, TakingFacts
      <4>2. known' = List
        BY <1>1, <3>1, <3>2, <4>1
      <4>3. nextExpectedEventNo' \in 0..Made
        <5>1. nextExpectedEventNo + Stop(d) - d.from \in 0..Made
          BY <1>1, <4>1
        <5> QED BY <1>1, <3>1, <3>5, <5>1
      <4> QED BY <1>1, <2>1, <2>2, <3>3, <4>1, <4>2, <4>3 DEF ClientTyped
    <3> QED BY <3>4, <3>5
  <2> QED BY <2>3, <2>4
<1>4. CASE WriteLine \/ LoseGui \/ GuiNext \/ UNCHANGED vars
  <2>1. UNCHANGED <<client, plan, turn, nextExpectedEventNo, known>> /\ runs' \in BOOLEAN
    BY <1>1, <1>4 DEF WriteLine, LoseGui, GuiNext, vars, clientVars
  <2>2. List' = List /\ Made' = Made /\ PlanTyped'
    BY <1>1, <2>1, SameGame DEF Made, PlanTyped
  <2> QED BY <1>1, <2>1, <2>2 DEF ClientTyped
<1> QED BY <1>2, <1>3, <1>4, StepKinds

LEMMA ClientTypedInit == Init => ClientTyped
<1> SUFFICES ASSUME Init PROVE ClientTyped
  OBVIOUS
<1>1. /\ client \in {1, 2} /\ plan \in DOMAIN Games /\ turn = 1
      /\ nextExpectedEventNo = 0 /\ known = <<>> /\ runs = TRUE
  BY DEF Init
<1>2. 1 \in DOMAIN Games[plan].turns
  <2>1. /\ Games[plan].turns \in Seq(1..(Len(Games[plan].body) + 2))
        /\ Games[plan].turns # <<>>
    BY <1>1, GameFacts
  <2> QED BY <2>1
<1>3. PlanTyped
  BY <1>1, <1>2 DEF PlanTyped
<1>4. 0 \in 0..Made
  BY <1>3, MadeFacts
<1> QED BY <1>1, <1>3, <1>4 DEF ClientTyped

\* The datagrams of an answer hold every event once, in order, and are as long
\* as they may be (sendDatagrams()).
LEMMA AnswersArePacked == ClientTyped => PackedInOrder
<1> SUFFICES ASSUME ClientTyped PROVE PackedInOrder
  OBVIOUS
<1>1. /\ PlanTyped /\ Made \in 1..Total /\ Total \in Nat /\ Total <= MaxNumber
      /\ nextExpectedEventNo \in 0..Made
  BY MadeFacts DEF ClientTyped
<1>2. AsRead(nextExpectedEventNo) \in Nat
  <2>1. nextExpectedEventNo \in Nat /\ 2 * nextExpectedEventNo < Words
    <3>1. Words \in Nat
      BY BaseAssumption DEF Words
    <3> QED BY <1>1, <3>1, MaxNumberAssumption
  <2> QED BY <2>1, ReadIsLessOrHuge
<1>3. SUFFICES ASSUME NEW n \in {0, AsRead(nextExpectedEventNo)}, n < Made
               PROVE  LET ds == SendDatagrams(n)
                      IN  /\ \A i \in n..(Made - 1) :
                                 Cardinality({d \in ds : i \in d.from..d.to}) = 1
                          /\ \A d \in ds :
                                 /\ d.size <= MaxDatagram
                                 /\ d.from >= n /\ d.to < Made
                                 /\ d.to < Made - 1 =>
                                        SizeOf(plan, d.from, d.to + 1) > MaxDatagram
  BY DEF PackedInOrder
<1> DEFINE ds == SendDatagrams(n)
<1>4. n \in 0..(Made - 1)
  BY <1>1, <1>2, <1>3
<1>5. ASSUME NEW i \in n..(Made - 1)
      PROVE  Cardinality({d \in ds : i \in d.from..d.to}) = 1
  <2>1. PICK d \in ds : /\ i \in d.from..d.to
                        /\ \A e \in ds : i \in e.from..e.to => e = d
    BY <1>1, <1>4, AnswerFacts
  <2>2. {e \in ds : i \in e.from..e.to} = {d}
    BY <2>1
  <2> QED BY <2>2, FS_Singleton
<1>6. ASSUME NEW d \in ds
      PROVE  /\ d.size <= MaxDatagram
             /\ d.from >= n /\ d.to < Made
             /\ d.to < Made - 1 => SizeOf(plan, d.from, d.to + 1) > MaxDatagram
  <2>1. PICK k \in n..(Made - 1) : d = Filled(k)
    BY <1>1, <1>4, AnswerFacts
  <2>2. k \in 0..(Made - 1)
    BY <1>1, <1>4
  <2>3. /\ d.from = k /\ d.to \in k..(Made - 1) /\ d.size <= MaxDatagram
        /\ d.to < Made - 1 => SizeOf(plan, k, d.to + 1) > MaxDatagram
    BY <1>1, <2>1, <2>2, FilledFacts
  <2> QED BY <1>1, <1>4, <2>1, <2>3
<1> QED BY <1>5, <1>6

\* An answer carries the log from the event asked for on, every event once, in
\* datagrams that fit and that are as full as they can be (sendDatagrams()).
THEOREM PackingCorrect == Spec => []PackedInOrder
<1>1. Init => ClientTyped
  BY ClientTypedInit
<1>2. ClientTyped /\ [Next]_vars => ClientTyped'
  BY ClientTypedStep
<1>3. ClientTyped => PackedInOrder
  BY AnswersArePacked
<1> QED BY <1>1, <1>2, <1>3, PTL DEF Spec

-----------------------------------------------------------------------------
(* What ends a client *)

\* When a datagram is too long for client 2, so is one that is filled.
LEMMA LongSent ==
    ASSUME ClientTyped, NEW d, Sent(d), client = 2, d.size > MaxUdp
    PROVE  IsTooLong
<1>1. PlanTyped /\ Made \in 1..Total /\ Total \in Nat
  BY MadeFacts DEF ClientTyped
<1>2. PICK i \in 0..(Made - 1) : \E j \in i..(Made - 1) : d = Datagram(i, j)
  BY DEF Sent
<1>3. PICK j \in i..(Made - 1) : d = Datagram(i, j)
  BY <1>2
<1>4. d.size = SizeOf(plan, i, j) /\ d.size <= MaxDatagram
  BY <1>3 DEF Datagram, Sent
<1> DEFINE t == Filled(i).to
<1>5. /\ t \in i..(Made - 1) /\ Filled(i).size = SizeOf(plan, i, t)
      /\ t < Made - 1 => SizeOf(plan, i, t + 1) > MaxDatagram
  BY <1>1, FilledFacts
<1>6. Filled(i) \in SendDatagrams(i)
  BY <1>1, AnswerFacts
<1> HIDE DEF t
<1>7. /\ i \in 0..(Total - 1) /\ i \in Nat
      /\ j \in i..(Total - 1) /\ t \in i..(Total - 1)
  BY <1>1, <1>5
<1>8. j <= t
  <2>1. SUFFICES ASSUME j > t PROVE FALSE
    BY <1>7
  <2>2. t + 1 \in i..j /\ t < Made - 1
    BY <1>1, <1>3, <1>5, <1>7, <2>1
  <2>3. SizeOf(plan, i, t + 1) <= SizeOf(plan, i, j) /\ SizeOf(plan, i, j) \in Nat
    BY <1>1, <1>7, <2>2, SizeGrows
  <2>4. SizeOf(plan, i, t + 1) \in Nat
    <3>1. t + 1 \in i..(Total - 1)
      BY <1>1, <1>7, <2>2
    <3> QED BY <1>1, <1>7, <3>1, SizeGrows
  <2> QED BY <1>4, <1>5, <2>2, <2>3, <2>4, MaxDatagramIsNat
<1>9. Filled(i).size > MaxUdp
  <2>1. j \in i..t
    BY <1>7, <1>8
  <2>2. /\ SizeOf(plan, i, j) <= SizeOf(plan, i, t)
        /\ SizeOf(plan, i, t) \in Nat
    BY <1>1, <1>7, <2>1, SizeGrows
  <2>3. SizeOf(plan, i, j) \in Nat
    BY <1>1, <1>7, SizeGrows
  <2> QED BY <1>4, <1>5, <2>2, <2>3, MaxDatagramIsNat
<1> QED BY <1>2, <1>6, <1>9 DEF IsTooLong

\* A client that has read NEW_GAME right refuses no event of the game, unless
\* that is about nobody in it.
LEMMA EventsPass ==
    ASSUME ClientTyped, List = Names(plan), NEW i \in 0..(Total - 1),
           Event(i).kind = "PLAYER_ELIMINATED" =>
               ~(Event(i).player >= Len(Names(plan)))
    PROVE  ~IsRefused(Event(i), List)
<1>1. /\ client \in {1, 2} /\ PlanTyped /\ Total \in Nat /\ Total >= 2
  BY MadeFacts DEF ClientTyped
<1>2. Len(List) \in Nat /\ Len(List) >= 2
  BY <1>1, ListFacts
<1>3. CASE i = 0
  BY <1>1, <1>2, <1>3, EventFacts DEF IsRefused
<1>4. CASE i = Total - 1
  BY <1>1, <1>4, EventFacts DEF IsRefused
<1>5. CASE i \in 1..(Total - 2)
  <2> DEFINE e == Event(i)
  <2>1. /\ e \in Bodies(plan)
        /\ e.kind = "PLAYER_ELIMINATED" => ~(e.player >= Len(List))
    BY <1>1, <1>5, EventFacts
  <2> HIDE DEF e
  <2>2. /\ e.kind \in {"PIXEL", "PLAYER_ELIMINATED"}
        /\ e.player \in Nat
        /\ e.kind = "PIXEL" => e.player < Len(List)
        /\ e.kind = "PIXEL" =>
               /\ e.at[1] \in 0..(Games[plan].board[1] - 1)
               /\ e.at[2] \in 0..(Games[plan].board[2] - 1)
    BY <1>1, <2>1, BodyFacts
  <2>3. ASSUME e.kind = "PIXEL" PROVE IsOnBoard(e.at)
    <3>1. SUFFICES ASSUME client = 2
                   PROVE  /\ Reads(e.at[1]) < Reads(Event(0).board[1])
                          /\ Reads(e.at[2]) < Reads(Event(0).board[2])
      BY DEF IsOnBoard
    <3>2. /\ Event(0).board = Games[plan].board /\ MaxNumber \in Nat
          /\ Games[plan].board[1] \in 1..MaxNumber
          /\ Games[plan].board[2] \in 1..MaxNumber
      BY <1>1, EventFacts, MaxNumberAssumption
    <3>3. /\ Games[plan].board[1] \in 0..MaxNumber /\ e.at[1] \in 0..MaxNumber
          /\ Games[plan].board[2] \in 0..MaxNumber /\ e.at[2] \in 0..MaxNumber
          /\ e.at[1] < Games[plan].board[1] /\ e.at[2] < Games[plan].board[2]
      <4>1. ASSUME NEW b \in 1..MaxNumber, NEW x \in 0..(b - 1)
            PROVE  b \in 0..MaxNumber /\ x \in 0..MaxNumber /\ x < b
        BY <3>2
      <4>2. /\ e.at[1] \in 0..(Games[plan].board[1] - 1)
            /\ e.at[2] \in 0..(Games[plan].board[2] - 1)
        BY <2>2, <2>3
      <4> QED BY <3>2, <4>1, <4>2
    <3>4. \A n \in 0..MaxNumber : Reads(n) = n
      BY <1>1, <3>1, ReadsFacts
    <3> QED BY <3>2, <3>3, <3>4
  <2>4. ~(e.player >= Len(List)) /\ e.kind # "NEW_GAME"
    BY <1>2, <2>1, <2>2
  <2>5. ~IsRefused(e, List)
    BY <2>3, <2>4 DEF IsRefused
  <2> QED BY <2>5 DEF e
<1> QED BY <1>1, <1>3, <1>4, <1>5

\* Why a client may have ended although its GUI runs.
EndHasCause ==
    ~runs /\ gui = "running" =>
        \/ IsMisread
        \/ IsMisnumbered
        \/ client = 2 /\ \E d : Sent(d) /\ d.size > MaxUdp

LEMMA EndHasCauseStep == ClientTyped /\ EndHasCause /\ [Next]_vars => EndHasCause'
<1> SUFFICES ASSUME ClientTyped, EndHasCause, [Next]_vars, ~runs', gui' = "running"
             PROVE  \/ IsMisread'
                    \/ IsMisnumbered'
                    \/ client' = 2 /\ \E d : Sent(d)' /\ d.size > MaxUdp
  BY DEF EndHasCause
<1>1. /\ PlanTyped /\ client \in {1, 2} /\ Made \in 1..Total /\ Total \in Nat
      /\ runs \in BOOLEAN
  BY MadeFacts DEF ClientTyped
<1>2. CASE PlayTurn
  <2>1. Made' \in Nat /\ Made <= Made' /\ client' = client /\ plan' = plan
    BY <1>2, PlayTurnFacts
  <2>2. IsMisread' = IsMisread
    BY <2>1, SameGame
  <2>3. ASSUME NEW d, Sent(d) PROVE Sent(d)'
    <3>1. PICK i \in 0..(Made - 1) : \E j \in i..(Made - 1) : d = Datagram(i, j)
      BY <2>3 DEF Sent
    <3>2. PICK j \in i..(Made - 1) : d = Datagram(i, j)
      BY <3>1
    <3>3. i \in 0..(Made' - 1) /\ j \in i..(Made' - 1)
      <4>1. ASSUME NEW m \in Nat, NEW n \in Nat, m <= n,
                   NEW a \in 0..(m - 1), NEW b \in a..(m - 1)
            PROVE  a \in 0..(n - 1) /\ b \in a..(n - 1)
        BY <4>1
      <4>2. Made \in Nat
        BY <1>1
      <4> QED BY <2>1, <4>1, <4>2
    <3>4. d = Datagram(i, j)'
      BY <2>1, <3>2 DEF Datagram
    <3> QED BY <2>3, <3>3, <3>4 DEF Sent
  <2>4. ~runs /\ gui = "running"
    BY <1>2 DEF PlayTurn, clientVars, guiVars
  <2>5. IsMisnumbered => IsMisnumbered'
    <3>1. ASSUME NEW i \in 0..(Made - 1) PROVE i \in 0..(Made' - 1)
      <4>1. ASSUME NEW m \in Nat, NEW n \in Nat, m <= n, NEW a \in 0..(m - 1)
            PROVE  a \in 0..(n - 1)
        BY <4>1
      <4>2. Made \in Nat
        BY <1>1
      <4> QED BY <2>1, <4>1, <4>2
    <3>2. ASSUME NEW i PROVE Event(i)' = Event(i)
      BY <2>1 DEF Event
    <3> QED BY <2>1, <3>1, <3>2 DEF IsMisnumbered
  <2> QED BY <2>1, <2>2, <2>3, <2>4, <2>5 DEF EndHasCause
<1>3. ASSUME NEW d, Sent(d), Receive(d)
      PROVE  \/ IsMisread'
             \/ IsMisnumbered'
             \/ client' = 2 /\ \E e : Sent(e)' /\ e.size > MaxUdp
  <2>1. UNCHANGED <<client, plan, turn>>
    BY <1>3, ReceiveKinds
  <2>2. IsMisread' = IsMisread /\ IsMisnumbered' = IsMisnumbered /\ Sent(d)'
    BY <1>3, <2>1, SameGame DEF Sent, Made, Datagram, IsMisnumbered, Event
  <2>3. CASE ReceiveTooLong(d)
    BY <2>1, <2>2, <2>3 DEF ReceiveTooLong
  <2>4. CASE ~ReceiveTooLong(d)
    <3> DEFINE s == Stop(d)
    <3>1. EndsAt(d, s, PlayersOf(d))
      BY <1>3, <2>4, ReceiveKinds
    <3>2. /\ d.from \in 0..(Made - 1) /\ d.to \in d.from..(Made - 1)
          /\ s \in d.from..(d.to + 1)
          /\ \A k \in d.from..(s - 1) : IsNext(d, k, PlayersOf(d))
          /\ s <= d.to => ~IsNext(d, s, PlayersOf(d)) \/ IsRefused(Event(s), PlayersOf(d))
      BY <1>3, TakenFacts
    <3> HIDE DEF s
    <3>3. s \in d.from..d.to /\ s \in 0..(Total - 1)
      BY <1>1, <3>1, <3>2 DEF EndsAt
    <3>4. IsNext(d, s, PlayersOf(d)) /\ IsRefused(Event(s), PlayersOf(d))
      BY <3>1, <3>2 DEF EndsAt
    <3>5. s > d.from => IsNext(d, d.from, PlayersOf(d))
      BY <1>1, <3>2, <3>3
    <3>6. PlayersOf(d) = List
      BY <1>3, <3>3, <3>4, <3>5, NextIsKnown
    <3>7. IsMisread \/ List = Names(plan)
      BY <1>1, ListFacts
    <3>8. s \in 0..(Made - 1)
      BY <1>1, <3>2, <3>3
    <3>9. IsMisnumbered \/ (Event(s).kind = "PLAYER_ELIMINATED"
                               => ~(Event(s).player >= Len(Names(plan))))
      BY <3>8 DEF IsMisnumbered
    <3> QED BY <2>2, <3>3, <3>4, <3>6, <3>7, <3>9, EventsPass
  <2> QED BY <2>3, <2>4
<1>4. CASE WriteLine \/ LoseGui \/ GuiNext \/ UNCHANGED vars
  <2>1. /\ UNCHANGED <<client, plan, turn>> /\ runs' = runs /\ gui = "running"
    <3>1. UNCHANGED <<client, plan, turn>>
      BY <1>4 DEF WriteLine, LoseGui, GuiNext, vars, clientVars
    <3>2. CASE WriteLine
      BY <3>2 DEF WriteLine, Write
    <3>3. CASE LoseGui
      BY <3>3 DEF LoseGui, guiVars
    <3>4. CASE GuiNext
      BY <3>4 DEF GuiNext, KeyEvent, CloseWindow, IdleCallback, CutLine, EndOfStream, clientVars
    <3>5. CASE UNCHANGED vars
      BY <3>5 DEF vars, guiVars, clientVars
    <3> QED BY <1>4, <3>1, <3>2, <3>3, <3>4, <3>5
  <2>2. /\ IsMisread' = IsMisread /\ IsMisnumbered' = IsMisnumbered
        /\ \A d : Sent(d)' = Sent(d)
    BY <2>1, SameGame DEF Sent, Made, Datagram, IsMisnumbered, Event
  <2> QED BY <2>1, <2>2 DEF EndHasCause
<1> QED BY <1>2, <1>3, <1>4, StepKinds

\* While its GUI runs a client ends only over a datagram that is too long for
\* client 2, a list of players that client 1 misreads, or an elimination under a
\* slot number that no player of the game has; no other check of theirs ends
\* them (client.cpp:238, client.cpp:272, server.cpp:627).
THEOREM RefusalsCorrect == Spec => []OnlyMisfitsAreRefused
<1>1. Init => ClientTyped /\ EndHasCause
  BY ClientTypedInit DEF Init, EndHasCause
<1>2. ClientTyped /\ EndHasCause /\ [Next]_vars => ClientTyped' /\ EndHasCause'
  BY ClientTypedStep, EndHasCauseStep
<1>3. ClientTyped /\ EndHasCause => OnlyMisfitsAreRefused
  BY LongSent DEF EndHasCause, OnlyMisfitsAreRefused
<1> QED BY <1>1, <1>2, <1>3, PTL DEF Spec

-----------------------------------------------------------------------------
(* Lines and the screen *)

LEMMA NumbersAreRead ==
    ASSUME client \in {1, 2}, PlanTyped
    PROVE  /\ ReadsBoth(Event(0).board) \in Nat \X Nat
           /\ \A e \in Bodies(plan) :
                  e.kind = "PIXEL" => ReadsBoth(e.at) \in Nat \X Nat
<1>1. ASSUME NEW b \in 1..MaxNumber, NEW x \in 0..(b - 1)
      PROVE  Reads(b) \in Nat /\ Reads(x) \in Nat
  <2>1. b \in 0..MaxNumber /\ x \in 0..MaxNumber
    BY MaxNumberAssumption
  <2> QED BY <2>1, ReadsFacts
<1>2. /\ Event(0).board = Games[plan].board
      /\ Games[plan].board[1] \in 1..MaxNumber
      /\ Games[plan].board[2] \in 1..MaxNumber
  BY EventFacts
<1>3. ReadsBoth(Event(0).board) \in Nat \X Nat
  <2>1. \A b \in 1..MaxNumber : Reads(b) \in Nat
    <3>1. \A b \in 1..MaxNumber : 0 \in 0..(b - 1)
      BY MaxNumberAssumption
    <3> QED BY <1>1, <3>1
  <2> QED BY <1>2, <2>1 DEF ReadsBoth
<1>4. ASSUME NEW e \in Bodies(plan), e.kind = "PIXEL"
      PROVE  ReadsBoth(e.at) \in Nat \X Nat
  <2>1. /\ e.at[1] \in 0..(Games[plan].board[1] - 1)
        /\ e.at[2] \in 0..(Games[plan].board[2] - 1)
    BY <1>4, BodyFacts
  <2> QED BY <1>1, <1>2, <2>1 DEF ReadsBoth
<1> QED BY <1>3, <1>4

\* The four kinds of lines.
LEMMA LineFacts ==
    ASSUME client \in {1, 2}, PlanTyped, NEW n \in Tellable
    PROVE  LET e == Event(n)
               l == Line(Event(n), List)
           IN  \/ /\ n = 0
                  /\ e.kind = "NEW_GAME"
                  /\ l = [kind |-> "NEW_GAME", board |-> ReadsBoth(Event(0).board),
                          players |-> List]
                  /\ Len(List) >= 2
               \/ /\ n \in 1..(Total - 2) /\ e \in Bodies(plan)
                  /\ e.player \in 0..(Len(List) - 1)
                  /\ e.kind = "PIXEL"
                  /\ l = [kind |-> "PIXEL", player |-> e.player + 1,
                          at |-> ReadsBoth(e.at)]
               \/ /\ n \in 1..(Total - 2) /\ e \in Bodies(plan)
                  /\ e.player \in 0..(Len(List) - 1)
                  /\ e.kind = "PLAYER_ELIMINATED"
                  /\ l = [kind |-> "PLAYER_ELIMINATED", player |-> e.player + 1]
               \/ /\ n = Total - 1 /\ n # 0
                  /\ e.kind = "GAME_OVER"
                  /\ l = [kind |-> "GAME_OVER"]
<1> DEFINE e == Event(n)
<1>1. /\ Total \in Nat /\ Total >= 2 /\ n \in 0..(Total - 1)
      /\ ~IsRefused(e, List)
      /\ Len(List) \in Nat /\ List = [i \in 1..Len(List) |-> i]
  BY MadeFacts, ListFacts DEF Tellable
<1>2. CASE n = 0
  <2>1. e.kind = "NEW_GAME" /\ e.board = Event(0).board
    BY <1>2, EventFacts
  <2>2. Len(List) >= 2
    BY <1>1, <2>1 DEF IsRefused
  <2>3. Line(e, List) = [kind |-> "NEW_GAME", board |-> ReadsBoth(Event(0).board),
                         players |-> List]
    BY <2>1 DEF Line
  <2> QED BY <1>2, <2>1, <2>2, <2>3
<1>3. CASE n = Total - 1
  <2>1. e.kind = "GAME_OVER"
    BY <1>3, EventFacts
  <2>2. Line(e, List) = [kind |-> "GAME_OVER"]
    BY <2>1 DEF Line
  <2> QED BY <1>1, <1>3, <2>1, <2>2
<1>4. CASE n \in 1..(Total - 2)
  <2>1. e \in Bodies(plan)
    BY <1>4, EventFacts
  <2> HIDE DEF e
  <2>2. e.kind \in {"PIXEL", "PLAYER_ELIMINATED"} /\ e.player \in Nat
    BY <2>1, BodyFacts, ListFacts
  <2>3. e.player \in 0..(Len(List) - 1)
    <3>1. ~(e.player >= Len(List))
      BY <1>1, <2>2 DEF IsRefused
    <3> QED BY <1>1, <2>2, <3>1
  <2>4. Named(e, List) = e.player + 1
    <3>1. e.player + 1 \in 1..Len(List)
      BY <1>1, <2>3
    <3> QED BY <1>1, <3>1 DEF Named
  <2>5. CASE e.kind = "PIXEL"
    <3>1. Line(e, List) = [kind |-> "PIXEL", player |-> e.player + 1,
                           at |-> ReadsBoth(e.at)]
      BY <2>4, <2>5 DEF Line
    <3> QED BY <1>4, <2>1, <2>3, <2>5, <3>1 DEF e
  <2>6. CASE e.kind = "PLAYER_ELIMINATED"
    <3>1. Line(e, List) = [kind |-> "PLAYER_ELIMINATED", player |-> e.player + 1]
      BY <2>4, <2>6 DEF Line
    <3> QED BY <1>4, <2>1, <2>3, <2>6, <3>1 DEF e
  <2> QED BY <2>2, <2>5, <2>6
<1> QED BY <1>1, <1>2, <1>3, <1>4

\* What the GUI can be made to read after a cut.
Cut == IF cuts > 0 THEN {Rest, Empty} ELSE {}

LinesTyped ==
    /\ stream \in Seq(Told \cup Cut) /\ Len(stream) <= MaxPipe
    /\ out \in Seq(Told) /\ Len(out) <= Total
    /\ started \in BOOLEAN
    /\ gui \in {"running", "ended", "crashed"}
    /\ cuts \in 0..MaxCuts

ScreenTyped ==
    /\ screen \in [board : Nat \X Nat, players : {<<>>, Listed},
                   marked : SUBSET Nat, drawn : SUBSET (Nat \X (Nat \X Nat))]
    /\ \A p \in screen.marked : IsListed(p)
    /\ \A d \in screen.drawn : IsListed(d[1])

LEMMA ListMembers ==
    ASSUME client \in {1, 2}, PlanTyped
    PROVE  /\ Len(List) \in Nat /\ List \in Seq(Nat)
           /\ \A i \in 1..Len(List) : List[i] = i
<1> DEFINE k == Len(List)
<1>1. Len(List) \in Nat /\ List \in Seq(Nat)
  BY ListFacts
<1>2. List = [i \in 1..k |-> i]
  BY ListFacts
<1> HIDE DEF k
<1>3. \A i \in 1..k : List[i] = i
  BY <1>2
<1> QED BY <1>1, <1>3 DEF k

LEMMA ListedFacts ==
    ASSUME client \in {1, 2}, PlanTyped
    PROVE  /\ Len(Listed) \in Nat /\ Len(Listed) <= MaxPlayer
           /\ Len(Listed) <= Len(List)
           /\ Listed \in Seq(Nat)
           /\ \A i \in 1..Len(Listed) : Listed[i] = i
           /\ Len(List) <= MaxPlayer => Len(Listed) = Len(List)
<1> DEFINE m == Min({Len(List), MaxPlayer})
<1>1. /\ Len(List) \in Nat /\ List \in Seq(Nat)
      /\ \A i \in 1..Len(List) : List[i] = i
      /\ MaxPlayer \in Nat
  BY ListMembers, GuiAssumption
<1>2. m \in {Len(List), MaxPlayer} /\ m <= Len(List) /\ m <= MaxPlayer
  <2>1. {Len(List), MaxPlayer} \in SUBSET Nat
    BY <1>1
  <2> QED BY <2>1, MinOfNats
<1> HIDE DEF m
<1>3. m \in Nat /\ (Len(List) <= MaxPlayer => m = Len(List))
  BY <1>1, <1>2
<1>4. Listed \in Seq(Nat) /\ Len(Listed) = m /\ \A i \in 1..m : Listed[i] = List[i]
  <2>1. Listed = SubSeq(List, 1, m)
    BY DEF Listed, m
  <2> QED BY <1>1, <1>2, <1>3, <2>1
<1>5. \A i \in 1..m : List[i] = i
  BY <1>1, <1>2, <1>3
<1> QED BY <1>2, <1>3, <1>4, <1>5

\* What process_command() does with the line for an event.
LEMMA Obeys ==
    ASSUME client \in {1, 2}, PlanTyped, NEW n \in Tellable,
           ProcessCommand(Line(Event(n), List))
    PROVE  LET e == Event(n)
               p == e.player + 1
           IN  \/ /\ n = 0 /\ e.kind = "NEW_GAME" /\ Len(List) >= 2
                  /\ screen' = [board |-> ReadsBoth(Event(0).board), players |-> Listed,
                                marked |-> {}, drawn |-> {}]
                  /\ gui' = gui
               \/ /\ n \in 1..(Total - 2) /\ e \in Bodies(plan)
                  /\ e.player \in 0..(Len(List) - 1)
                  /\ e.kind = "PIXEL"
                  /\ screen' = IF IsListed(p)
                               THEN [screen EXCEPT !.drawn = @ \cup {<<p, ReadsBoth(e.at)>>}]
                               ELSE screen
                  /\ gui' = gui
               \/ /\ n \in 1..(Total - 2) /\ e \in Bodies(plan)
                  /\ e.player \in 0..(Len(List) - 1)
                  /\ e.kind = "PLAYER_ELIMINATED"
                  /\ IF IsListed(p)
                     THEN /\ screen' = [screen EXCEPT !.marked = @ \cup {p}]
                          /\ gui' = gui
                     ELSE screen' = screen /\ gui' \in {"running", "crashed"}
               \/ /\ n = Total - 1 /\ n # 0
                  /\ e.kind = "GAME_OVER"
                  /\ screen' = screen /\ gui' = gui
<1> DEFINE e == Event(n)
           l == Line(Event(n), List)
<1>1. \/ NewGameCommand(l) \/ PixelCommand(l) \/ PlayerEliminatedCommand(l)
      \/ EmptyCommand(l) \/ UnknownCommand(l)
  BY DEF ProcessCommand
<1>2. CASE /\ n = 0
           /\ e.kind = "NEW_GAME"
           /\ l = [kind |-> "NEW_GAME", board |-> ReadsBoth(Event(0).board),
                   players |-> List]
           /\ Len(List) >= 2
  <2>1. NewGameCommand(l)
    <3> HIDE DEF l
    <3> QED BY <1>1, <1>2 DEF PixelCommand, PlayerEliminatedCommand, EmptyCommand,
                              UnknownCommand, Empty
  <2>2. l.players = List /\ l.board = ReadsBoth(Event(0).board)
    BY <1>2
  <2> HIDE DEF l
  <2>3. /\ screen' = [board |-> ReadsBoth(Event(0).board), players |-> Listed,
                      marked |-> {}, drawn |-> {}]
        /\ gui' = gui
    <3>1. PlayerList(l) = Listed
      BY <2>2 DEF PlayerList, Listed
    <3>2. ~(Len(List) < 2)
      BY <1>2, ListMembers
    <3>3. ~(Len(l.players) < 2)
      BY <2>2, <3>2, Zenon
    <3> QED BY <2>1, <2>2, <3>1, <3>3 DEF NewGameCommand
  <2> QED BY <1>2, <2>3
<1>3. CASE /\ n \in 1..(Total - 2) /\ e \in Bodies(plan)
           /\ e.player \in 0..(Len(List) - 1)
           /\ e.kind = "PIXEL"
           /\ l = [kind |-> "PIXEL", player |-> e.player + 1, at |-> ReadsBoth(e.at)]
  <2>1. PixelCommand(l) /\ l.player = e.player + 1 /\ l.at = ReadsBoth(e.at)
    <3>1. l.player = e.player + 1 /\ l.at = ReadsBoth(e.at)
      BY <1>3
    <3> HIDE DEF l
    <3> QED BY <1>1, <1>3, <3>1 DEF NewGameCommand, PlayerEliminatedCommand, EmptyCommand,
                                    UnknownCommand, Empty
  <2> HIDE DEF l
  <2> QED BY <1>3, <2>1 DEF PixelCommand
<1>4. CASE /\ n \in 1..(Total - 2) /\ e \in Bodies(plan)
           /\ e.player \in 0..(Len(List) - 1)
           /\ e.kind = "PLAYER_ELIMINATED"
           /\ l = [kind |-> "PLAYER_ELIMINATED", player |-> e.player + 1]
  <2>1. PlayerEliminatedCommand(l) /\ l.player = e.player + 1
    <3>1. l.player = e.player + 1
      BY <1>4
    <3> HIDE DEF l
    <3> QED BY <1>1, <1>4, <3>1 DEF NewGameCommand, PixelCommand, EmptyCommand,
                                    UnknownCommand, Empty
  <2> HIDE DEF l
  <2> QED BY <1>4, <2>1 DEF PlayerEliminatedCommand
<1>5. CASE /\ n = Total - 1 /\ n # 0
           /\ e.kind = "GAME_OVER"
           /\ l = [kind |-> "GAME_OVER"]
  <2>1. UnknownCommand(l)
    <3> HIDE DEF l
    <3> QED BY <1>1, <1>5 DEF NewGameCommand, PixelCommand, PlayerEliminatedCommand,
                              EmptyCommand, Empty
  <2> QED BY <1>5, <2>1 DEF UnknownCommand
<1> HIDE DEF e, l
<1> QED BY <1>2, <1>3, <1>4, <1>5, LineFacts DEF e, l

LEMMA ObeyTypes ==
    ASSUME client \in {1, 2}, PlanTyped, ScreenTyped,
           client' = client, plan' = plan,
           gui = "running", NEW l \in Told \cup Cut, ProcessCommand(l)
    PROVE  /\ ScreenTyped'
           /\ gui' \in {"running", "crashed"}
           /\ gui' = "crashed" => cuts > 0 \/ screen.players # Listed \/ Listed # List
           /\ screen'.players = screen.players \/ screen'.players = Listed
<1>0. Listed' = Listed
  BY SameGame
<1>1. CASE l \in Told
  <2>1. PICK n \in Tellable : l = Line(Event(n), List)
    BY <1>1 DEF Told
  <2> DEFINE e == Event(n)
             p == e.player + 1
  <2>2. CASE /\ screen' = [board |-> ReadsBoth(Event(0).board), players |-> Listed,
                           marked |-> {}, drawn |-> {}]
             /\ gui' = gui
    <3>1. ReadsBoth(Event(0).board) \in Nat \X Nat
      BY NumbersAreRead
    <3> QED BY <1>0, <2>2, <3>1 DEF ScreenTyped
  <2>3. CASE /\ e \in Bodies(plan) /\ e.kind = "PIXEL" /\ e.player \in 0..(Len(List) - 1)
             /\ screen' = IF IsListed(p)
                          THEN [screen EXCEPT !.drawn = @ \cup {<<p, ReadsBoth(e.at)>>}]
                          ELSE screen
             /\ gui' = gui
    <3>1. ReadsBoth(e.at) \in Nat \X Nat /\ p \in Nat
      BY <2>3, NumbersAreRead, ListMembers
    <3> HIDE DEF e, p
    <3>2. CASE ~IsListed(p)
      BY <1>0, <2>3, <3>2 DEF ScreenTyped, IsListed
    <3>3. CASE IsListed(p)
      <4> DEFINE x == <<p, ReadsBoth(e.at)>>
      <4>1. x \in Nat \X (Nat \X Nat) /\ x[1] = p
        BY <3>1
      <4>2. screen' = [screen EXCEPT !.drawn = @ \cup {x}]
        BY <2>3, <3>3
      <4> HIDE DEF x
      <4>3. /\ screen' \in [board : Nat \X Nat, players : {<<>>, Listed},
                            marked : SUBSET Nat, drawn : SUBSET (Nat \X (Nat \X Nat))]
            /\ screen'.players = screen.players /\ screen'.marked = screen.marked
            /\ screen'.drawn = screen.drawn \cup {x}
        BY <4>1, <4>2 DEF ScreenTyped
      <4>4. \A q : IsListed(q)' <=> IsListed(q)
        BY <4>3 DEF IsListed
      <4> QED BY <1>0, <2>3, <3>3, <4>1, <4>3, <4>4 DEF ScreenTyped
    <3> QED BY <3>2, <3>3
  <2>4. CASE /\ e \in Bodies(plan) /\ e.player \in 0..(Len(List) - 1)
             /\ IF IsListed(p)
                THEN /\ screen' = [screen EXCEPT !.marked = @ \cup {p}]
                     /\ gui' = gui
                ELSE screen' = screen /\ gui' \in {"running", "crashed"}
    <3>1. p \in Nat /\ p \in 1..Len(List) /\ List[p] = p
      BY <2>4, ListMembers
    <3> HIDE DEF e, p
    <3>2. CASE ~IsListed(p)
      <4>1. ScreenTyped'
        BY <1>0, <2>4, <3>2 DEF ScreenTyped, IsListed
      <4>2. screen.players # Listed \/ Listed # List
        <5>1. ASSUME screen.players = List PROVE IsListed(p)
          <6>1. DOMAIN List = 1..Len(List)
            BY ListMembers
          <6> QED BY <3>1, <5>1, <6>1 DEF IsListed
        <5> QED BY <3>2, <5>1
      <4> QED BY <2>4, <3>2, <4>1, <4>2
    <3>3. CASE IsListed(p)
      <4>1. screen' = [screen EXCEPT !.marked = @ \cup {p}]
        BY <2>4, <3>3
      <4>2. /\ screen' \in [board : Nat \X Nat, players : {<<>>, Listed},
                            marked : SUBSET Nat, drawn : SUBSET (Nat \X (Nat \X Nat))]
            /\ screen'.players = screen.players /\ screen'.drawn = screen.drawn
            /\ screen'.marked = screen.marked \cup {p}
        BY <3>1, <4>1 DEF ScreenTyped
      <4>3. \A q : IsListed(q)' <=> IsListed(q)
        BY <4>2 DEF IsListed
      <4> QED BY <1>0, <2>4, <3>3, <4>2, <4>3 DEF ScreenTyped
    <3> QED BY <3>2, <3>3
  <2>5. CASE screen' = screen /\ gui' = gui
    BY <1>0, <2>5 DEF ScreenTyped, IsListed
  <2>6. ProcessCommand(Line(Event(n), List))
    BY <2>1
  <2> HIDE DEF e, p
  <2> QED BY <2>2, <2>3, <2>4, <2>5, <2>6, Obeys DEF e, p
<1>2. CASE l \in Cut
  <2>1. cuts > 0 /\ (l = Rest \/ l = Empty)
    BY <1>2 DEF Cut
  <2>2. screen' = screen /\ gui' \in {"running", "crashed"}
    BY <2>1 DEF ProcessCommand, NewGameCommand, PixelCommand, PlayerEliminatedCommand,
                EmptyCommand, UnknownCommand, Rest, Empty
  <2> QED BY <1>0, <2>1, <2>2 DEF ScreenTyped, IsListed
<1> QED BY <1>1, <1>2

\* The lines that a client writes for a datagram.
LEMMA LinesFacts ==
    ASSUME ClientTyped, NEW d, Sent(d)
    PROVE  LET ls == Lines(d.from, Stop(d), PlayersOf(d))
           IN  /\ ls \in Seq(Told)
               /\ Len(ls) = ToldUpTo(Stop(d)) - d.from /\ Len(ls) <= Total
               /\ \A k \in 1..Len(ls) :
                      /\ d.from + k - 1 \in Tellable
                      /\ ls[k] = Line(Event(d.from + k - 1), List)
               /\ Stop(d) = d.from => ls = <<>>
               /\ Stop(d) # d.from => ls # <<>> \/ d.from # 0
<1>1. /\ client \in {1, 2} /\ Made \in 1..Total /\ Total \in Nat /\ Total >= 2
  BY MadeFacts DEF ClientTyped
<1>2. d.from \in 0..(Made - 1) /\ d.to \in d.from..(Made - 1) /\ Stop(d) \in d.from..(d.to + 1)
  BY TakenFacts
<1> DEFINE f == d.from
           s == Stop(d)
           u == ToldUpTo(s)
           ls == Lines(f, s, PlayersOf(d))
<1>3. /\ f \in Nat /\ s \in f..Total /\ f < Total
      /\ u \in f..s /\ u \in {s, s - 1} /\ (u # s => s = Total)
  BY <1>1, <1>2 DEF ToldUpTo
<1>4. ls = [k \in 1..(u - f) |-> Line(Event(f + k - 1), PlayersOf(d))]
  BY DEF Lines
<1>5. s # f => /\ PlayersOf(d) = List
               /\ \A k \in f..(s - 1) : ~IsRefused(Event(k), List)
  BY TakingFacts
<1> HIDE DEF f, s, u, ls
<1>6. ASSUME NEW k \in 1..(u - f)
      PROVE  /\ f + k - 1 \in Tellable /\ ls[k] = Line(Event(f + k - 1), List)
  <2>1. /\ s # f /\ f + k - 1 \in f..(s - 1) /\ f + k - 1 \in 0..(Total - 1)
    BY <1>3, <1>1
  <2> QED BY <1>4, <1>5, <2>1 DEF Tellable
<1>7. Len(ls) = u - f /\ ls \in Seq(Told)
  <2>1. u - f \in Nat
    BY <1>3
  <2>2. Len(ls) = u - f /\ DOMAIN ls = 1..(u - f)
    BY <1>4, <2>1
  <2>3. \A k \in 1..(u - f) : ls[k] \in Told
    BY <1>6 DEF Told
  <2> QED BY <1>4, <2>1, <2>2, <2>3
<1>8. Len(ls) <= Total
  BY <1>1, <1>3, <1>7
<1>9. s = f => ls = <<>>
  BY <1>3, <1>7
<1>10. ASSUME s # f, f = 0 PROVE ls # <<>>
  <2>1. u - f > 0
    BY <1>1, <1>3, <1>10
  <2> QED BY <1>3, <1>7, <2>1
<1> QED BY <1>6, <1>7, <1>8, <1>9, <1>10 DEF f, s, u, ls

LEMMA LinesTypedStep ==
    ClientTyped /\ LinesTyped /\ ScreenTyped /\ [Next]_vars => LinesTyped' /\ ScreenTyped'
<1> SUFFICES ASSUME ClientTyped, LinesTyped, ScreenTyped, [Next]_vars
             PROVE  LinesTyped' /\ ScreenTyped'
  OBVIOUS
<1>1. /\ client \in {1, 2} /\ PlanTyped /\ Total \in Nat
  BY MadeFacts DEF ClientTyped
<1>2. client' = client /\ plan' = plan
  BY DEF Next, PlayTurn, ReceiveAnswer, ReceiveOther, Receive, WriteLine, LoseGui, GuiNext,
         vars, clientVars
<1>3. Told' = Told /\ Total' = Total /\ Listed' = Listed
  BY <1>2, SameGame
<1>4. screen' = screen => ScreenTyped'
  BY <1>3 DEF ScreenTyped, IsListed
<1>5. CASE PlayTurn \/ UNCHANGED vars
  <2>1. UNCHANGED <<guiVars, out>>
    BY <1>5 DEF PlayTurn, vars, clientVars
  <2>2. UNCHANGED <<stream, started, screen, gui, cuts, out>>
    BY <2>1 DEF guiVars
  <2>3. Cut' = Cut
    BY <2>2 DEF Cut
  <2> QED BY <1>3, <1>4, <2>2, <2>3 DEF LinesTyped
<1>6. ASSUME NEW d, Sent(d), Receive(d) PROVE LinesTyped' /\ ScreenTyped'
  <2>1. UNCHANGED <<stream, started, screen, gui, cuts>>
    BY <1>6 DEF Receive, guiVars
  <2>2. Cut' = Cut
    BY <2>1 DEF Cut
  <2>3. out' \in Seq(Told) /\ Len(out') <= Total
    <3>1. out' = out \/ out' = <<>> \/ out' = Lines(d.from, Stop(d), PlayersOf(d))
      BY <1>6, ReceiveKinds DEF ReceiveTooLong
    <3>2. Len(<<>>) <= Total /\ <<>> \in Seq(Told)
      BY <1>1
    <3> QED BY <1>6, <3>1, <3>2, LinesFacts DEF LinesTyped
  <2> QED BY <1>3, <1>4, <2>1, <2>2, <2>3 DEF LinesTyped
<1>7. CASE WriteLine
  <2>1. /\ UNCHANGED <<started, screen, gui, cuts>> /\ out # <<>>
        /\ stream' = Append(stream, Head(out)) /\ Len(stream) < MaxPipe
        /\ out' = Tail(out)
    BY <1>7 DEF WriteLine, Write
  <2>2. Cut' = Cut
    BY <2>1 DEF Cut
  <2>3. out' \in Seq(Told) /\ Len(out') <= Total /\ Head(out) \in Told
    BY <1>1, <2>1 DEF LinesTyped
  <2>4. stream' \in Seq(Told \cup Cut) /\ Len(stream') <= MaxPipe
    <3>1. Head(out) \in Told \cup Cut /\ stream \in Seq(Told \cup Cut)
      BY <2>3 DEF LinesTyped
    <3>2. stream' \in Seq(Told \cup Cut) /\ Len(stream') = Len(stream) + 1
      BY <2>1, <3>1, AppendProperties
    <3>3. Len(stream) \in Nat /\ MaxPipe \in Nat
      BY <3>1, GuiAssumption
    <3> QED BY <2>1, <3>2, <3>3
  <2> QED BY <1>3, <1>4, <2>1, <2>2, <2>3, <2>4 DEF LinesTyped
<1>8. CASE LoseGui
  <2>1. UNCHANGED <<stream, started, screen, gui, cuts>> /\ out' = <<>>
    BY <1>8 DEF LoseGui, guiVars
  <2>2. Cut' = Cut
    BY <2>1 DEF Cut
  <2>3. out' \in Seq(Told) /\ Len(out') <= Total
    BY <1>1, <2>1
  <2> QED BY <1>3, <1>4, <2>1, <2>2, <2>3 DEF LinesTyped
<1>9. CASE GuiNext
  <2>0. out' = out
    BY <1>9 DEF GuiNext, clientVars
  <2>1. CASE KeyEvent \/ CloseWindow \/ EndOfStream
    <3>1. /\ UNCHANGED <<stream, screen, cuts>> /\ started' \in BOOLEAN
          /\ gui' \in {"running", "ended", "crashed"}
      BY <2>1 DEF KeyEvent, CloseWindow, EndOfStream, LinesTyped
    <3>2. Cut' = Cut
      BY <3>1 DEF Cut
    <3> QED BY <1>3, <1>4, <2>0, <3>1, <3>2 DEF LinesTyped
  <2>2. CASE IdleCallback
    <3>1. /\ UNCHANGED <<started, cuts>> /\ stream # <<>> /\ gui = "running"
          /\ stream' = Tail(stream) /\ ProcessCommand(Head(stream))
      BY <2>2 DEF IdleCallback
    <3>2. Cut' = Cut
      BY <3>1 DEF Cut
    <3>3. /\ Head(stream) \in Told \cup Cut
          /\ stream' \in Seq(Told \cup Cut) /\ Len(stream') <= MaxPipe
      <4>1. stream \in Seq(Told \cup Cut) /\ Len(stream) <= MaxPipe /\ MaxPipe \in Nat
        BY GuiAssumption DEF LinesTyped
      <4> QED BY <3>1, <4>1, HeadTailProperties
    <3>4. ScreenTyped' /\ gui' \in {"running", "crashed"}
      BY <1>1, <1>2, <3>1, <3>3, ObeyTypes
    <3> QED BY <1>3, <2>0, <3>1, <3>2, <3>3, <3>4 DEF LinesTyped
  <2>3. CASE CutLine
    <3>1. /\ UNCHANGED <<started, screen, gui>> /\ stream # <<>>
          /\ cuts < MaxCuts /\ cuts' = cuts + 1
      BY <2>3 DEF CutLine
    <3>2. PICK l \in {Rest, Empty} : stream' = <<l>> \o Tail(stream)
      BY <2>3 DEF CutLine
    <3>3. cuts' \in 0..MaxCuts /\ cuts' > 0
      BY <3>1, GuiAssumption DEF LinesTyped
    <3>4. Cut' = {Rest, Empty} /\ Cut \subseteq Cut'
      BY <3>3 DEF Cut
    <3>5. stream' \in Seq(Told \cup Cut') /\ Len(stream') <= MaxPipe
      <4> DEFINE L == Told \cup Cut'
      <4>1. stream \in Seq(Told \cup Cut) /\ Len(stream) <= MaxPipe /\ MaxPipe \in Nat
        BY GuiAssumption DEF LinesTyped
      <4>2. /\ Tail(stream) \in Seq(Told \cup Cut) /\ Len(Tail(stream)) = Len(stream) - 1
            /\ Len(stream) \in Nat
        BY <3>1, <4>1, HeadTailProperties
      <4>3. Told \cup Cut \subseteq L /\ l \in L
        BY <3>2, <3>4
      <4> HIDE DEF L
      <4>4. Tail(stream) \in Seq(L) /\ <<l>> \in Seq(L) /\ Len(<<l>>) = 1
        BY <4>2, <4>3
      <4>5. stream' \in Seq(L) /\ Len(stream') = 1 + Len(Tail(stream))
        BY <3>2, <4>4, ConcatProperties
      <4>6. Len(stream') <= MaxPipe
        BY <4>1, <4>2, <4>5
      <4> QED BY <4>5, <4>6 DEF L
    <3> QED BY <1>3, <1>4, <2>0, <3>1, <3>3, <3>5 DEF LinesTyped
  <2> QED BY <1>9, <2>1, <2>2, <2>3 DEF GuiNext
<1> QED BY <1>5, <1>6, <1>7, <1>8, <1>9, StepKinds

LEMMA ScreenIsTyped == LinesTyped /\ ScreenTyped /\ ClientTyped => TypeOK
<1> SUFFICES ASSUME LinesTyped, ScreenTyped, ClientTyped PROVE TypeOK
  OBVIOUS
<1>1. /\ client \in {1, 2} /\ PlanTyped /\ Made \in 1..Total /\ Total \in Nat
  BY MadeFacts DEF ClientTyped
<1>2. GuiTypeOK
  <2>1. DOMAIN screen = {"board", "players", "marked", "drawn"}
    BY DEF ScreenTyped
  <2>2. Len(screen.players) <= MaxPlayer
    <3>1. Len(Listed) <= MaxPlayer /\ Len(<<>>) <= MaxPlayer
      BY <1>1, ListedFacts, GuiAssumption
    <3> QED BY <3>1 DEF ScreenTyped
  <2>3. ASSUME NEW p, IsListed(p) PROVE p \in ToSet(screen.players)
    BY <2>3 DEF IsListed, ToSet
  <2>4. screen.marked \subseteq ToSet(screen.players)
    BY <2>3 DEF ScreenTyped
  <2>5. {d[1] : d \in screen.drawn} \subseteq ToSet(screen.players)
    BY <2>3 DEF ScreenTyped
  <2> QED BY <2>1, <2>2, <2>4, <2>5 DEF GuiTypeOK, LinesTyped
<1>3. nextExpectedEventNo \in 0..Total
  BY <1>1 DEF ClientTyped
<1>4. known \in {<<>>} \cup {SubSeq(Names(plan), 1, k) : k \in 2..Len(Names(plan))}
  <2>1. CASE known = <<>>
    BY <2>1
  <2>2. CASE known # <<>>
    <3>1. known = List /\ Len(List) >= 2
      BY <2>2 DEF ClientTyped
    <3>2. /\ Len(Names(plan)) \in Nat /\ Len(List) \in 0..Len(Names(plan))
          /\ List = SubSeq(Names(plan), 1, Len(List))
      BY <1>1, ListFacts
    <3>3. Len(List) \in 2..Len(Names(plan))
      BY <3>1, <3>2
    <3> QED BY <3>1, <3>2, <3>3, Zenon
  <2> QED BY <2>1, <2>2
<1>5. ASSUME NEW l \in ToSet(out) \cup ToSet(stream),
             l.kind \in {"PIXEL", "PLAYER_ELIMINATED"}
      PROVE  l.player \in ToSet(List)
  <2>1. l \in Told \cup Cut
    BY DEF LinesTyped, ToSet
  <2>2. l \notin Cut
    BY <1>5 DEF Cut, Rest, Empty
  <2>3. PICK n \in Tellable : l = Line(Event(n), List)
    BY <2>1, <2>2 DEF Told
  <2>4. l.player \in 1..Len(List)
    <3> DEFINE e == Event(n)
    <3>1. e.player \in 0..(Len(List) - 1) /\ l.player = e.player + 1
      BY <1>1, <1>5, <2>3, LineFacts
    <3> HIDE DEF e
    <3>2. Len(List) \in Nat
      BY <1>1, ListMembers
    <3> QED BY <3>1, <3>2
  <2>5. l.player \in DOMAIN List /\ List[l.player] = l.player
    BY <1>1, <2>4, ListMembers
  <2> QED BY <2>5 DEF ToSet
<1> QED BY <1>1, <1>2, <1>3, <1>4, <1>5 DEF TypeOK, LinesTyped, ClientTyped, PlanTyped, List

LEMMA ScreenTypedInit == Init => LinesTyped /\ ScreenTyped
<1> SUFFICES ASSUME Init PROVE LinesTyped /\ ScreenTyped
  OBVIOUS
<1>1. /\ stream = <<>> /\ started = FALSE /\ screen = Blank /\ gui = "running"
      /\ cuts = 0 /\ out = <<>>
  BY DEF Init, GuiInit
<1>2. Total \in Nat
  BY ClientTypedInit, MadeFacts DEF ClientTyped
<1>3. LinesTyped
  <2>1. stream \in Seq(Told \cup Cut) /\ Len(stream) <= MaxPipe
    BY <1>1, GuiAssumption
  <2>2. out \in Seq(Told) /\ Len(out) <= Total
    BY <1>1, <1>2
  <2>3. cuts \in 0..MaxCuts
    BY <1>1, GuiAssumption
  <2>4. started \in BOOLEAN /\ gui \in {"running", "ended", "crashed"}
    BY <1>1
  <2> QED BY <2>1, <2>2, <2>3, <2>4 DEF LinesTyped
<1>4. ScreenTyped
  BY <1>1 DEF ScreenTyped, Blank
<1> QED BY <1>3, <1>4

\* Everything that ClientTyped, LinesTyped and ScreenTyped say of the variables.
Typed == ClientTyped /\ LinesTyped /\ ScreenTyped

\* Every variable keeps its type; whatever number an event bears, the lines of a
\* client name only players in the list that it has read; and whatever is cut
\* off them the GUI never lists more players than it can hold, and crosses out
\* and draws only those that it lists (client.cpp:266, cmd.c:74, gui2.c).
THEOREM TypeCorrect == Spec => []TypeOK
<1>1. Init => Typed
  BY ClientTypedInit, ScreenTypedInit DEF Typed
<1>2. Typed /\ [Next]_vars => Typed'
  BY ClientTypedStep, LinesTypedStep DEF Typed
<1>3. Typed => TypeOK
  BY ScreenIsTyped DEF Typed
<1> QED BY <1>1, <1>2, <1>3, PTL DEF Spec

-----------------------------------------------------------------------------
(* The lines on their way *)

\* Written and still to be written.
Coming == stream \o out

LEMMA WritingMoves ==
    ASSUME NEW S, NEW s \in Seq(S), NEW t \in Seq(S), t # <<>>
    PROVE  Append(s, Head(t)) \o Tail(t) = s \o t
<1> DEFINE u == Append(s, Head(t)) \o Tail(t)
           v == s \o t
           m == Len(s)
           n == Len(t)
<1>1. /\ Head(t) \in S /\ Head(t) = t[1] /\ Tail(t) \in Seq(S)
      /\ Len(Tail(t)) = n - 1 /\ m \in Nat /\ n \in Nat /\ n > 0
      /\ \A i \in 1..(n - 1) : Tail(t)[i] = t[i + 1]
  BY HeadTailProperties
<1>2. /\ Append(s, Head(t)) \in Seq(S) /\ Len(Append(s, Head(t))) = m + 1
      /\ \A i \in 1..m : Append(s, Head(t))[i] = s[i]
      /\ Append(s, Head(t))[m + 1] = t[1]
  BY <1>1, AppendProperties
<1>3. /\ v \in Seq(S) /\ Len(v) = m + n
      /\ \A i \in 1..(m + n) : v[i] = IF i <= m THEN s[i] ELSE t[i - m]
  BY ConcatProperties
<1>4. /\ u \in Seq(S) /\ Len(u) = m + 1 + (n - 1)
      /\ \A i \in 1..(m + 1 + (n - 1)) :
             u[i] = IF i <= m + 1 THEN Append(s, Head(t))[i] ELSE Tail(t)[i - (m + 1)]
  BY <1>1, <1>2, ConcatProperties
<1> HIDE DEF u, v, m, n
<1>5. ASSUME NEW i \in 1..(m + n) PROVE u[i] = v[i]
  <2>1. i \in 1..(m + 1 + (n - 1))
    BY <1>1
  <2>2. CASE i <= m
    <3>1. i \in 1..m /\ i <= m + 1
      BY <1>1, <2>2
    <3> QED BY <1>2, <1>3, <1>4, <2>1, <2>2, <3>1
  <2>3. CASE i = m + 1
    <3>1. ~(i <= m) /\ i <= m + 1 /\ i - m = 1
      BY <1>1, <2>3
    <3> QED BY <1>2, <1>3, <1>4, <2>1, <2>3, <3>1
  <2>4. CASE i > m + 1
    <3>1. /\ ~(i <= m) /\ ~(i <= m + 1)
          /\ i - (m + 1) \in 1..(n - 1) /\ i - (m + 1) + 1 = i - m
      BY <1>1, <2>4
    <3>2. Tail(t)[i - (m + 1)] = t[i - m]
      BY <1>1, <3>1
    <3> QED BY <1>3, <1>4, <2>1, <3>1, <3>2
  <2> QED BY <1>1, <2>2, <2>3, <2>4
<1>6. Len(u) = m + n /\ Len(v) = m + n
  BY <1>1, <1>3, <1>4
<1>7. u = v
  BY <1>3, <1>4, <1>5, <1>6, SeqEqual
<1> QED BY <1>7 DEF u, v

LEMMA FirstOfTwo ==
    ASSUME NEW S, NEW s \in Seq(S), NEW t \in Seq(S), s # <<>>
    PROVE  /\ s \o t # <<>>
           /\ Head(s) \in S
           /\ (s \o t)[1] = Head(s)
           /\ Tail(s) \o t = Tail(s \o t)
<1> DEFINE u == Tail(s) \o t
           v == s \o t
           w == Tail(v)
           m == Len(s)
           n == Len(t)
<1>1. /\ Head(s) \in S /\ Head(s) = s[1] /\ Tail(s) \in Seq(S)
      /\ Len(Tail(s)) = m - 1 /\ m \in Nat /\ n \in Nat /\ m > 0
      /\ \A i \in 1..(m - 1) : Tail(s)[i] = s[i + 1]
  BY HeadTailProperties
<1>2. /\ v \in Seq(S) /\ Len(v) = m + n
      /\ \A i \in 1..(m + n) : v[i] = IF i <= m THEN s[i] ELSE t[i - m]
  BY ConcatProperties
<1>3. /\ u \in Seq(S) /\ Len(u) = (m - 1) + n
      /\ \A i \in 1..((m - 1) + n) : u[i] = IF i <= m - 1 THEN Tail(s)[i] ELSE t[i - (m - 1)]
  BY <1>1, ConcatProperties
<1>4. v # <<>>
  BY <1>1, <1>2
<1>5. /\ w \in Seq(S) /\ Len(w) = m + n - 1
      /\ \A i \in 1..(m + n - 1) : w[i] = v[i + 1]
  BY <1>2, <1>4, HeadTailProperties
<1>6. v[1] = s[1]
  <2>1. 1 \in 1..(m + n) /\ 1 <= m
    BY <1>1
  <2> QED BY <1>2, <2>1
<1> HIDE DEF u, v, w, m, n
<1>7. ASSUME NEW i \in 1..(m + n - 1) PROVE u[i] = w[i]
  <2>1. i \in 1..((m - 1) + n) /\ i + 1 \in 1..(m + n)
    BY <1>1
  <2>2. CASE i <= m - 1
    <3>1. i + 1 <= m /\ i \in 1..(m - 1)
      BY <1>1, <2>2
    <3> QED BY <1>1, <1>2, <1>3, <1>5, <2>1, <2>2, <3>1
  <2>3. CASE ~(i <= m - 1)
    <3>1. ~(i + 1 <= m) /\ i - (m - 1) = (i + 1) - m
      BY <1>1, <2>3
    <3>2. u[i] = t[i - (m - 1)]
      BY <1>3, <2>1, <2>3
    <3>3. v[i + 1] = t[(i + 1) - m]
      BY <1>2, <2>1, <3>1
    <3> QED BY <1>5, <3>1, <3>2, <3>3
  <2> QED BY <2>2, <2>3
<1>8. u = w
  <2>1. Len(u) = Len(w) /\ Len(u) = m + n - 1
    BY <1>1, <1>3, <1>5
  <2>2. \A i \in 1..Len(u) : u[i] = w[i]
    BY <1>7, <2>1
  <2> QED BY <1>3, <1>5, <2>1, <2>2, SeqEqual
<1> QED BY <1>1, <1>4, <1>6, <1>8 DEF u, v, w

LEMMA ComingFacts ==
    ASSUME LinesTyped
    PROVE  /\ stream \in Seq(Told \cup Cut) /\ out \in Seq(Told \cup Cut)
           /\ Coming \in Seq(Told \cup Cut)
           /\ Coming = <<>> <=> stream = <<>> /\ out = <<>>
           /\ out = <<>> => Coming = stream
           /\ stream = <<>> => Coming = out
<1> DEFINE L == Told \cup Cut
<1>1. stream \in Seq(L) /\ out \in Seq(Told) /\ Told \subseteq L
  BY DEF LinesTyped
<1> HIDE DEF L
<1>2. out \in Seq(L)
  BY <1>1
<1>3. Coming \in Seq(L) /\ Len(Coming) = Len(stream) + Len(out)
  BY <1>1, <1>2, ConcatProperties DEF Coming
<1>4. Coming = <<>> <=> stream = <<>> /\ out = <<>>
  BY <1>1, <1>2, ConcatEqualIffEmpty DEF Coming
<1>5. /\ out = <<>> => Coming = stream
      /\ stream = <<>> => Coming = out
  BY <1>1, <1>2, ConcatEmptySeq DEF Coming
<1> QED BY <1>1, <1>2, <1>3, <1>4, <1>5 DEF L

\* The steps of one client with its GUI, neither lost nor cut.
LEMMA QuietSteps ==
    ASSUME Typed, [Next]_vars, gui' = "running", cuts' = 0
    PROVE  /\ gui = "running" /\ cuts = 0 /\ client' = client /\ plan' = plan
           /\ Made' \in Nat /\ Made <= Made'
           /\ \/ \E d : Sent(d) /\ Receive(d)
              \/ /\ UNCHANGED <<nextExpectedEventNo, known, runs>>
                 /\ \/ Coming' = Coming /\ screen' = screen
                    \/ /\ Coming # <<>> /\ Coming' = Tail(Coming)
                       /\ Coming[1] \in Told \cup Cut /\ ProcessCommand(Coming[1])
<1>0. client' = client /\ plan' = plan
  BY DEF Next, PlayTurn, ReceiveAnswer, ReceiveOther, Receive, WriteLine, LoseGui, GuiNext,
         vars, clientVars
<1>1. /\ PlanTyped /\ Made \in Nat /\ cuts \in Nat
      /\ stream \in Seq(Told \cup Cut) /\ out \in Seq(Told \cup Cut)
  <2>1. PlanTyped /\ Made \in Nat
    BY MadeFacts DEF Typed, ClientTyped
  <2>2. cuts \in Nat
    BY GuiAssumption DEF Typed, LinesTyped
  <2> QED BY <2>1, <2>2, ComingFacts DEF Typed
<1>2. turn' = turn => Made' \in Nat /\ Made <= Made'
  BY <1>0, <1>1 DEF Made
<1>3. CASE PlayTurn
  <2>1. Made' \in Nat /\ Made <= Made'
    BY <1>3, PlayTurnFacts DEF Typed
  <2>2. UNCHANGED <<stream, screen, gui, cuts, nextExpectedEventNo, known, runs, out>>
    BY <1>3 DEF PlayTurn, guiVars, clientVars
  <2> QED BY <1>0, <2>1, <2>2 DEF Coming
<1>4. ASSUME NEW d, Sent(d), Receive(d) PROVE gui = "running" /\ cuts = 0 /\ turn' = turn
  BY <1>4 DEF Receive, guiVars
<1>5. CASE WriteLine
  <2>1. /\ UNCHANGED <<screen, gui, cuts, nextExpectedEventNo, known, runs, turn>>
        /\ out # <<>> /\ stream' = Append(stream, Head(out)) /\ out' = Tail(out)
    BY <1>5 DEF WriteLine, Write
  <2>2. Coming' = Coming
    BY <1>1, <2>1, WritingMoves DEF Coming
  <2> QED BY <1>0, <1>2, <2>1, <2>2
<1>6. ~LoseGui
  BY DEF LoseGui, guiVars
<1>7. CASE GuiNext
  <2>1. UNCHANGED <<nextExpectedEventNo, known, runs, out, turn>>
    BY <1>7 DEF GuiNext, clientVars
  <2>2. CASE KeyEvent \/ CloseWindow \/ EndOfStream
    <3>1. gui = "running" /\ UNCHANGED <<stream, screen, cuts>>
      BY <2>2 DEF KeyEvent, CloseWindow, EndOfStream
    <3> QED BY <1>0, <1>2, <2>1, <3>1 DEF Coming
  <2>3. CASE IdleCallback
    <3>1. /\ gui = "running" /\ cuts' = cuts /\ stream # <<>>
          /\ stream' = Tail(stream) /\ ProcessCommand(Head(stream))
      BY <2>3 DEF IdleCallback
    <3>2. /\ Coming # <<>> /\ Head(stream) \in Told \cup Cut
          /\ Coming[1] = Head(stream) /\ Tail(stream) \o out = Tail(Coming)
      BY <1>1, <3>1, FirstOfTwo DEF Coming
    <3>3. Coming' = Tail(Coming)
      BY <2>1, <3>1, <3>2 DEF Coming
    <3> QED BY <1>0, <1>2, <2>1, <3>1, <3>2, <3>3
  <2>4. ~CutLine
    BY <1>1 DEF CutLine
  <2> QED BY <1>7, <2>2, <2>3, <2>4 DEF GuiNext
<1>8. CASE UNCHANGED vars
  <2>1. UNCHANGED <<stream, screen, gui, cuts, nextExpectedEventNo, known, runs, out, turn>>
    BY <1>8 DEF vars, guiVars, clientVars
  <2> QED BY <1>0, <1>2, <2>1 DEF Coming
<1> QED BY <1>0, <1>2, <1>3, <1>4, <1>5, <1>6, <1>7, <1>8, StepKinds DEF Typed

\* A datagram received.
LEMMA QuietReceive ==
    ASSUME Typed, NEW d, Sent(d), Receive(d)
    PROVE  /\ runs /\ Coming = stream /\ screen' = screen
           /\ client' = client /\ plan' = plan
           /\ \/ /\ ~runs' /\ out' = <<>> /\ Coming' = Coming
              \/ /\ out' = Lines(d.from, Stop(d), PlayersOf(d))
                 /\ Coming' = Coming \o out'
                 /\ known' = IF Stop(d) > d.from THEN PlayersOf(d) ELSE known
                 /\ nextExpectedEventNo' =
                        IF Stop(d) = d.from THEN nextExpectedEventNo
                        ELSE IF client = 1 /\ Stop(d) = Total THEN 0
                        ELSE nextExpectedEventNo + Stop(d) - d.from
<1>1. /\ runs /\ out = <<>> /\ UNCHANGED <<stream, screen, client, plan>>
  BY ReceiveKinds DEF guiVars
<1>2. Coming = stream /\ stream \in Seq(Told \cup Cut)
  BY <1>1, ComingFacts DEF Typed
<1>3. Coming' = stream \o out'
  BY <1>1 DEF Coming
<1>4. out' = <<>> => Coming' = Coming
  BY <1>2, <1>3, ConcatEmptySeq
<1>5. CASE ReceiveTooLong(d)
  <2>1. ~runs' /\ out' = <<>>
    BY <1>1, <1>5 DEF ReceiveTooLong
  <2> QED BY <1>1, <1>2, <1>4, <2>1
<1>6. CASE ~ReceiveTooLong(d)
  BY <1>1, <1>2, <1>3, <1>4, <1>6, ReceiveKinds
<1> QED BY <1>5, <1>6

\* The line for NEW_GAME is the first that is written.  While it has not been
\* obeyed it comes before all others.
ListComesFirst ==
    gui = "running" /\ cuts = 0 =>
        \/ screen.players = Listed
        \/ /\ Coming # <<>> /\ 0 \in Tellable
           /\ Coming[1] = Line(Event(0), List)
        \/ Coming = <<>> /\ (known = <<>> \/ ~runs)

LEMMA FirstCommand ==
    ASSUME Typed, 0 \in Tellable, ProcessCommand(Line(Event(0), List))
    PROVE  gui' = gui /\ screen'.players = Listed
<1>1. client \in {1, 2} /\ PlanTyped /\ Total \in Nat /\ Total >= 2
  BY MadeFacts DEF Typed, ClientTyped
<1>2. ~(0 \in 1..(Total - 2))
  BY <1>1
<1>3. /\ gui' = gui
      /\ screen' = [board |-> ReadsBoth(Event(0).board), players |-> Listed,
                    marked |-> {}, drawn |-> {}]
  BY <1>1, <1>2, Obeys
<1> QED BY <1>3

LEMMA ListComesFirstStep == Typed /\ ListComesFirst /\ [Next]_vars => ListComesFirst'
<1> SUFFICES ASSUME Typed, ListComesFirst, [Next]_vars, gui' = "running", cuts' = 0
             PROVE  \/ screen'.players = Listed'
                    \/ /\ Coming' # <<>> /\ 0 \in Tellable'
                       /\ Coming'[1] = Line(Event(0), List)'
                    \/ Coming' = <<>> /\ (known' = <<>> \/ ~runs')
  BY DEF ListComesFirst
<1>1. /\ gui = "running" /\ cuts = 0 /\ client' = client /\ plan' = plan
      /\ \/ \E d : Sent(d) /\ Receive(d)
         \/ /\ UNCHANGED <<nextExpectedEventNo, known, runs>>
            /\ \/ Coming' = Coming /\ screen' = screen
               \/ /\ Coming # <<>> /\ Coming' = Tail(Coming)
                  /\ Coming[1] \in Told \cup Cut /\ ProcessCommand(Coming[1])
  BY QuietSteps
<1>2. Listed' = Listed /\ Tellable' = Tellable /\ Line(Event(0), List)' = Line(Event(0), List)
  BY <1>1, SameGame
<1>3. /\ client \in {1, 2} /\ PlanTyped /\ ScreenTyped /\ ClientTyped
      /\ nextExpectedEventNo \in Nat
  BY MadeFacts DEF Typed, ClientTyped
<1>4. \/ screen.players = Listed
      \/ /\ Coming # <<>> /\ 0 \in Tellable
         /\ Coming[1] = Line(Event(0), List)
      \/ Coming = <<>> /\ (known = <<>> \/ ~runs)
  BY <1>1 DEF ListComesFirst
<1>5. ASSUME UNCHANGED <<known, runs>>, Coming' = Coming, screen' = screen
      PROVE  \/ screen'.players = Listed'
             \/ /\ Coming' # <<>> /\ 0 \in Tellable'
                /\ Coming'[1] = Line(Event(0), List)'
             \/ Coming' = <<>> /\ (known' = <<>> \/ ~runs')
  BY <1>2, <1>4, <1>5
<1>6. ASSUME Coming # <<>>, Coming[1] \in Told \cup Cut, ProcessCommand(Coming[1])
      PROVE  screen'.players = Listed'
  <2>1. CASE screen.players = Listed
    BY <1>1, <1>2, <1>3, <1>6, <2>1, ObeyTypes
  <2>2. CASE 0 \in Tellable /\ Coming[1] = Line(Event(0), List)
    BY <1>2, <1>6, <2>2, FirstCommand
  <2> QED BY <1>4, <1>6, <2>1, <2>2
<1>7. ASSUME NEW d, Sent(d), Receive(d)
      PROVE  \/ screen'.players = Listed'
             \/ /\ Coming' # <<>> /\ 0 \in Tellable'
                /\ Coming'[1] = Line(Event(0), List)'
             \/ Coming' = <<>> /\ (known' = <<>> \/ ~runs')
  <2>1. /\ runs /\ Coming = stream /\ screen' = screen
        /\ \/ /\ ~runs' /\ out' = <<>> /\ Coming' = Coming
           \/ /\ out' = Lines(d.from, Stop(d), PlayersOf(d))
              /\ Coming' = Coming \o out'
              /\ known' = IF Stop(d) > d.from THEN PlayersOf(d) ELSE known
    BY <1>7, QuietReceive
  <2>2. CASE screen.players = Listed
    BY <1>2, <2>1, <2>2
  <2>3. CASE ~runs' /\ Coming' = Coming
    BY <1>2, <1>4, <2>1, <2>3
  <2> DEFINE ls == Lines(d.from, Stop(d), PlayersOf(d))
  <2>4. CASE Coming # <<>> /\ Coming' = Coming \o ls /\ screen.players # Listed
    <3>1. 0 \in Tellable /\ Coming[1] = Line(Event(0), List)
      BY <1>4, <2>4
    <3>2. Coming \in Seq(Told \cup Cut) /\ ls \in Seq(Told \cup Cut)
      <4> DEFINE L == Told \cup Cut
      <4>1. ls \in Seq(Told) /\ Told \subseteq L /\ Coming \in Seq(L)
        BY <1>3, <1>7, LinesFacts, ComingFacts DEF Typed
      <4> HIDE DEF L, ls
      <4>2. ls \in Seq(L)
        BY <4>1
      <4> QED BY <4>1, <4>2 DEF L
    <3> HIDE DEF ls
    <3>3. Coming' # <<>> /\ Coming'[1] = Head(Coming)
      BY <2>4, <3>2, FirstOfTwo
    <3>4. Head(Coming) = Coming[1]
      BY <2>4, <3>2
    <3> QED BY <1>2, <3>1, <3>3, <3>4
  <2>5. CASE /\ Coming = <<>> /\ known = <<>> /\ Coming' = Coming \o ls
             /\ known' = IF Stop(d) > d.from THEN PlayersOf(d) ELSE known
    <3>1. /\ ls \in Seq(Told)
          /\ \A k \in 1..Len(ls) :
                 /\ d.from + k - 1 \in Tellable
                 /\ ls[k] = Line(Event(d.from + k - 1), List)
          /\ Stop(d) = d.from => ls = <<>>
          /\ Stop(d) # d.from => ls # <<>> \/ d.from # 0
      BY <1>3, <1>7, LinesFacts
    <3> HIDE DEF ls
    <3>2. Coming' = ls
      BY <2>5, <3>1, ConcatEmptySeq
    <3>3. CASE Stop(d) = d.from
      <4>1. d.from \in Nat
        BY <1>3, <1>7, MadeFacts, TakenFacts DEF ClientTyped
      <4>2. ~(Stop(d) > d.from)
        BY <3>3, <4>1
      <4> QED BY <2>5, <3>1, <3>2, <3>3, <4>2
    <3>4. CASE Stop(d) # d.from
      <4>1. nextExpectedEventNo = 0
        <5>1. nextExpectedEventNo > 0 => known = List /\ Len(List) >= 2
          BY <1>3 DEF ClientTyped
        <5>2. ~(Len(<<>>) >= 2)
          OBVIOUS
        <5> QED BY <1>3, <2>5, <5>1, <5>2
      <4>2. d.from = 0
        BY <1>3, <1>7, <3>4, <4>1, TakingFacts
      <4>3. ls # <<>>
        BY <3>1, <3>4, <4>2
      <4>4. 1 \in 1..Len(ls)
        BY <3>1, <4>3
      <4>5. 0 \in Tellable /\ ls[1] = Line(Event(0), List)
        <5>1. d.from + 1 - 1 = 0
          BY <4>2
        <5>2. d.from + 1 - 1 \in Tellable /\ ls[1] = Line(Event(d.from + 1 - 1), List)
          BY <3>1, <4>4
        <5> QED BY <5>1, <5>2
      <4> QED BY <1>2, <3>2, <4>3, <4>5
    <3> QED BY <3>3, <3>4
  <2> QED BY <1>4, <2>1, <2>2, <2>3, <2>4, <2>5
<1> QED BY <1>1, <1>5, <1>6, <1>7

LEMMA CrashStep == Typed /\ ListComesFirst /\ CrashHasCause /\ [Next]_vars => CrashHasCause'
<1> SUFFICES ASSUME Typed, ListComesFirst, CrashHasCause, [Next]_vars, gui' = "crashed"
             PROVE  cuts' > 0 \/ Len(Names(plan')) > MaxPlayer
  BY DEF CrashHasCause, Names
<1>1. client' = client /\ plan' = plan
  BY DEF Next, PlayTurn, ReceiveAnswer, ReceiveOther, Receive, WriteLine, LoseGui, GuiNext,
         vars, clientVars
<1>2. CASE gui = "crashed" /\ cuts' = cuts
  BY <1>1, <1>2 DEF CrashHasCause
<1>3. CASE ~IdleCallback
  <2>1. gui = "crashed" /\ cuts' = cuts
    <3>1. CASE PlayTurn \/ LoseGui \/ UNCHANGED vars \/ \E d : Receive(d)
      BY <3>1 DEF PlayTurn, LoseGui, Receive, vars, guiVars
    <3>2. CASE WriteLine
      BY <3>2 DEF WriteLine, Write
    <3>3. CASE GuiNext
      BY <1>3, <3>3 DEF GuiNext, KeyEvent, CloseWindow, CutLine, EndOfStream
    <3> QED BY <3>1, <3>2, <3>3, StepKinds DEF Typed
  <2> QED BY <1>2, <2>1
<1>4. CASE IdleCallback
  <2>1. /\ gui = "running" /\ cuts' = cuts /\ stream # <<>> /\ ProcessCommand(Head(stream))
    BY <1>4 DEF IdleCallback
  <2>2. /\ Coming # <<>> /\ Coming[1] \in Told \cup Cut /\ ProcessCommand(Coming[1])
    <3>1. stream \in Seq(Told \cup Cut) /\ out \in Seq(Told \cup Cut)
      BY ComingFacts DEF Typed
    <3>2. /\ Coming # <<>> /\ Head(stream) \in Told \cup Cut
          /\ Coming[1] = Head(stream)
      BY <2>1, <3>1, FirstOfTwo DEF Coming
    <3> QED BY <2>1, <3>2
  <2>3. client \in {1, 2} /\ PlanTyped /\ ScreenTyped /\ cuts \in Nat
    BY GuiAssumption DEF Typed, ClientTyped, LinesTyped
  <2>4. CASE cuts = 0 /\ Listed = List
    <3>1. screen.players # Listed
      BY <1>1, <2>1, <2>2, <2>3, <2>4, ObeyTypes
    <3>2. 0 \in Tellable /\ Coming[1] = Line(Event(0), List)
      BY <2>1, <2>2, <2>4, <3>1 DEF ListComesFirst
    <3> QED BY <2>1, <2>2, <3>2, FirstCommand
  <2>5. CASE Listed # List
    <3>1. /\ Len(List) \in Nat /\ List \in Seq(Nat) /\ \A i \in 1..Len(List) : List[i] = i
      BY <2>3, ListMembers
    <3>2. /\ Listed \in Seq(Nat) /\ \A i \in 1..Len(Listed) : Listed[i] = i
          /\ Len(List) <= MaxPlayer => Len(Listed) = Len(List)
      BY <2>3, ListedFacts
    <3>3. ~(Len(List) <= MaxPlayer)
      <4>1. ASSUME Len(Listed) = Len(List) PROVE FALSE
        <5>1. \A i \in 1..Len(List) : Listed[i] = List[i]
          BY <3>1, <3>2, <4>1
        <5> QED BY <2>5, <3>1, <3>2, <4>1, <5>1, SeqEqual
      <4> QED BY <3>2, <4>1
    <3>4. Len(List) <= Len(Names(plan)) /\ Len(Names(plan)) \in Nat
      BY <2>3, ListFacts
    <3> QED BY <1>1, <3>1, <3>3, <3>4, GuiAssumption
  <2>6. cuts = 0 \/ cuts > 0
    BY <2>3
  <2> QED BY <2>1, <2>4, <2>5, <2>6
<1> QED BY <1>3, <1>4

\* The GUI crashes only over a line whose beginning was lost (read_line.c:46)
\* or over a game with more players than it lists (cmd.c:74): no order in which
\* events are sent, received and written makes it look for a player before
\* it has the list.
THEOREM CrashesHaveCauses == Spec => []CrashHasCause
<1> DEFINE Inv == Typed /\ ListComesFirst /\ CrashHasCause
<1>1. Init => Inv
  <2>1. Init => Typed
    BY ClientTypedInit, ScreenTypedInit DEF Typed
  <2>2. Init => ListComesFirst /\ CrashHasCause
    <3>1. Typed /\ Init => Coming = <<>>
      BY ComingFacts DEF Typed, Init, GuiInit
    <3> QED BY <2>1, <3>1 DEF Init, GuiInit, ListComesFirst, CrashHasCause
  <2> QED BY <2>1, <2>2
<1>2. Inv /\ [Next]_vars => Inv'
  <2>1. Typed /\ [Next]_vars => Typed'
    BY ClientTypedStep, LinesTypedStep DEF Typed
  <2> QED BY <2>1, ListComesFirstStep, CrashStep
<1>3. Inv => CrashHasCause
  OBVIOUS
<1> QED BY <1>1, <1>2, <1>3, PTL DEF Spec

-----------------------------------------------------------------------------
(* From picture to picture *)

LEMMA EventJoins ==
    ASSUME NEW n \in Nat
    PROVE  FirstEvents(n + 1) = FirstEvents(n) \cup {Event(n)}
<1>1. \A i : i \in 0..((n + 1) - 1) <=> i \in 0..(n - 1) \/ i = n
  OBVIOUS
<1> QED BY <1>1 DEF FirstEvents

\* What one more event adds to a picture that has its list.
LEMMA PictureGrows ==
    ASSUME NEW n \in Nat, n # 0
    PROVE  LET e == Event(n)
               Shows(kind) == e.kind = kind /\ e.player < Len(Listed)
           IN  /\ Picture(n).players = Listed
               /\ Picture(n + 1) =
                      [board |-> Picture(n).board,
                       players |-> Picture(n).players,
                       marked |-> Picture(n).marked \cup
                           IF Shows("PLAYER_ELIMINATED") THEN {e.player + 1} ELSE {},
                       drawn |-> Picture(n).drawn \cup
                           IF Shows("PIXEL") THEN {<<e.player + 1, ReadsBoth(e.at)>>} ELSE {}]
<1> DEFINE e == Event(n)
           Shows(kind) == e.kind = kind /\ e.player < Len(Listed)
           marks(m) == {x.player + 1 : x \in OfListed(m, "PLAYER_ELIMINATED")}
           dots(m) == {<<x.player + 1, ReadsBoth(x.at)>> : x \in OfListed(m, "PIXEL")}
<1>1. \A kind : OfListed(n + 1, kind) = OfListed(n, kind) \cup IF Shows(kind) THEN {e} ELSE {}
  BY EventJoins DEF OfListed
<1>2. /\ Picture(n) = [board |-> ReadsBoth(Event(0).board), players |-> Listed,
                       marked |-> marks(n), drawn |-> dots(n)]
      /\ Picture(n + 1) = [board |-> ReadsBoth(Event(0).board), players |-> Listed,
                           marked |-> marks(n + 1), drawn |-> dots(n + 1)]
  <2>1. n + 1 # 0
    OBVIOUS
  <2> QED BY <2>1 DEF Picture
<1>3. marks(n + 1) = marks(n) \cup IF Shows("PLAYER_ELIMINATED") THEN {e.player + 1} ELSE {}
  <2> DEFINE k == "PLAYER_ELIMINATED"
             A == OfListed(n, k)
             B == OfListed(n + 1, k)
  <2>1. B = A \cup IF Shows(k) THEN {e} ELSE {}
    BY <1>1
  <2> HIDE DEF A, B, e
  <2>2. {x.player + 1 : x \in B} =
            {x.player + 1 : x \in A} \cup IF Shows(k) THEN {e.player + 1} ELSE {}
    BY <2>1
  <2> QED BY <2>2 DEF A, B
<1>4. dots(n + 1) = dots(n) \cup
          IF Shows("PIXEL") THEN {<<e.player + 1, ReadsBoth(e.at)>>} ELSE {}
  <2> DEFINE k == "PIXEL"
             A == OfListed(n, k)
             B == OfListed(n + 1, k)
  <2>1. B = A \cup IF Shows(k) THEN {e} ELSE {}
    BY <1>1
  <2> HIDE DEF A, B, e
  <2>2. {<<x.player + 1, ReadsBoth(x.at)>> : x \in B} =
            {<<x.player + 1, ReadsBoth(x.at)>> : x \in A}
                \cup IF Shows(k) THEN {<<e.player + 1, ReadsBoth(e.at)>>} ELSE {}
    BY <2>1
  <2> QED BY <2>2 DEF A, B
<1> DEFINE cross == IF Shows("PLAYER_ELIMINATED") THEN {e.player + 1} ELSE {}
           dot == IF Shows("PIXEL") THEN {<<e.player + 1, ReadsBoth(e.at)>>} ELSE {}
<1>5. marks(n + 1) = marks(n) \cup cross /\ dots(n + 1) = dots(n) \cup dot
  BY <1>3, <1>4
<1> HIDE DEF marks, dots, cross, dot
<1>6. /\ Picture(n).board = ReadsBoth(Event(0).board) /\ Picture(n).players = Listed
      /\ Picture(n).marked = marks(n) /\ Picture(n).drawn = dots(n)
  BY <1>2
<1>7. Picture(n + 1) = [board |-> Picture(n).board, players |-> Picture(n).players,
                       marked |-> Picture(n).marked \cup cross,
                       drawn |-> Picture(n).drawn \cup dot]
  BY <1>2, <1>5, <1>6
<1> QED BY <1>6, <1>7 DEF cross, dot

\* The line for an event takes the screen to the next picture.
LEMMA ObeyPicture ==
    ASSUME Typed, NEW n \in Tellable, n = 0 \/ screen = Picture(n),
           ProcessCommand(Line(Event(n), List))
    PROVE  screen' = Picture(n + 1)
<1> DEFINE e == Event(n)
           p == e.player + 1
<1>1. /\ client \in {1, 2} /\ PlanTyped /\ ScreenTyped /\ n \in Nat
      /\ Total \in Nat /\ Total >= 2
  BY MadeFacts DEF Typed, ClientTyped, Tellable
<1>2. CASE /\ n = 0 /\ e.kind = "NEW_GAME"
           /\ screen' = [board |-> ReadsBoth(Event(0).board), players |-> Listed,
                         marked |-> {}, drawn |-> {}]
  <2>1. FirstEvents(1) = {Event(0)}
    <3>1. \A i : i \in 0..(1 - 1) <=> i = 0
      OBVIOUS
    <3> QED BY <3>1 DEF FirstEvents
  <2>2. OfListed(1, "PLAYER_ELIMINATED") = {} /\ OfListed(1, "PIXEL") = {}
    BY <1>2, <2>1 DEF OfListed
  <2>3. Picture(1) = [board |-> ReadsBoth(Event(0).board), players |-> Listed,
                      marked |-> {}, drawn |-> {}]
    BY <2>2 DEF Picture
  <2> QED BY <1>2, <2>3
<1>3. ASSUME n # 0 PROVE screen = Picture(n) /\ screen.players = Listed
  BY <1>1, <1>3, PictureGrows
<1>4. ASSUME n # 0, e.player \in 0..(Len(List) - 1)
      PROVE  IsListed(p) <=> e.player < Len(Listed)
  <2>1. /\ Len(Listed) \in Nat /\ Listed \in Seq(Nat)
        /\ \A i \in 1..Len(Listed) : Listed[i] = i
    BY <1>1, ListedFacts
  <2>2. e.player \in Nat
    BY <1>1, <1>4, ListMembers
  <2> HIDE DEF e
  <2>3. DOMAIN screen.players = 1..Len(Listed) /\ screen.players = Listed
    BY <1>3, <1>4, <2>1
  <2>4. IsListed(p) <=> \E i \in 1..Len(Listed) : i = p
    BY <2>1, <2>3 DEF IsListed
  <2> QED BY <2>1, <2>2, <2>4
<1>5. DOMAIN screen = {"board", "players", "marked", "drawn"}
      /\ screen = [board |-> screen.board, players |-> screen.players,
                   marked |-> screen.marked, drawn |-> screen.drawn]
  BY <1>1 DEF ScreenTyped
<1>6. CASE /\ n # 0
           /\ e.player \in 0..(Len(List) - 1)
           /\ e.kind = "PIXEL"
           /\ screen' = IF IsListed(p)
                        THEN [screen EXCEPT !.drawn = @ \cup {<<p, ReadsBoth(e.at)>>}]
                        ELSE screen
  <2>1. Picture(n + 1) =
            [board |-> screen.board, players |-> screen.players, marked |-> screen.marked,
             drawn |-> screen.drawn \cup
                 IF e.player < Len(Listed) THEN {<<p, ReadsBoth(e.at)>>} ELSE {}]
    <3>1. e.kind # "PLAYER_ELIMINATED" /\ e.kind = "PIXEL"
      BY <1>6
    <3> QED BY <1>1, <1>3, <1>6, <3>1, PictureGrows
  <2> HIDE DEF e, p
  <2>2. CASE e.player < Len(Listed)
    <3>1. screen' = [screen EXCEPT !.drawn = @ \cup {<<p, ReadsBoth(e.at)>>}]
      BY <1>4, <1>6, <2>2
    <3>2. screen' = [board |-> screen.board, players |-> screen.players,
                     marked |-> screen.marked,
                     drawn |-> screen.drawn \cup {<<p, ReadsBoth(e.at)>>}]
      BY <1>1, <3>1 DEF ScreenTyped
    <3> QED BY <2>1, <2>2, <3>2
  <2>3. CASE ~(e.player < Len(Listed))
    <3>1. screen' = screen
      BY <1>4, <1>6, <2>3
    <3>2. screen.drawn \cup {} = screen.drawn
      OBVIOUS
    <3> QED BY <1>5, <2>1, <2>3, <3>1, <3>2
  <2> QED BY <2>2, <2>3
<1>7. CASE /\ n # 0
           /\ e.player \in 0..(Len(List) - 1)
           /\ e.kind = "PLAYER_ELIMINATED"
           /\ screen' = IF IsListed(p) THEN [screen EXCEPT !.marked = @ \cup {p}]
                        ELSE screen
  <2>1. Picture(n + 1) =
            [board |-> screen.board, players |-> screen.players,
             marked |-> screen.marked \cup IF e.player < Len(Listed) THEN {p} ELSE {},
             drawn |-> screen.drawn]
    <3>1. e.kind = "PLAYER_ELIMINATED" /\ e.kind # "PIXEL"
      BY <1>7
    <3> QED BY <1>1, <1>3, <1>7, <3>1, PictureGrows
  <2> HIDE DEF e, p
  <2>2. CASE e.player < Len(Listed)
    <3>1. screen' = [screen EXCEPT !.marked = @ \cup {p}]
      BY <1>4, <1>7, <2>2
    <3>2. screen' = [board |-> screen.board, players |-> screen.players,
                     marked |-> screen.marked \cup {p}, drawn |-> screen.drawn]
      BY <1>1, <3>1 DEF ScreenTyped
    <3> QED BY <2>1, <2>2, <3>2
  <2>3. CASE ~(e.player < Len(Listed))
    <3>1. screen' = screen
      BY <1>4, <1>7, <2>3
    <3>2. screen.marked \cup {} = screen.marked
      OBVIOUS
    <3> QED BY <1>5, <2>1, <2>3, <3>1, <3>2
  <2> QED BY <2>2, <2>3
<1>8. CASE n # 0 /\ e.kind = "GAME_OVER" /\ screen' = screen
  <2>1. Picture(n + 1) = [board |-> screen.board, players |-> screen.players,
                          marked |-> screen.marked, drawn |-> screen.drawn]
    <3>1. e.kind # "PIXEL" /\ e.kind # "PLAYER_ELIMINATED"
      BY <1>8
    <3>2. screen.marked \cup {} = screen.marked /\ screen.drawn \cup {} = screen.drawn
      OBVIOUS
    <3> QED BY <1>1, <1>3, <1>8, <3>1, <3>2, PictureGrows
  <2> QED BY <1>5, <1>8, <2>1
<1>9. \A i \in 1..(Total - 2) : i # 0
  BY <1>1
<1> HIDE DEF e, p
<1> QED BY <1>1, <1>2, <1>6, <1>7, <1>8, <1>9, Obeys DEF e, p

-----------------------------------------------------------------------------
(* Where the lines lead *)

\* A line leads from picture a to picture b; that for NEW_GAME from anywhere.
Turns(line, a, b) ==
    \E n \in Tellable :
        /\ line = Line(Event(n), List)
        /\ n = 0 \/ a = Picture(n)
        /\ b = Picture(n + 1)

\* The lines, obeyed one after another, lead from a to b over the pictures
\* that f gives.
Passes(f, lines, a, b) ==
    /\ f[0] = a /\ f[Len(lines)] = b
    /\ \A k \in 1..Len(lines) : Turns(lines[k], f[k - 1], f[k])

Leads(lines, a, b) == \E f : Passes(f, lines, a, b)

LEMMA SameWay ==
    ASSUME client' = client, plan' = plan
    PROVE  \A s, a, b : Leads(s, a, b)' = Leads(s, a, b)
<1>1. /\ Tellable' = Tellable /\ \A n : Picture(n)' = Picture(n)
      /\ \A n : Line(Event(n), List)' = Line(Event(n), List)
  BY SameGame
<1>2. \A f, s, a, b : Passes(f, s, a, b)' = Passes(f, s, a, b)
  BY <1>1 DEF Passes, Turns
<1> QED BY <1>2 DEF Leads

LEMMA LeadsNowhere ==
    ASSUME NEW a, NEW b
    PROVE  Leads(<<>>, a, b) <=> a = b
<1>1. Leads(<<>>, a, b) => a = b
  BY DEF Leads, Passes
<1>2. ASSUME a = b PROVE Leads(<<>>, a, b)
  <2> DEFINE f == [k \in {0} |-> a]
  <2>1. f[0] = a /\ Len(<<>>) = 0 /\ 1..0 = {}
    OBVIOUS
  <2> HIDE DEF f
  <2>2. Passes(f, <<>>, a, b)
    BY <1>2, <2>1 DEF Passes
  <2> QED BY <2>2 DEF Leads
<1> QED BY <1>1, <1>2

LEMMA LeadsOn ==
    ASSUME NEW S, NEW s \in Seq(S), NEW t \in Seq(S), NEW a, NEW b, NEW c,
           Leads(s, a, b), Leads(t, b, c)
    PROVE  Leads(s \o t, a, c)
<1>1. PICK f : Passes(f, s, a, b)
  BY DEF Leads
<1>2. PICK g : Passes(g, t, b, c)
  BY DEF Leads
<1> DEFINE m == Len(s)
           n == Len(t)
           u == s \o t
           h == [k \in 0..(m + n) |-> IF k <= m THEN f[k] ELSE g[k - m]]
<1>3. /\ m \in Nat /\ n \in Nat /\ Len(u) = m + n
      /\ \A k \in 1..(m + n) : u[k] = IF k <= m THEN s[k] ELSE t[k - m]
  BY ConcatProperties
<1>4. \A k \in 0..(m + n) : h[k] = IF k <= m THEN f[k] ELSE g[k - m]
  OBVIOUS
<1> HIDE DEF m, n, u, h
<1>5. \A k \in 1..m : Turns(s[k], f[k - 1], f[k])
  BY <1>1 DEF Passes, m
<1>6. \A k \in 1..n : Turns(t[k], g[k - 1], g[k])
  BY <1>2 DEF Passes, n
<1>7. f[0] = a /\ f[m] = b /\ g[0] = b /\ g[n] = c
  BY <1>1, <1>2 DEF Passes, m, n
<1>8. h[0] = a
  BY <1>3, <1>4, <1>7
<1>9. \A k \in m..(m + n) : h[k] = g[k - m]
  <2>1. SUFFICES ASSUME NEW k \in m..(m + n) PROVE h[k] = g[k - m]
    OBVIOUS
  <2>2. CASE k = m
    <3>1. k \in 0..(m + n) /\ k <= m /\ k - m = 0
      BY <1>3, <2>2
    <3> QED BY <1>4, <1>7, <2>2, <3>1
  <2>3. CASE k # m
    <3>1. k \in 0..(m + n) /\ ~(k <= m)
      BY <1>3, <2>3
    <3> QED BY <1>4, <3>1
  <2> QED BY <2>2, <2>3
<1>10. h[m + n] = c
  <2>1. m + n \in m..(m + n) /\ (m + n) - m = n
    BY <1>3
  <2> QED BY <1>7, <1>9, <2>1
<1>11. ASSUME NEW k \in 1..(m + n)
       PROVE  Turns(u[k], h[k - 1], h[k])
  <2>1. CASE k <= m
    <3>1. k \in 1..m /\ k \in 0..(m + n) /\ k - 1 \in 0..(m + n) /\ k - 1 <= m
      BY <1>3, <2>1
    <3>2. u[k] = s[k] /\ h[k] = f[k] /\ h[k - 1] = f[k - 1]
      BY <1>3, <1>4, <2>1, <3>1
    <3> QED BY <1>5, <3>1, <3>2
  <2>2. CASE ~(k <= m)
    <3> DEFINE j == k - m
    <3>1. /\ j \in 1..n /\ k \in m..(m + n) /\ k - 1 \in m..(m + n)
          /\ (k - 1) - m = j - 1
      BY <1>3, <2>2
    <3>2. u[k] = t[j] /\ h[k] = g[j]
      BY <1>3, <1>9, <2>2, <3>1
    <3>3. h[k - 1] = g[j - 1]
      BY <1>9, <3>1
    <3> HIDE DEF j
    <3> QED BY <1>6, <3>1, <3>2, <3>3
  <2> QED BY <2>1, <2>2
<1>12. Passes(h, u, a, c)
  BY <1>3, <1>8, <1>10, <1>11 DEF Passes
<1> QED BY <1>12 DEF Leads, u

LEMMA LeadsFirst ==
    ASSUME NEW S, NEW s \in Seq(S), s # <<>>, NEW a, NEW b, Leads(s, a, b)
    PROVE  \E n \in Tellable :
               /\ s[1] = Line(Event(n), List)
               /\ n = 0 \/ a = Picture(n)
               /\ Leads(Tail(s), Picture(n + 1), b)
<1>1. PICK f : Passes(f, s, a, b)
  BY DEF Leads
<1> DEFINE m == Len(s)
           t == Tail(s)
           g == [k \in 0..(m - 1) |-> f[k + 1]]
<1>2. /\ m \in Nat /\ m > 0 /\ Len(t) = m - 1
      /\ \A k \in 1..(m - 1) : t[k] = s[k + 1]
  BY HeadTailProperties
<1>3. \A k \in 0..(m - 1) : g[k] = f[k + 1]
  OBVIOUS
<1> HIDE DEF m, t, g
<1>4. /\ f[0] = a /\ f[m] = b
      /\ \A k \in 1..m : Turns(s[k], f[k - 1], f[k])
  BY <1>1 DEF Passes, m
<1>5. 1 \in 1..m /\ 1 - 1 = 0
  BY <1>2
<1>6. PICK n \in Tellable :
          /\ s[1] = Line(Event(n), List)
          /\ n = 0 \/ a = Picture(n)
          /\ f[1] = Picture(n + 1)
  <2>1. Turns(s[1], f[0], f[1])
    BY <1>4, <1>5
  <2> QED BY <1>4, <2>1 DEF Turns
<1>7. g[0] = f[1] /\ g[m - 1] = b
  <2>1. 0 \in 0..(m - 1) /\ m - 1 \in 0..(m - 1) /\ (m - 1) + 1 = m /\ 0 + 1 = 1
    BY <1>2
  <2> QED BY <1>3, <1>4, <2>1
<1>8. ASSUME NEW k \in 1..(m - 1)
      PROVE  Turns(t[k], g[k - 1], g[k])
  <2> DEFINE j == k + 1
  <2>1. /\ j \in 1..m /\ k \in 0..(m - 1) /\ k - 1 \in 0..(m - 1)
        /\ (k - 1) + 1 = j - 1
    BY <1>2
  <2>2. t[k] = s[j] /\ g[k] = f[j] /\ g[k - 1] = f[j - 1]
    BY <1>2, <1>3, <2>1
  <2> HIDE DEF j
  <2> QED BY <1>4, <2>1, <2>2
<1>9. Passes(g, t, Picture(n + 1), b)
  BY <1>2, <1>6, <1>7, <1>8 DEF Passes
<1>10. Leads(t, Picture(n + 1), b)
  BY <1>9 DEF Leads
<1> QED BY <1>6, <1>10 DEF t

\* The lines for the events from i on.
LEMMA LeadsAlong ==
    ASSUME NEW S, NEW s \in Seq(S), NEW i \in Nat, NEW a,
           (i = 0 /\ s # <<>>) \/ a = Picture(i),
           \A k \in 1..Len(s) :
               i + k - 1 \in Tellable /\ s[k] = Line(Event(i + k - 1), List)
    PROVE  Leads(s, a, Picture(i + Len(s)))
<1> DEFINE m == Len(s)
           f == [k \in 0..m |-> IF k = 0 THEN a ELSE Picture(i + k)]
<1>1. m \in Nat /\ (s = <<>> <=> m = 0)
  OBVIOUS
<1>2. \A k \in 0..m : f[k] = IF k = 0 THEN a ELSE Picture(i + k)
  OBVIOUS
<1> HIDE DEF f
<1>3. f[0] = a /\ f[m] = Picture(i + m)
  <2>1. 0 \in 0..m /\ m \in 0..m
    BY <1>1
  <2>2. CASE m = 0
    <3>1. i + m = i
      BY <2>2
    <3> QED BY <1>1, <1>2, <2>1, <2>2, <3>1
  <2>3. CASE m # 0
    BY <1>2, <2>1, <2>3
  <2> QED BY <2>2, <2>3
<1>4. ASSUME NEW k \in 1..m
      PROVE  Turns(s[k], f[k - 1], f[k])
  <2> DEFINE n == i + k - 1
  <2>1. n \in Tellable /\ s[k] = Line(Event(n), List)
    OBVIOUS
  <2>2. /\ n + 1 = i + k /\ k \in 0..m /\ k # 0 /\ k - 1 \in 0..m /\ i + (k - 1) = n
    BY <1>1
  <2>3. f[k] = Picture(n + 1)
    BY <1>2, <2>2
  <2>4. n = 0 \/ f[k - 1] = Picture(n)
    <3>1. CASE k = 1
      <4>1. n = i /\ k - 1 = 0
        BY <2>2, <3>1
      <4> QED BY <1>3, <4>1
    <3>2. CASE k # 1
      <4>1. k - 1 # 0
        BY <2>2, <3>2
      <4> QED BY <1>2, <2>2, <4>1
    <3> QED BY <3>1, <3>2
  <2> HIDE DEF n
  <2> QED BY <2>1, <2>3, <2>4 DEF Turns
<1>5. Passes(f, s, a, Picture(i + m))
  BY <1>3, <1>4 DEF Passes
<1> QED BY <1>5 DEF Leads

-----------------------------------------------------------------------------
(* The screen follows the log *)

\* What has been written and not been read leads from what is on the screen to
\* what the client has read.
ScreenFollows ==
    gui = "running" /\ runs /\ cuts = 0 =>
        IsMistaken \/ Leads(Coming, screen, Picture(Progress))

\* GAME_OVER, which client 2 keeps to itself, changes no picture.
LEMMA LastPicture ==
    ASSUME client \in {1, 2}, PlanTyped
    PROVE  Picture(Total) = Picture(Total - 1)
<1> DEFINE n == Total - 1
<1>1. n \in Nat /\ n # 0 /\ n + 1 = Total
  BY MadeFacts
<1>2. Event(n).kind = "GAME_OVER"
  BY EventFacts
<1> HIDE DEF n
<1>3. Picture(n + 1) = [board |-> Picture(n).board, players |-> Picture(n).players,
                       marked |-> Picture(n).marked, drawn |-> Picture(n).drawn]
  <2>1. Event(n).kind # "PIXEL" /\ Event(n).kind # "PLAYER_ELIMINATED"
    BY <1>2
  <2>2. Picture(n).marked \cup {} = Picture(n).marked /\ Picture(n).drawn \cup {} = Picture(n).drawn
    OBVIOUS
  <2> QED BY <1>1, <2>1, <2>2, PictureGrows
<1>4. Picture(n) = [board |-> Picture(n).board, players |-> Picture(n).players,
                   marked |-> Picture(n).marked, drawn |-> Picture(n).drawn]
  BY <1>1 DEF Picture
<1> QED BY <1>1, <1>3, <1>4 DEF n

\* The lines for a datagram that is not mistaken lead on from where the client was.
LEMMA LeadsForward ==
    ASSUME Typed, NEW d, Sent(d), ~IsMistaken, Stop(d) # d.from
    PROVE  /\ Leads(Lines(d.from, Stop(d), PlayersOf(d)), Picture(Progress), Picture(Stop(d)))
           /\ nextExpectedEventNo + Stop(d) - d.from = Stop(d)
           /\ Stop(d) \in 1..Total
<1>1. /\ client \in {1, 2} /\ PlanTyped /\ ClientTyped
      /\ Made \in 1..Total /\ Total \in Nat /\ Total >= 2
      /\ nextExpectedEventNo \in 0..Made
  BY MadeFacts DEF Typed, ClientTyped
<1> DEFINE f == d.from
           s == Stop(d)
           u == ToldUpTo(s)
           ls == Lines(f, s, PlayersOf(d))
<1>2. f \in 0..(Made - 1) /\ s \in 1..Made /\ f < s /\ Reads(f) = nextExpectedEventNo
  BY <1>1, TakenFacts, TakingFacts
<1>3. /\ ls \in Seq(Told) /\ Len(ls) = u - f
      /\ \A k \in 1..Len(ls) :
             /\ f + k - 1 \in Tellable
             /\ ls[k] = Line(Event(f + k - 1), List)
      /\ ls # <<>> \/ f # 0
  BY <1>1, <1>2, LinesFacts
<1>4. u = s \/ (u = s - 1 /\ s = Total)
  BY <1>1, <1>2 DEF ToldUpTo
<1> HIDE DEF f, s, u, ls
<1>5. nextExpectedEventNo = f
  BY <1>1, <1>2 DEF IsMistaken
<1>6. (f = 0 /\ ls # <<>>) \/ Picture(Progress) = Picture(f)
  BY <1>3, <1>5 DEF Progress
<1>7. Leads(ls, Picture(Progress), Picture(f + Len(ls)))
  <2>1. f \in Nat
    BY <1>2
  <2> QED BY <1>3, <1>6, <2>1, LeadsAlong
<1>8. Picture(f + Len(ls)) = Picture(s)
  <2>1. f + Len(ls) = u
    BY <1>1, <1>2, <1>3, <1>4
  <2>2. Picture(Total) = Picture(Total - 1)
    BY <1>1, LastPicture
  <2> QED BY <1>4, <2>1, <2>2
<1>9. s \in 1..Total /\ nextExpectedEventNo + s - f = s
  BY <1>1, <1>2, <1>5
<1> QED BY <1>7, <1>8, <1>9 DEF f, s, ls

LEMMA ScreenFollowsStep == Typed /\ ScreenFollows /\ [Next]_vars => ScreenFollows'
<1> SUFFICES ASSUME Typed, ScreenFollows, [Next]_vars,
                    gui' = "running", runs', cuts' = 0, ~IsMistaken'
             PROVE  Leads(Coming, screen, Picture(Progress))'
  BY DEF ScreenFollows
<1>1. /\ gui = "running" /\ cuts = 0 /\ client' = client /\ plan' = plan
      /\ Made' \in Nat /\ Made <= Made'
      /\ \/ \E d : Sent(d) /\ Receive(d)
         \/ /\ UNCHANGED <<nextExpectedEventNo, known, runs>>
            /\ \/ Coming' = Coming /\ screen' = screen
               \/ /\ Coming # <<>> /\ Coming' = Tail(Coming)
                  /\ Coming[1] \in Told \cup Cut /\ ProcessCommand(Coming[1])
  BY QuietSteps
<1>2. /\ Made \in 1..Total /\ Total \in Nat /\ Total <= MaxNumber /\ MaxNumber \in Nat
      /\ client \in {1, 2}
  BY MadeFacts, MaxNumberAssumption DEF Typed, ClientTyped
<1>3. /\ Total' = Total
      /\ \A n : Reads(n)' = Reads(n)
      /\ \A n : Picture(n)' = Picture(n)
      /\ \A s, a, b : Leads(s, a, b)' = Leads(s, a, b)
  BY <1>1, SameGame, SameWay
<1>4. ~IsMistaken
  <2>1. SUFFICES ASSUME NEW i \in 0..(Made - 1), Reads(i) # i, Reads(i) <= Made PROVE FALSE
    BY DEF IsMistaken
  <2>2. Reads(i) \in Nat
    <3>1. i \in 0..MaxNumber
      BY <1>2
    <3> QED BY <1>2, <3>1, ReadsFacts
  <2>3. i \in 0..(Made' - 1) /\ Reads(i) <= Made'
    <3>1. ASSUME NEW m \in Nat, NEW n \in Nat, m <= n, NEW j \in 0..(m - 1),
                 NEW r \in Nat, r <= m
          PROVE  j \in 0..(n - 1) /\ r <= n
      BY <3>1
    <3>2. Made \in Nat
      BY <1>2
    <3> QED BY <1>1, <2>1, <2>2, <3>1, <3>2
  <2> QED BY <1>3, <2>1, <2>3 DEF IsMistaken
<1>5. runs => Leads(Coming, screen, Picture(Progress))
  BY <1>1, <1>4 DEF ScreenFollows
<1>6. SUFFICES Leads(Coming', screen', Picture(Progress'))
  <2>1. Picture(Progress)' = Picture(Progress')
    BY <1>3
  <2> QED BY <1>3, <2>1
<1>7. ASSUME UNCHANGED <<nextExpectedEventNo, known, runs>> PROVE Progress' = Progress
  BY <1>3, <1>7 DEF Progress
<1>8. ASSUME UNCHANGED <<nextExpectedEventNo, known, runs>>, Coming' = Coming, screen' = screen
      PROVE  Leads(Coming', screen', Picture(Progress'))
  BY <1>5, <1>7, <1>8
<1>9. ASSUME UNCHANGED <<nextExpectedEventNo, known, runs>>,
             Coming # <<>>, Coming' = Tail(Coming), ProcessCommand(Coming[1])
      PROVE  Leads(Coming', screen', Picture(Progress'))
  <2>1. Coming \in Seq(Told \cup Cut)
    BY ComingFacts DEF Typed
  <2>2. PICK n \in Tellable :
            /\ Coming[1] = Line(Event(n), List)
            /\ n = 0 \/ screen = Picture(n)
            /\ Leads(Tail(Coming), Picture(n + 1), Picture(Progress))
    BY <1>5, <1>9, <2>1, LeadsFirst
  <2>3. screen' = Picture(n + 1)
    BY <1>9, <2>2, ObeyPicture
  <2> QED BY <1>7, <1>9, <2>2, <2>3
<1>10. ASSUME NEW d, Sent(d), Receive(d)
       PROVE  Leads(Coming', screen', Picture(Progress'))
  <2> DEFINE ls == Lines(d.from, Stop(d), PlayersOf(d))
  <2>1. /\ runs /\ screen' = screen /\ Coming' = Coming \o ls
        /\ known' = IF Stop(d) > d.from THEN PlayersOf(d) ELSE known
        /\ nextExpectedEventNo' =
               IF Stop(d) = d.from THEN nextExpectedEventNo
               ELSE IF client = 1 /\ Stop(d) = Total THEN 0
               ELSE nextExpectedEventNo + Stop(d) - d.from
    BY <1>10, QuietReceive
  <2>2. Coming \in Seq(Told \cup Cut) /\ ls \in Seq(Told \cup Cut)
    <3> DEFINE L == Told \cup Cut
    <3>1. ls \in Seq(Told) /\ Told \subseteq L /\ Coming \in Seq(L)
      BY <1>10, LinesFacts, ComingFacts DEF Typed
    <3> HIDE DEF L, ls
    <3>2. ls \in Seq(L)
      BY <3>1
    <3> QED BY <3>1, <3>2 DEF L
  <2>3. CASE Stop(d) = d.from
    <3>1. ls = <<>>
      BY <1>10, <2>3, LinesFacts DEF Typed
    <3>2. d.from \in Nat
      BY <1>2, <1>10, TakenFacts DEF Typed
    <3>3. known' = known /\ nextExpectedEventNo' = nextExpectedEventNo
      BY <2>1, <2>3, <3>2
    <3>4. Progress' = Progress
      BY <1>3, <3>3 DEF Progress
    <3>5. Coming' = Coming
      BY <2>1, <2>2, <3>1, ConcatEmptySeq
    <3> QED BY <1>5, <2>1, <3>4, <3>5
  <2>4. CASE Stop(d) # d.from
    <3>1. /\ Leads(ls, Picture(Progress), Picture(Stop(d)))
          /\ nextExpectedEventNo + Stop(d) - d.from = Stop(d)
          /\ Stop(d) \in 1..Total
      BY <1>4, <1>10, <2>4, LeadsForward
    <3>2. PlayersOf(d) # <<>> /\ d.from < Stop(d)
      <4>1. PlayersOf(d) = List /\ Len(List) >= 2 /\ d.from < Stop(d)
        BY <1>10, <2>4, TakingFacts DEF Typed
      <4>2. Len(<<>>) = 0 /\ ~(0 >= 2)
        OBVIOUS
      <4> QED BY <4>1, <4>2
    <3>3. Stop(d) > d.from
      BY <1>2, <1>10, <3>1, <3>2, TakenFacts DEF Typed
    <3>4. known' # <<>>
      BY <2>1, <3>2, <3>3
    <3>5. Progress' = Stop(d)
      <4>1. CASE client = 1 /\ Stop(d) = Total
        BY <1>3, <2>1, <2>4, <3>4, <4>1 DEF Progress
      <4>2. CASE ~(client = 1 /\ Stop(d) = Total)
        <5>1. nextExpectedEventNo' = Stop(d) /\ Stop(d) # 0
          BY <2>1, <2>4, <3>1, <4>2
        <5> QED BY <5>1 DEF Progress
      <4> QED BY <4>1, <4>2
    <3> HIDE DEF ls
    <3>6. Leads(Coming \o ls, screen, Picture(Stop(d)))
      BY <1>5, <2>1, <2>2, <3>1, LeadsOn
    <3> QED BY <2>1, <3>5, <3>6
  <2> QED BY <2>3, <2>4
<1> QED BY <1>1, <1>8, <1>9, <1>10

LEMMA PortraitIsPicture ==
    ASSUME ClientTyped
    PROVE  Portrait(Progress) = Picture(Progress)
<1>1. CASE known = <<>>
  <2>1. nextExpectedEventNo = 0
    <3>1. nextExpectedEventNo > 0 => known = List /\ Len(List) >= 2
      BY DEF ClientTyped
    <3>2. ~(Len(<<>>) >= 2)
      OBVIOUS
    <3>3. nextExpectedEventNo \in Nat
      BY MadeFacts DEF ClientTyped
    <3> QED BY <1>1, <3>1, <3>2, <3>3
  <2>2. Progress = 0
    BY <1>1, <2>1 DEF Progress
  <2> QED BY <2>2 DEF Portrait, Picture
<1>2. CASE known # <<>>
  <2>1. known = List
    BY <1>2 DEF ClientTyped
  <2>2. SubSeq(known, 1, Min({Len(known), MaxPlayer})) = Listed
    BY <2>1 DEF Listed
  <2> QED BY <2>2 DEF Portrait, Picture, OfListed, FirstEvents
<1> QED BY <1>1, <1>2

\* When everything written has been read, and no line was cut, the screen shows
\* exactly the part of the game that the client has read, whatever the sizes of
\* datagrams, of the TCP connection and of the list, unless client 1 takes the
\* number of an event for that of another one (event.cpp, client.cpp, cmd.c).
THEOREM ScreenCorrect == Spec => []ScreenFollowsLog
<1> DEFINE Inv == Typed /\ ScreenFollows
<1>1. Init => Inv
  <2>1. Init => Typed
    BY ClientTypedInit, ScreenTypedInit DEF Typed
  <2>2. ASSUME Init PROVE ScreenFollows
    <3>1. Coming = <<>>
      BY <2>1, <2>2, ComingFacts DEF Typed, Init, GuiInit
    <3>2. Progress = 0 /\ screen = Picture(0)
      BY <2>2 DEF Progress, Init, GuiInit, Picture
    <3> QED BY <3>1, <3>2, LeadsNowhere DEF ScreenFollows
  <2> QED BY <2>1, <2>2
<1>2. Inv /\ [Next]_vars => Inv'
  <2>1. Typed /\ [Next]_vars => Typed'
    BY ClientTypedStep, LinesTypedStep DEF Typed
  <2> QED BY <2>1, ScreenFollowsStep
<1>3. Inv => ScreenFollowsLog
  <2>1. SUFFICES ASSUME Inv, gui = "running", runs, stream = <<>>, out = <<>>, cuts = 0,
                        ~IsMistaken
                 PROVE  screen = Portrait(Progress)
    BY DEF ScreenFollowsLog
  <2>2. Coming = <<>>
    BY <2>1, ComingFacts DEF Typed
  <2>3. Leads(<<>>, screen, Picture(Progress))
    BY <2>1, <2>2 DEF ScreenFollows
  <2> QED BY <2>1, <2>3, LeadsNowhere, PortraitIsPicture DEF Typed
<1> QED BY <1>1, <1>2, <1>3, PTL DEF Spec

=============================================================================
