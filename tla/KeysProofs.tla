---------------------------- MODULE KeysProofs ----------------------------
(***************************************************************************)
(* However TCP cuts the lines of the GUI, a client that has read all of    *)
(* them turns as the player wants: for a stream of any length.             *)
(*                                                                         *)
(* What a parser makes of a message is a recursive function of the number  *)
(* of pieces read.  The first part is about such functions: they exist,    *)
(* there is one only, and a message may be cut in two.  The proofs are by  *)
(* induction, in the form that a set of numbers has a least one.           *)
(***************************************************************************)
EXTENDS Keys, SequenceTheorems, WellFoundedInduction, TLAPS

-----------------------------------------------------------------------------
(* Runs of a parser *)

LEMMA LeastNat ==
    ASSUME NEW T \in SUBSET Nat, T # {}
    PROVE  \E m \in T : \A k \in T : m <= k
<1> DEFINE R == OpToRel(<, Nat)
<1>1. IsWellFoundedOn(R, Nat)
  BY NatLessThanWellFounded
<1>2. \A x, y \in Nat : <<y, x>> \in R <=> y < x
  BY DEF OpToRel
<1> HIDE DEF R
<1>3. PICK m \in T : \A k \in T : ~ (<<k, m>> \in R)
  BY <1>1, WFMin
<1>4. ASSUME NEW k \in T PROVE m <= k
  <2>1. m \in Nat /\ k \in Nat
    OBVIOUS
  <2>2. ~(k < m)
    BY <1>2, <1>3, <2>1
  <2> QED BY <2>1, <2>2
<1> QED BY <1>4

\* f[i] is the state after i pieces of w, from the state s on.
IsRun(f, S, P, step, s, w) ==
    /\ step \in [S -> [P -> S]]
    /\ s \in S
    /\ w \in Seq(P)
    /\ f = [i \in 0..Len(w) |-> IF i = 0 THEN s ELSE step[f[i - 1]][w[i]]]

\* The same without a recursive equation.
GoesOn(f, S, step, s, w) ==
    /\ f \in [0..Len(w) -> S]
    /\ f[0] = s
    /\ \A i \in 1..Len(w) : f[i] = step[f[i - 1]][w[i]]

\* Every state of a run is a state.
LEMMA RunTyped ==
    ASSUME NEW S, NEW P, NEW step, NEW s, NEW w, NEW f, IsRun(f, S, P, step, s, w)
    PROVE  GoesOn(f, S, step, s, w)
<1> DEFINE Wrong == {i \in 0..Len(w) : f[i] \notin S}
<1>0. /\ step \in [S -> [P -> S]]
      /\ Len(w) \in Nat
      /\ \A i \in 1..Len(w) : w[i] \in P
  BY DEF IsRun
<1>1. \A i \in 0..Len(w) : f[i] = IF i = 0 THEN s ELSE step[f[i - 1]][w[i]]
  BY DEF IsRun
<1>2. f[0] = s /\ s \in S
  BY <1>0, <1>1 DEF IsRun
<1>3. \A i \in 1..Len(w) : f[i] = step[f[i - 1]][w[i]]
  BY <1>0, <1>1
<1>4. ASSUME Wrong # {} PROVE FALSE
  <2>0. Wrong \in SUBSET Nat
    BY <1>0
  <2> HIDE DEF Wrong
  <2>1. PICK m \in Wrong : \A k \in Wrong : m <= k
    BY <2>0, <1>4, LeastNat
  <2> USE DEF Wrong
  <2>2. m \in 1..Len(w)
    BY <1>0, <1>2, <2>1
  <2>3. m - 1 \in 0..Len(w) /\ m - 1 \notin Wrong
    BY <1>0, <2>1, <2>2
  <2>4. f[m - 1] \in S /\ w[m] \in P
    BY <1>0, <2>2, <2>3
  <2>5. f[m] \in S
    BY <1>0, <1>3, <2>2, <2>4
  <2> QED BY <2>1, <2>5
<1>5. DOMAIN f = 0..Len(w) /\ f = [i \in DOMAIN f |-> f[i]]
  BY DEF IsRun
<1>6. f \in [0..Len(w) -> S]
  BY <1>4, <1>5
<1> QED BY <1>2, <1>3, <1>6 DEF GoesOn

\* There is one run only.
LEMMA RunUnique ==
    ASSUME NEW S, NEW P, NEW step, NEW s, NEW w,
           NEW f, IsRun(f, S, P, step, s, w), NEW g, IsRun(g, S, P, step, s, w)
    PROVE  f = g
<1> DEFINE Wrong == {i \in 0..Len(w) : f[i] # g[i]}
<1>0. Len(w) \in Nat
  BY DEF IsRun
<1>1a. GoesOn(f, S, step, s, w)
  BY RunTyped
<1>1. /\ f \in [0..Len(w) -> S]
      /\ f[0] = s
      /\ \A i \in 1..Len(w) : f[i] = step[f[i - 1]][w[i]]
  BY <1>1a DEF GoesOn
<1>2a. GoesOn(g, S, step, s, w)
  BY RunTyped
<1>2. /\ g \in [0..Len(w) -> S]
      /\ g[0] = s
      /\ \A i \in 1..Len(w) : g[i] = step[g[i - 1]][w[i]]
  BY <1>2a DEF GoesOn
<1>3. ASSUME Wrong # {} PROVE FALSE
  <2>0. Wrong \in SUBSET Nat
    BY <1>0
  <2> HIDE DEF Wrong
  <2>1. PICK m \in Wrong : \A k \in Wrong : m <= k
    BY <2>0, <1>3, LeastNat
  <2> USE DEF Wrong
  <2>2. m \in 1..Len(w)
    BY <1>0, <1>1, <1>2, <2>1
  <2>3. m - 1 \in 0..Len(w) /\ m - 1 \notin Wrong
    BY <1>0, <2>1, <2>2
  <2>4. f[m - 1] = g[m - 1]
    BY <2>3
  <2>5. f[m] = g[m]
    BY <1>1, <1>2, <2>2, <2>4
  <2> QED BY <2>1, <2>5
<1>4. \A i \in 0..Len(w) : f[i] = g[i]
  BY <1>3
<1> QED BY <1>1, <1>2, <1>4

\* A run goes on with one more piece.
LEMMA RunLonger ==
    ASSUME NEW S, NEW P, NEW step, NEW s, NEW w, NEW p \in P,
           NEW f, IsRun(f, S, P, step, s, w)
    PROVE  \E g : /\ IsRun(g, S, P, step, s, w \o <<p>>)
                  /\ g[Len(w) + 1] = step[f[Len(w)]][p]
<1> DEFINE u == w \o <<p>>
           n == Len(w)
           g == [i \in 0..n + 1 |-> IF i = n + 1 THEN step[f[n]][p] ELSE f[i]]
<1>0. /\ n \in Nat
      /\ Len(u) = n + 1
      /\ u[n + 1] = p
      /\ \A i \in 1..n : u[i] = w[i]
      /\ u \in Seq(P) /\ s \in S /\ step \in [S -> [P -> S]]
  BY DEF IsRun
<1>1a. GoesOn(f, S, step, s, w)
  BY RunTyped
<1>1. /\ f \in [0..n -> S]
      /\ f[0] = s
      /\ \A i \in 1..n : f[i] = step[f[i - 1]][w[i]]
  BY <1>1a DEF GoesOn
<1>2. g[n + 1] = step[f[n]][p] /\ \A i \in 0..n : g[i] = f[i]
  BY <1>0
<1>3. ASSUME NEW i \in 0..n + 1
      PROVE  g[i] = IF i = 0 THEN s ELSE step[g[i - 1]][u[i]]
  <2>1. CASE i = 0
    BY <1>0, <1>1, <1>2, <2>1
  <2>2. CASE i \in 1..n
    <3>1. i \in 0..n /\ i - 1 \in 0..n /\ i # 0
      BY <1>0, <2>2
    <3>2. g[i] = f[i] /\ g[i - 1] = f[i - 1] /\ u[i] = w[i]
      BY <1>0, <1>2, <2>2, <3>1
    <3> QED BY <1>1, <2>2, <3>1, <3>2
  <2>3. CASE i = n + 1
    <3>1. i # 0 /\ i - 1 = n /\ n \in 0..n
      BY <1>0, <2>3
    <3>2. g[i - 1] = f[n] /\ u[i] = p
      BY <1>0, <1>2, <2>3, <3>1
    <3> QED BY <1>2, <2>3, <3>1, <3>2
  <2> QED BY <1>0, <2>1, <2>2, <2>3
<1>4. DOMAIN g = 0..n + 1
  OBVIOUS
<1> HIDE DEF g
<1>5. g = [i \in 0..n + 1 |-> g[i]]
  BY DEF g
<1>6. g = [i \in 0..Len(u) |-> IF i = 0 THEN s ELSE step[g[i - 1]][u[i]]]
  BY <1>0, <1>3, <1>5
<1> QED BY <1>0, <1>2, <1>6 DEF IsRun

\* There is a run for every message.
LEMMA RunExists ==
    ASSUME NEW S, NEW P, NEW step \in [S -> [P -> S]], NEW s \in S,
           NEW w \in Seq(P)
    PROVE  \E f : IsRun(f, S, P, step, s, w)
<1> DEFINE Run(v) == \E f : IsRun(f, S, P, step, s, v)
           Short == {n \in Nat : \E v \in Seq(P) : Len(v) = n /\ ~Run(v)}
<1>1. ASSUME Short # {} PROVE FALSE
  <2>0. Short \in SUBSET Nat
    OBVIOUS
  <2> HIDE DEF Short
  <2>1. PICK n \in Short : \A k \in Short : n <= k
    BY <2>0, <1>1, LeastNat
  <2> USE DEF Short
  <2> HIDE DEF Run
  <2>2. PICK v \in Seq(P) : Len(v) = n /\ ~Run(v)
    OBVIOUS
  <2>3. CASE n = 0
    <3> DEFINE f == [i \in 0..Len(v) |-> s]
    <3>1. f = [i \in 0..Len(v) |-> IF i = 0 THEN s ELSE step[f[i - 1]][v[i]]]
      BY <2>2, <2>3
    <3>2. IsRun(f, S, P, step, s, v)
      BY <3>1 DEF IsRun
    <3> QED BY <2>2, <3>2 DEF Run
  <2>4. CASE n # 0
    <3> DEFINE u == SubSeq(v, 1, n - 1)
               p == v[n]
    <3>1. n \in Nat /\ n - 1 \in Nat /\ n - 1 < n
      BY <2>4
    <3>2. u \in Seq(P) /\ Len(u) = n - 1 /\ p \in P
      BY <2>2, <3>1
    <3>3. v = u \o <<p>>
      <4>1. 1 \in 1..Len(v) /\ n \in 1..Len(v)
        BY <2>2, <3>1
      <4>2. SubSeq(v, 1, n) = SubSeq(v, 1, n - 1) \o <<v[n]>>
        BY <4>1, SubSeqRecursiveSecond
      <4>3. SubSeq(v, 1, n) = v
        BY <2>2, SubSeqFull
      <4> QED BY <4>2, <4>3
    <3> HIDE DEF u, p
    <3>4. n - 1 \notin Short
      BY <2>1, <3>1
    <3>5. Run(u)
      BY <3>1, <3>2, <3>4
    <3>6. PICK f : IsRun(f, S, P, step, s, u)
      BY <3>5 DEF Run
    <3>7. PICK g : IsRun(g, S, P, step, s, v)
      BY <3>2, <3>3, <3>6, RunLonger
    <3> QED BY <2>2, <3>7 DEF Run
  <2> QED BY <2>3, <2>4
<1> HIDE DEF Run
<1>2. Len(w) \in Nat /\ Len(w) \notin Short
  BY <1>1
<1>3. Run(w)
  BY <1>2
<1> QED BY <1>3 DEF Run

\* h is a run over the message v and then w, f and g the runs over each.
CutRun(f, g, h, S, P, step, s, v, w) ==
    /\ IsRun(f, S, P, step, s, v)
    /\ IsRun(g, S, P, step, f[Len(v)], w)
    /\ IsRun(h, S, P, step, s, v \o w)

\* A message cut in two gives the same state in the end.
LEMMA RunOfTwo ==
    ASSUME NEW S, NEW P, NEW step, NEW s, NEW v, NEW w, NEW f, NEW g, NEW h,
           CutRun(f, g, h, S, P, step, s, v, w)
    PROVE  h[Len(v \o w)] = g[Len(w)]
<1> DEFINE m == Len(v)
           n == Len(w)
           x == v \o w
<1>0. /\ m \in Nat /\ n \in Nat
      /\ v \in Seq(P) /\ w \in Seq(P)
  BY DEF CutRun, IsRun
<1>1a. GoesOn(f, S, step, s, v)
  BY RunTyped DEF CutRun
<1>1. /\ f[0] = s
      /\ \A i \in 1..m : f[i] = step[f[i - 1]][v[i]]
  BY <1>1a DEF GoesOn
<1>2a. GoesOn(g, S, step, f[Len(v)], w)
  BY RunTyped DEF CutRun
<1>2. /\ g[0] = f[m]
      /\ \A i \in 1..n : g[i] = step[g[i - 1]][w[i]]
  BY <1>2a DEF GoesOn
<1>3a. GoesOn(h, S, step, s, x)
  BY RunTyped DEF CutRun
<1>3. /\ h[0] = s
      /\ \A i \in 1..Len(x) : h[i] = step[h[i - 1]][x[i]]
  BY <1>3a DEF GoesOn
<1>4. /\ \A i \in 1..m : x[i] = v[i]
      /\ \A i \in 1..n : x[m + i] = w[i]
      /\ Len(x) = m + n
  BY <1>0
<1> HIDE DEF x
<1> DEFINE Wrong1 == {i \in 0..m : h[i] # f[i]}
           Wrong2 == {i \in 0..n : h[m + i] # g[i]}
<1>5. ASSUME Wrong1 # {} PROVE FALSE
  <2>0. Wrong1 \in SUBSET Nat
    BY <1>0
  <2> HIDE DEF Wrong1
  <2>1. PICK k \in Wrong1 : \A j \in Wrong1 : k <= j
    BY <2>0, <1>5, LeastNat
  <2> USE DEF Wrong1
  <2>2. k \in 1..m /\ k \in 1..Len(x)
    BY <1>0, <1>1, <1>3, <1>4, <2>1
  <2>3. k - 1 \in 0..m /\ k - 1 \notin Wrong1
    BY <1>0, <2>1, <2>2
  <2>4. h[k - 1] = f[k - 1]
    BY <2>3
  <2>5. h[k] = f[k]
    BY <1>1, <1>3, <1>4, <2>2, <2>4
  <2> QED BY <2>1, <2>5
<1>6. h[m] = f[m]
  BY <1>0, <1>5
<1>7. ASSUME Wrong2 # {} PROVE FALSE
  <2>0. Wrong2 \in SUBSET Nat
    BY <1>0
  <2> HIDE DEF Wrong2
  <2>1. PICK k \in Wrong2 : \A j \in Wrong2 : k <= j
    BY <2>0, <1>7, LeastNat
  <2> USE DEF Wrong2
  <2>2. k \in 1..n /\ m + k \in 1..Len(x) /\ (m + k) - 1 = m + (k - 1)
    BY <1>0, <1>2, <1>4, <1>6, <2>1
  <2>3. k - 1 \in 0..n /\ k - 1 \notin Wrong2
    BY <1>0, <2>1, <2>2
  <2>4. h[(m + k) - 1] = g[k - 1]
    BY <2>2, <2>3
  <2>5. h[m + k] = g[k]
    <3>1. h[m + k] = step[h[(m + k) - 1]][x[m + k]]
      BY <1>3, <2>2
    <3>2. x[m + k] = w[k] /\ g[k] = step[g[k - 1]][w[k]]
      BY <1>2, <1>4, <2>2
    <3> QED BY <2>4, <3>1, <3>2
  <2> QED BY <2>1, <2>5
<1>8. h[m + n] = g[n]
  BY <1>0, <1>7
<1> QED BY <1>4, <1>8 DEF x

-----------------------------------------------------------------------------
(* The two parsers *)

Piece == Halves \cup {Newline, Stale}

State1 == [text : Seq(Halves \cup {Stale}), left : BOOLEAN, right : BOOLEAN]
State2 == [text : Seq(Halves \cup {Stale}), turn : Key \cup {Straight}]

Step1 == [s \in State1 |-> [p \in Piece |-> ParsePiece(s, p)]]
Step2 == [s \in State2 |-> [p \in Piece |-> MovePiece(s, p)]]

LEMMA EmptyIsText == <<>> \in Seq(Halves \cup {Stale})
  BY EmptySeq

LEMMA Step1Typed == Step1 \in [State1 -> [Piece -> State1]]
<1>1. ASSUME NEW s \in State1, NEW p \in Piece
      PROVE  ParsePiece(s, p) \in State1
  <2>1. Obey(s) \in State1
    BY DEF Obey, State1
  <2>2. CASE p = Newline
    BY <2>1, <2>2, EmptyIsText DEF ParsePiece, State1
  <2>3. CASE p # Newline
    <3>1. p \in Halves \cup {Stale}
      BY <2>3 DEF Piece
    <3>2. Append(s.text, p) \in Seq(Halves \cup {Stale})
      BY <3>1 DEF State1
    <3> QED BY <2>3, <3>2 DEF ParsePiece, State1
  <2> QED BY <2>2, <2>3
<1> QED BY <1>1 DEF Step1

LEMMA Step2Typed == Step2 \in [State2 -> [Piece -> State2]]
<1>1. ASSUME NEW s \in State2, NEW p \in Piece
      PROVE  MovePiece(s, p) \in State2
  <2>1. Move(s) \in State2
    BY DEF Move, State2, Key
  <2>2. CASE p = Newline
    BY <2>1, <2>2, EmptyIsText DEF MovePiece, State2
  <2>3. CASE p # Newline
    <3>1. p \in Halves \cup {Stale}
      BY <2>3 DEF Piece
    <3>2. Append(s.text, p) \in Seq(Halves \cup {Stale})
      BY <3>1 DEF State2
    <3> QED BY <2>3, <3>2 DEF MovePiece, State2
  <2> QED BY <2>2, <2>3
<1> QED BY <1>1 DEF Step2

\* What Parse1 returns is the end of a run.
LEMMA Parse1IsRun ==
    ASSUME NEW s \in State1, NEW w \in Seq(Piece)
    PROVE  \E f : IsRun(f, State1, Piece, Step1, s, w) /\ Parse1(s, w) = f[Len(w)]
<1>1. PICK f : IsRun(f, State1, Piece, Step1, s, w)
  BY RunExists, Step1Typed
<1>2. GoesOn(f, State1, Step1, s, w)
  BY <1>1, RunTyped
<1>3. Len(w) \in Nat /\ \A i \in 1..Len(w) : w[i] \in Piece
  OBVIOUS
<1> DEFINE IsAfter(g) ==
               g = [i \in 0..Len(w) |->
                       IF i = 0 THEN s ELSE ParsePiece(g[i - 1], w[i])]
           after == CHOOSE g : IsAfter(g)
<1>4. \A i \in 1..Len(w) : f[i] = ParsePiece(f[i - 1], w[i])
  <2>1. TAKE i \in 1..Len(w)
  <2>2. i - 1 \in 0..Len(w)
    BY <1>3
  <2>3. f[i - 1] \in State1 /\ f[i] = Step1[f[i - 1]][w[i]]
    BY <1>2, <2>2 DEF GoesOn
  <2> QED BY <1>3, <2>3 DEF Step1
<1>5. IsAfter(f)
  <2>1. f = [i \in 0..Len(w) |-> f[i]] /\ f[0] = s
    BY <1>2 DEF GoesOn
  <2> QED BY <1>3, <1>4, <2>1
<1>6. IsAfter(after)
  <2> HIDE DEF IsAfter
  <2> QED BY <1>5
<1> HIDE DEF after
<1>7. \A i \in 0..Len(w) :
          after[i] = IF i = 0 THEN s ELSE ParsePiece(after[i - 1], w[i])
  BY <1>6
<1> DEFINE Wrong == {i \in 0..Len(w) : after[i] # f[i]}
<1>8. ASSUME Wrong # {} PROVE FALSE
  <2>0. Wrong \in SUBSET Nat
    BY <1>3
  <2> HIDE DEF Wrong
  <2>1. PICK k \in Wrong : \A j \in Wrong : k <= j
    BY <2>0, <1>8, LeastNat
  <2> USE DEF Wrong
  <2>2. k \in 1..Len(w)
    BY <1>2, <1>3, <1>7, <2>1 DEF GoesOn
  <2>3. k - 1 \in 0..Len(w) /\ k - 1 \notin Wrong
    BY <1>3, <2>1, <2>2
  <2>4. after[k - 1] = f[k - 1]
    BY <2>3
  <2>5. after[k] = f[k]
    BY <1>3, <1>4, <1>7, <2>2, <2>4
  <2> QED BY <2>1, <2>5
<1>9. after[Len(w)] = f[Len(w)]
  BY <1>3, <1>8
<1>10. Parse1(s, w) = after[Len(w)]
  BY DEF Parse1, after
<1> QED BY <1>1, <1>9, <1>10

\* A message cut anywhere is parsed as in one piece.
Cut1(s, v, w) == Parse1(s, v \o w) = Parse1(Parse1(s, v), w)

LEMMA Parse1InPieces ==
    ASSUME NEW s \in State1
    PROVE  /\ Parse1(s, <<>>) = s
           /\ \A w \in Seq(Piece) : Parse1(s, w) \in State1
           /\ \A p \in Piece : Parse1(s, <<p>>) = ParsePiece(s, p)
           /\ \A v, w \in Seq(Piece) : Cut1(s, v, w)
<1>0. <<>> \in Seq(Piece) /\ \A p \in Piece : <<p>> \in Seq(Piece)
  BY EmptySeq
<1>1. ASSUME NEW w \in Seq(Piece)
      PROVE  Parse1(s, w) \in State1
  <2>1. PICK f : IsRun(f, State1, Piece, Step1, s, w) /\ Parse1(s, w) = f[Len(w)]
    BY Parse1IsRun
  <2>2. GoesOn(f, State1, Step1, s, w)
    BY <2>1, RunTyped
  <2>3. Len(w) \in 0..Len(w)
    OBVIOUS
  <2> QED BY <2>1, <2>2, <2>3 DEF GoesOn
<1>2. Parse1(s, <<>>) = s
  <2> DEFINE w == <<>>
  <2>1. w \in Seq(Piece) /\ Len(w) = 0
    BY <1>0
  <2> HIDE DEF w
  <2>2. PICK f : IsRun(f, State1, Piece, Step1, s, w) /\ Parse1(s, w) = f[Len(w)]
    BY <2>1, Parse1IsRun
  <2>3. GoesOn(f, State1, Step1, s, w)
    BY <2>2, RunTyped
  <2> QED BY <2>1, <2>2, <2>3 DEF GoesOn, w
<1>3. ASSUME NEW p \in Piece
      PROVE  Parse1(s, <<p>>) = ParsePiece(s, p)
  <2> DEFINE w == <<p>>
  <2>1. w \in Seq(Piece) /\ Len(w) = 1 /\ w[1] = p
    BY <1>0
  <2> HIDE DEF w
  <2>2. PICK f : IsRun(f, State1, Piece, Step1, s, w) /\ Parse1(s, w) = f[Len(w)]
    BY <2>1, Parse1IsRun
  <2>3. GoesOn(f, State1, Step1, s, w)
    BY <2>2, RunTyped
  <2>4. f[0] = s /\ f[1] = Step1[f[0]][w[1]]
    BY <2>1, <2>3 DEF GoesOn
  <2>5. f[1] = ParsePiece(s, p)
    BY <2>1, <2>4 DEF Step1
  <2> QED BY <2>1, <2>2, <2>5 DEF w
<1>4. ASSUME NEW v \in Seq(Piece), NEW w \in Seq(Piece)
      PROVE  Cut1(s, v, w)
  <2> DEFINE x == v \o w
  <2>1. x \in Seq(Piece) /\ x = v \o w
    OBVIOUS
  <2>2. PICK f : IsRun(f, State1, Piece, Step1, s, v) /\ Parse1(s, v) = f[Len(v)]
    BY Parse1IsRun
  <2> DEFINE r == Parse1(s, v)
  <2>3. r \in State1 /\ r = f[Len(v)]
    BY <1>1, <2>2
  <2> HIDE DEF r
  <2>4. PICK g : IsRun(g, State1, Piece, Step1, r, w) /\ Parse1(r, w) = g[Len(w)]
    BY <2>3, Parse1IsRun
  <2> HIDE DEF x
  <2>5. PICK h : IsRun(h, State1, Piece, Step1, s, x) /\ Parse1(s, x) = h[Len(x)]
    BY <2>1, Parse1IsRun
  <2>6. CutRun(f, g, h, State1, Piece, Step1, s, v, w)
    BY <2>1, <2>2, <2>3, <2>4, <2>5 DEF CutRun
  <2>7. h[Len(x)] = g[Len(w)]
    BY <2>1, <2>6, RunOfTwo
  <2> QED BY <2>1, <2>4, <2>5, <2>7 DEF r, Cut1
<1> QED BY <1>1, <1>2, <1>3, <1>4

(* The same for client 2. *)

\* What Parse2 returns is the end of a run.
LEMMA Parse2IsRun ==
    ASSUME NEW s \in State2, NEW w \in Seq(Piece)
    PROVE  \E f : IsRun(f, State2, Piece, Step2, s, w) /\ Parse2(s, w) = f[Len(w)]
<1>1. PICK f : IsRun(f, State2, Piece, Step2, s, w)
  BY RunExists, Step2Typed
<1>2. GoesOn(f, State2, Step2, s, w)
  BY <1>1, RunTyped
<1>3. Len(w) \in Nat /\ \A i \in 1..Len(w) : w[i] \in Piece
  OBVIOUS
<1> DEFINE IsAfter(g) ==
               g = [i \in 0..Len(w) |->
                       IF i = 0 THEN s ELSE MovePiece(g[i - 1], w[i])]
           after == CHOOSE g : IsAfter(g)
<1>4. \A i \in 1..Len(w) : f[i] = MovePiece(f[i - 1], w[i])
  <2>1. TAKE i \in 1..Len(w)
  <2>2. i - 1 \in 0..Len(w)
    BY <1>3
  <2>3. f[i - 1] \in State2 /\ f[i] = Step2[f[i - 1]][w[i]]
    BY <1>2, <2>2 DEF GoesOn
  <2> QED BY <1>3, <2>3 DEF Step2
<1>5. IsAfter(f)
  <2>1. f = [i \in 0..Len(w) |-> f[i]] /\ f[0] = s
    BY <1>2 DEF GoesOn
  <2> QED BY <1>3, <1>4, <2>1
<1>6. IsAfter(after)
  <2> HIDE DEF IsAfter
  <2> QED BY <1>5
<1> HIDE DEF after
<1>7. \A i \in 0..Len(w) :
          after[i] = IF i = 0 THEN s ELSE MovePiece(after[i - 1], w[i])
  BY <1>6
<1> DEFINE Wrong == {i \in 0..Len(w) : after[i] # f[i]}
<1>8. ASSUME Wrong # {} PROVE FALSE
  <2>0. Wrong \in SUBSET Nat
    BY <1>3
  <2> HIDE DEF Wrong
  <2>1. PICK k \in Wrong : \A j \in Wrong : k <= j
    BY <2>0, <1>8, LeastNat
  <2> USE DEF Wrong
  <2>2. k \in 1..Len(w)
    BY <1>2, <1>3, <1>7, <2>1 DEF GoesOn
  <2>3. k - 1 \in 0..Len(w) /\ k - 1 \notin Wrong
    BY <1>3, <2>1, <2>2
  <2>4. after[k - 1] = f[k - 1]
    BY <2>3
  <2>5. after[k] = f[k]
    BY <1>3, <1>4, <1>7, <2>2, <2>4
  <2> QED BY <2>1, <2>5
<1>9. after[Len(w)] = f[Len(w)]
  BY <1>3, <1>8
<1>10. Parse2(s, w) = after[Len(w)]
  BY DEF Parse2, after
<1> QED BY <1>1, <1>9, <1>10

\* A message cut anywhere is parsed as in one piece.
Cut2(s, v, w) == Parse2(s, v \o w) = Parse2(Parse2(s, v), w)

LEMMA Parse2InPieces ==
    ASSUME NEW s \in State2
    PROVE  /\ Parse2(s, <<>>) = s
           /\ \A w \in Seq(Piece) : Parse2(s, w) \in State2
           /\ \A p \in Piece : Parse2(s, <<p>>) = MovePiece(s, p)
           /\ \A v, w \in Seq(Piece) : Cut2(s, v, w)
<1>0. <<>> \in Seq(Piece) /\ \A p \in Piece : <<p>> \in Seq(Piece)
  BY EmptySeq
<1>1. ASSUME NEW w \in Seq(Piece)
      PROVE  Parse2(s, w) \in State2
  <2>1. PICK f : IsRun(f, State2, Piece, Step2, s, w) /\ Parse2(s, w) = f[Len(w)]
    BY Parse2IsRun
  <2>2. GoesOn(f, State2, Step2, s, w)
    BY <2>1, RunTyped
  <2>3. Len(w) \in 0..Len(w)
    OBVIOUS
  <2> QED BY <2>1, <2>2, <2>3 DEF GoesOn
<1>2. Parse2(s, <<>>) = s
  <2> DEFINE w == <<>>
  <2>1. w \in Seq(Piece) /\ Len(w) = 0
    BY <1>0
  <2> HIDE DEF w
  <2>2. PICK f : IsRun(f, State2, Piece, Step2, s, w) /\ Parse2(s, w) = f[Len(w)]
    BY <2>1, Parse2IsRun
  <2>3. GoesOn(f, State2, Step2, s, w)
    BY <2>2, RunTyped
  <2> QED BY <2>1, <2>2, <2>3 DEF GoesOn, w
<1>3. ASSUME NEW p \in Piece
      PROVE  Parse2(s, <<p>>) = MovePiece(s, p)
  <2> DEFINE w == <<p>>
  <2>1. w \in Seq(Piece) /\ Len(w) = 1 /\ w[1] = p
    BY <1>0
  <2> HIDE DEF w
  <2>2. PICK f : IsRun(f, State2, Piece, Step2, s, w) /\ Parse2(s, w) = f[Len(w)]
    BY <2>1, Parse2IsRun
  <2>3. GoesOn(f, State2, Step2, s, w)
    BY <2>2, RunTyped
  <2>4. f[0] = s /\ f[1] = Step2[f[0]][w[1]]
    BY <2>1, <2>3 DEF GoesOn
  <2>5. f[1] = MovePiece(s, p)
    BY <2>1, <2>4 DEF Step2
  <2> QED BY <2>1, <2>2, <2>5 DEF w
<1>4. ASSUME NEW v \in Seq(Piece), NEW w \in Seq(Piece)
      PROVE  Cut2(s, v, w)
  <2> DEFINE x == v \o w
  <2>1. x \in Seq(Piece) /\ x = v \o w
    OBVIOUS
  <2>2. PICK f : IsRun(f, State2, Piece, Step2, s, v) /\ Parse2(s, v) = f[Len(v)]
    BY Parse2IsRun
  <2> DEFINE r == Parse2(s, v)
  <2>3. r \in State2 /\ r = f[Len(v)]
    BY <1>1, <2>2
  <2> HIDE DEF r
  <2>4. PICK g : IsRun(g, State2, Piece, Step2, r, w) /\ Parse2(r, w) = g[Len(w)]
    BY <2>3, Parse2IsRun
  <2> HIDE DEF x
  <2>5. PICK h : IsRun(h, State2, Piece, Step2, s, x) /\ Parse2(s, x) = h[Len(x)]
    BY <2>1, Parse2IsRun
  <2>6. CutRun(f, g, h, State2, Piece, Step2, s, v, w)
    BY <2>1, <2>2, <2>3, <2>4, <2>5 DEF CutRun
  <2>7. h[Len(x)] = g[Len(w)]
    BY <2>1, <2>6, RunOfTwo
  <2> QED BY <2>1, <2>4, <2>5, <2>7 DEF r, Cut2
<1> QED BY <1>1, <1>2, <1>3, <1>4

-----------------------------------------------------------------------------
(* Lines *)

Sent == Halves \cup {Newline}

\* The text that a parser holds after the piece p of a line.
TextAfter(p) ==
    IF p = Newline THEN <<>>
    ELSE IF p[3] = 1 THEN <<p>> ELSE Text(p[1], p[2])

\* q is the piece of a line, or of the next line, that comes after p.
Follows(p, q) ==
    IF p = Newline THEN q[3] = 1 /\ q # Newline
    ELSE IF p[3] = 1 THEN q = <<p[1], p[2], 2>> ELSE q = Newline

\* Piece i of w, where p is the piece that came before w.
PieceAt(p, w, i) == IF i = 0 THEN p ELSE w[i]

\* After the piece p, the pieces w complete the lines.
Completes(p, w) ==
    /\ \A i \in 1..Len(w) : Follows(PieceAt(p, w, i - 1), w[i])
    /\ PieceAt(p, w, Len(w)) = Newline

\* So they do after the text that a parser holds.
Pending(text, w) == \E p \in Sent : text = TextAfter(p) /\ Completes(p, w)

TextStep(text, q) == IF q = Newline THEN <<>> ELSE Append(text, q)

LEMMA PiecesDiffer ==
    /\ Newline \notin Halves
    /\ Stale \notin Halves
    /\ Newline # Stale
    /\ \A h \in Halves : h[1] \in Key /\ h[2] \in BOOLEAN /\ h[3] \in {1, 2}
                         /\ h = <<h[1], h[2], h[3]>>
  BY DEF Newline, Stale, Halves

LEMMA Pair ==
    ASSUME NEW S, NEW p \in S, NEW q \in S
    PROVE  Append(<<p>>, q) = <<p, q>> /\ <<p>> \o <<q>> = <<p, q>>
<1> DEFINE x == <<p>>
           y == <<p, q>>
           z == Append(x, q)
<1>1. x \in Seq(S) /\ Len(x) = 1 /\ x[1] = p
  OBVIOUS
<1>2. y \in Seq(S) /\ Len(y) = 2 /\ y[1] = p /\ y[2] = q
  OBVIOUS
<1> HIDE DEF x, y
<1>3. z \in Seq(S) /\ Len(z) = Len(x) + 1
  BY <1>1, AppendProperties, Zenon
<1>4. z[1] = p /\ z[2] = q
  <2>1. \A i \in 1..Len(x) : z[i] = x[i]
    BY <1>1, AppendProperties, Zenon
  <2>2. z[Len(x) + 1] = q
    BY <1>1, AppendProperties, Zenon
  <2> QED BY <1>1, <2>1, <2>2
<1>5. z = x \o <<q>>
  BY <1>1, AppendIsConcat, Zenon
<1> HIDE DEF z
<1>6. z = y
  BY <1>1, <1>2, <1>3, <1>4, SeqEqual
<1> QED BY <1>5, <1>6 DEF x, y, z

LEMMA TextAfterIsBeginning ==
    ASSUME NEW p \in Sent
    PROVE  TextAfter(p) \in Beginnings
<1>0. \A k \in Key, down \in BOOLEAN :
          {<<>>, SubSeq(Text(k, down), 1, 1), Text(k, down)} \subseteq Beginnings
  <2> DEFINE Of(k, down) == {<<>>, SubSeq(Text(k, down), 1, 1), Text(k, down)}
             All == {Of(k, down) : k \in Key, down \in BOOLEAN}
  <2>1. Beginnings = UNION All
    BY DEF Beginnings
  <2> HIDE DEF Of
  <2>2. \A k \in Key, down \in BOOLEAN : Of(k, down) \in All
    OBVIOUS
  <2> HIDE DEF All
  <2>3. \A k \in Key, down \in BOOLEAN : Of(k, down) \subseteq Beginnings
    BY <2>1, <2>2
  <2> QED BY <2>3 DEF Of
<1>1. CASE p = Newline
  <2>1. <<>> \in Beginnings
    BY <1>0 DEF Key
  <2> QED BY <1>1, <2>1 DEF TextAfter
<1>2. CASE p \in Halves /\ p[3] = 1
  <2>1. SubSeq(Text(p[1], p[2]), 1, 1) = <<p>>
    <3> DEFINE x == Text(p[1], p[2])
    <3>1. x \in Seq(Sent) /\ Len(x) = 2 /\ x[1] = p
      BY <1>2, PiecesDiffer DEF Text, Sent, Halves
    <3> HIDE DEF x
    <3> DEFINE y == SubSeq(x, 1, 1)
               z == <<p>>
    <3>2. y \in Seq(Sent) /\ Len(y) = 1 /\ y[1] = p
      BY <3>1
    <3>3. z \in Seq(Sent) /\ Len(z) = 1 /\ z[1] = p
      OBVIOUS
    <3> HIDE DEF y, z
    <3>4. y = z
      BY <3>2, <3>3, SeqEqual
    <3> QED BY <3>4 DEF x, y, z
  <2>2. <<p>> \in Beginnings
    BY <1>0, <1>2, <2>1, PiecesDiffer
  <2> QED BY <1>2, <2>2, PiecesDiffer DEF TextAfter
<1>3. CASE p \in Halves /\ p[3] = 2
  <2>1. Text(p[1], p[2]) \in Beginnings
    BY <1>0, <1>3, PiecesDiffer
  <2> QED BY <1>3, <2>1, PiecesDiffer DEF TextAfter
<1> QED BY <1>1, <1>2, <1>3, PiecesDiffer DEF Sent

LEMMA TextFollows ==
    ASSUME NEW p \in Sent, NEW q \in Sent, Follows(p, q)
    PROVE  TextStep(TextAfter(p), q) = TextAfter(q)
<1>1. CASE q = Newline
  BY <1>1 DEF TextStep, TextAfter
<1>2. CASE p = Newline /\ q \in Halves
  <2>1. q[3] = 1 /\ q # Newline
    BY <1>2, PiecesDiffer DEF Follows
  <2>2. TextAfter(p) = <<>> /\ TextAfter(q) = <<q>>
    BY <1>2, <2>1 DEF TextAfter
  <2>3. Append(<<>>, q) = <<q>>
    OBVIOUS
  <2> QED BY <2>1, <2>2, <2>3 DEF TextStep
<1>3. CASE p \in Halves /\ q \in Halves
  <2>1. p # Newline /\ q # Newline /\ p[3] = 1 /\ q = <<p[1], p[2], 2>>
    BY <1>3, PiecesDiffer DEF Follows
  <2>2. TextAfter(p) = <<p>> /\ p = <<p[1], p[2], 1>>
    BY <1>3, <2>1, PiecesDiffer DEF TextAfter
  <2>3. TextAfter(q) = Text(p[1], p[2])
    BY <2>1 DEF TextAfter
  <2>4. Append(<<p>>, q) = <<p, q>>
    BY Pair
  <2>5. Text(p[1], p[2]) = <<p, q>>
    BY <2>1, <2>2 DEF Text
  <2> QED BY <2>1, <2>2, <2>3, <2>4, <2>5 DEF TextStep
<1> QED BY <1>1, <1>2, <1>3 DEF Sent

\* The GUI sends another line.
LEMMA LinePending ==
    ASSUME NEW text, NEW w \in Seq(Sent), Pending(text, w),
           NEW k \in Key, NEW down \in BOOLEAN
    PROVE  /\ w \o Text(k, down) \o <<Newline>> \in Seq(Sent)
           /\ Pending(text, w \o Text(k, down) \o <<Newline>>)
<1> DEFINE a == <<k, down, 1>>
           b == <<k, down, 2>>
           x == w \o <<a, b>> \o <<Newline>>
           n == Len(w)
<1>1. a \in Sent /\ b \in Sent /\ Newline \in Sent
  BY DEF Sent, Halves
<1>2. /\ a # Newline /\ b # Newline
      /\ Follows(Newline, a) /\ Follows(a, b) /\ Follows(b, Newline)
  <2>1. a \in Halves /\ b \in Halves
    BY DEF Halves
  <2> QED BY <2>1, PiecesDiffer DEF Follows
<1> HIDE DEF a, b
<1>3. n \in Nat
  OBVIOUS
<1>4. /\ x \in Seq(Sent) /\ Len(x) = n + 3
      /\ \A i \in 1..n : x[i] = w[i]
      /\ x[n + 1] = a /\ x[n + 2] = b /\ x[n + 3] = Newline
  <2>1. <<a, b>> \in Seq(Sent) /\ <<Newline>> \in Seq(Sent)
    BY <1>1
  <2> QED BY <1>3, <2>1
<1> HIDE DEF x
<1>5. PICK p \in Sent : text = TextAfter(p) /\ Completes(p, w)
  BY DEF Pending
<1>6. PieceAt(p, w, n) = Newline
  BY <1>5 DEF Completes
<1>7. ASSUME NEW i \in 1..n + 3
      PROVE  Follows(PieceAt(p, x, i - 1), x[i])
  <2>1. CASE i \in 1..n
    <3>1. x[i] = w[i] /\ i - 1 \in 0..n
      BY <1>3, <1>4, <2>1
    <3>2. PieceAt(p, x, i - 1) = PieceAt(p, w, i - 1)
      BY <1>3, <1>4, <2>1 DEF PieceAt
    <3> QED BY <1>5, <2>1, <3>1, <3>2 DEF Completes
  <2>2. CASE i = n + 1
    <3>1. PieceAt(p, x, n) = PieceAt(p, w, n)
      BY <1>3, <1>4 DEF PieceAt
    <3>2. i - 1 = n
      BY <1>3, <2>2
    <3> QED BY <1>2, <1>4, <1>6, <2>2, <3>1, <3>2
  <2>3. CASE i = n + 2
    <3>1. i - 1 = n + 1 /\ n + 1 # 0
      BY <1>3, <2>3
    <3> QED BY <1>2, <1>4, <2>3, <3>1 DEF PieceAt
  <2>4. CASE i = n + 3
    <3>1. i - 1 = n + 2 /\ n + 2 # 0
      BY <1>3, <2>4
    <3> QED BY <1>2, <1>4, <2>4, <3>1 DEF PieceAt
  <2> QED BY <1>3, <2>1, <2>2, <2>3, <2>4
<1>8. PieceAt(p, x, n + 3) = Newline
  BY <1>3, <1>4 DEF PieceAt
<1>9. Pending(text, x)
  BY <1>4, <1>5, <1>7, <1>8 DEF Pending, Completes
<1> QED BY <1>4, <1>9 DEF Text, x, a, b

\* A parser reads the first n pieces.
LEMMA RestPending ==
    ASSUME NEW text, NEW w \in Seq(Sent), Pending(text, w),
           NEW n \in 1..Len(w), NEW t, t[0] = text,
           \A i \in 1..n : t[i] = TextStep(t[i - 1], w[i])
    PROVE  Pending(t[n], SubSeq(w, n + 1, Len(w)))
<1> DEFINE u == SubSeq(w, n + 1, Len(w))
           m == Len(w)
<1>0. n \in Nat /\ m \in Nat /\ n <= m /\ n # 0 /\ \A i \in 1..m : w[i] \in Sent
  OBVIOUS
<1>1. PICK p \in Sent : text = TextAfter(p) /\ Completes(p, w)
  BY DEF Pending
<1>2. \A i \in 0..m : PieceAt(p, w, i) \in Sent
  BY <1>0 DEF PieceAt
<1>3. \A i \in 0..n : t[i] = TextAfter(PieceAt(p, w, i))
  <2> DEFINE Wrong == {i \in 0..n : t[i] # TextAfter(PieceAt(p, w, i))}
  <2>1. ASSUME Wrong # {} PROVE FALSE
    <3>0. Wrong \in SUBSET Nat
      BY <1>0
    <3> HIDE DEF Wrong
    <3>1. PICK k \in Wrong : \A j \in Wrong : k <= j
      BY <2>1, <3>0, LeastNat
    <3> USE DEF Wrong
    <3>2. k # 0
      BY <1>1 DEF PieceAt
    <3>3. k \in 1..n /\ k \in 1..m /\ k - 1 \in 0..n /\ k - 1 \in 0..m
      BY <1>0, <3>2
    <3>4. k - 1 \notin Wrong
      BY <3>1, <3>3
    <3>5. t[k - 1] = TextAfter(PieceAt(p, w, k - 1))
      BY <3>3, <3>4
    <3>6. Follows(PieceAt(p, w, k - 1), w[k])
      BY <1>1, <3>3 DEF Completes
    <3>7. TextStep(t[k - 1], w[k]) = TextAfter(w[k])
      BY <1>0, <1>2, <3>3, <3>5, <3>6, TextFollows
    <3>8. t[k] = TextAfter(PieceAt(p, w, k))
      BY <3>2, <3>3, <3>7 DEF PieceAt
    <3> QED BY <3>1, <3>8
  <2> QED BY <2>1
<1>4. t[n] = TextAfter(w[n])
  BY <1>0, <1>3 DEF PieceAt
<1>5. /\ u \in Seq(Sent) /\ Len(u) = m - n
      /\ \A i \in 1..m - n : u[i] = w[n + i]
  BY <1>0
<1> HIDE DEF u
<1>6. ASSUME NEW i \in 0..m - n
      PROVE  PieceAt(w[n], u, i) = PieceAt(p, w, n + i)
  BY <1>0, <1>5 DEF PieceAt
<1>7. ASSUME NEW i \in 1..m - n
      PROVE  Follows(PieceAt(w[n], u, i - 1), u[i])
  <2>1. n + i \in 1..m /\ i - 1 \in 0..m - n /\ (n + i) - 1 = n + (i - 1)
    BY <1>0
  <2>2. Follows(PieceAt(p, w, (n + i) - 1), w[n + i])
    BY <1>1, <2>1 DEF Completes
  <2> QED BY <1>5, <1>6, <2>1, <2>2
<1>8. PieceAt(w[n], u, m - n) = Newline
  <2>1. m - n \in 0..m - n /\ n + (m - n) = m
    BY <1>0
  <2> QED BY <1>1, <1>6, <2>1 DEF Completes
<1>9. Completes(w[n], u)
  BY <1>5, <1>7, <1>8 DEF Completes
<1> QED BY <1>0, <1>4, <1>9 DEF Pending, u

LEMMA SentIsPiece == ASSUME NEW w \in Seq(Sent) PROVE w \in Seq(Piece)
<1>1. Sent \subseteq Piece
  BY DEF Sent, Piece
<1> QED BY <1>1, SeqMonotonic

\* Client 1 reads the first n pieces: what it does not read yet still
\* completes its text, and has the same end.
LEMMA Read1 ==
    ASSUME NEW s \in State1, NEW w \in Seq(Sent), Pending(s.text, w),
           NEW n \in 1..Len(w)
    PROVE  LET r == Parse1(s, SubSeq(w, 1, n))
               rest == SubSeq(w, n + 1, Len(w))
           IN  /\ r \in State1
               /\ rest \in Seq(Sent)
               /\ Pending(r.text, rest)
               /\ Parse1(r, rest) = Parse1(s, w)
<1> DEFINE v(i) == SubSeq(w, 1, i)
           t == [i \in 0..n |-> Parse1(s, v(i)).text]
           rest == SubSeq(w, n + 1, Len(w))
<1>0. n \in Nat /\ Len(w) \in Nat /\ n # 0 /\ n <= Len(w) /\ w \in Seq(Piece)
  BY SentIsPiece
<1>1. \A i \in 0..n : v(i) \in Seq(Sent) /\ v(i) \in Seq(Piece)
  <2>1. TAKE i \in 0..n
  <2>2. v(i) \in Seq(Sent)
    BY <1>0
  <2> QED BY <2>2, SentIsPiece
<1>2. rest \in Seq(Sent) /\ rest \in Seq(Piece)
  <2>1. rest \in Seq(Sent)
    BY <1>0
  <2> QED BY <2>1, SentIsPiece
<1>3. v(0) = <<>>
  BY SubSeqEmpty
<1>4. \A i \in 1..n : v(i) = v(i - 1) \o <<w[i]>>
  <2>1. TAKE i \in 1..n
  <2>2. 1 \in 1..Len(w) /\ i \in 1..Len(w)
    BY <1>0
  <2> QED BY <1>0, <2>2, SubSeqRecursiveSecond
<1>5. w = v(n) \o rest
  <2>1. /\ 1 \in 1..Len(w) + 1 /\ n \in 1 - 1..Len(w)
        /\ Len(w) \in n..Len(w)
    BY <1>0
  <2>2. v(n) \o rest = SubSeq(w, 1, Len(w))
    BY <1>0, <2>1, ConcatAdjacentSubSeq
  <2> QED BY <1>0, <2>2, SubSeqFull
<1> HIDE DEF v
<1>6. \A i \in 0..n : Parse1(s, v(i)) \in State1
  BY <1>1, Parse1InPieces
<1>7. t[0] = s.text
  BY <1>0, <1>3, Parse1InPieces
<1>8. \A i \in 1..n : t[i] = TextStep(t[i - 1], w[i])
  <2>1. TAKE i \in 1..n
  <2> DEFINE r == Parse1(s, v(i - 1))
  <2>2. i \in 0..n /\ i - 1 \in 0..n /\ w[i] \in Piece
    BY <1>0
  <2>3. r \in State1 /\ v(i - 1) \in Seq(Piece) /\ <<w[i]>> \in Seq(Piece)
    BY <1>1, <1>6, <2>2
  <2>4. Parse1(s, v(i)) = Parse1(r, <<w[i]>>)
    <3>1. Cut1(s, v(i - 1), <<w[i]>>)
      BY <2>3, Parse1InPieces
    <3> QED BY <1>4, <3>1 DEF Cut1
  <2> HIDE DEF r
  <2>5. Parse1(s, v(i)) = ParsePiece(r, w[i])
    BY <2>2, <2>3, <2>4, Parse1InPieces
  <2>6. ParsePiece(r, w[i]).text = TextStep(r.text, w[i])
    <3>1. Obey(r) \in State1
      BY <2>3 DEF Obey, State1
    <3> QED BY <2>3, <3>1 DEF ParsePiece, TextStep, State1
  <2>7. t[i] = Parse1(s, v(i)).text /\ t[i - 1] = r.text
    BY <2>2 DEF r
  <2> QED BY <2>5, <2>6, <2>7
<1>9. t[n] = Parse1(s, v(n)).text
  BY <1>0
<1> HIDE DEF t
<1>10. Pending(t[n], rest)
  BY <1>7, <1>8, RestPending
<1>11. Parse1(Parse1(s, v(n)), rest) = Parse1(s, w)
  <2>1. n \in 0..n
    BY <1>0
  <2>2. Cut1(s, v(n), rest)
    BY <1>1, <1>2, <2>1, Parse1InPieces
  <2> QED BY <1>5, <2>2 DEF Cut1
<1>12. Parse1(s, v(n)) \in State1
  BY <1>0, <1>6
<1> QED BY <1>2, <1>9, <1>10, <1>11, <1>12 DEF v

\* Client 1 reads one more line.
LEMMA Line1 ==
    ASSUME NEW s \in State1, NEW w \in Seq(Sent), Parse1(s, w).text = <<>>,
           NEW k \in Key, NEW down \in BOOLEAN
    PROVE  Parse1(s, w \o Text(k, down) \o <<Newline>>) =
               [Obey([Parse1(s, w) EXCEPT !.text = Text(k, down)])
                   EXCEPT !.text = <<>>]
<1> DEFINE a == <<k, down, 1>>
           b == <<k, down, 2>>
           text == Text(k, down)
           r == Parse1(s, w)
           ra == [r EXCEPT !.text = <<a>>]
           rb == [r EXCEPT !.text = text]
<1>0. w \in Seq(Piece) /\ r \in State1 /\ r.text = <<>>
  BY SentIsPiece, Parse1InPieces
<1>1. /\ a \in Halves /\ b \in Halves /\ a # Newline /\ b # Newline
      /\ a \in Piece /\ b \in Piece /\ Newline \in Piece
      /\ text = <<a, b>>
  BY PiecesDiffer DEF Halves, Piece, Text
<1> HIDE DEF a, b, text, r
<1>2. /\ <<a>> \in Seq(Piece) /\ <<b>> \in Seq(Piece) /\ <<Newline>> \in Seq(Piece)
      /\ text \in Seq(Piece) /\ w \o text \in Seq(Piece)
  BY <1>0, <1>1
<1>3. <<a>> \o <<b>> = text /\ Append(<<a>>, b) = text
  BY <1>1, Pair
<1>4. Parse1(s, w \o text) = Parse1(r, text)
  <2>1. Cut1(s, w, text)
    BY <1>0, <1>2, Parse1InPieces
  <2> QED BY <2>1 DEF r, Cut1
<1>5. ra \in State1 /\ rb \in State1 /\ rb.text = text
  <2>1. <<a>> \in Seq(Halves \cup {Stale}) /\ text \in Seq(Halves \cup {Stale})
    BY <1>1
  <2> QED BY <1>0, <2>1 DEF State1
<1>6. Parse1(r, <<a>>) = ra
  <2>1. Parse1(r, <<a>>) = ParsePiece(r, a)
    BY <1>0, <1>1, Parse1InPieces
  <2>2. Append(<<>>, a) = <<a>>
    OBVIOUS
  <2> QED BY <1>0, <1>1, <2>1, <2>2 DEF ParsePiece, State1
<1>7. Parse1(ra, <<b>>) = rb
  <2>1. Parse1(ra, <<b>>) = ParsePiece(ra, b)
    BY <1>1, <1>5, Parse1InPieces
  <2>2. Append(<<a>>, b) = text
    BY <1>3
  <2>3. ParsePiece(ra, b) = [ra EXCEPT !.text = Append(ra.text, b)]
    BY <1>1 DEF ParsePiece
  <2> QED BY <1>0, <1>5, <2>1, <2>2, <2>3 DEF State1
<1> HIDE DEF ra, rb
<1>8. Parse1(r, text) = rb
  <2>1. Cut1(r, <<a>>, <<b>>)
    BY <1>0, <1>2, Parse1InPieces
  <2> QED BY <1>3, <1>6, <1>7, <2>1, Zenon DEF Cut1
<1>9. Parse1(s, w \o text \o <<Newline>>) = ParsePiece(rb, Newline)
  <2>1. Parse1(s, w \o text \o <<Newline>>) = Parse1(rb, <<Newline>>)
    <3>1. Cut1(s, w \o text, <<Newline>>)
      BY <1>2, Parse1InPieces
    <3> QED BY <1>4, <1>8, <3>1, Zenon DEF Cut1
  <2> QED BY <1>1, <1>5, <2>1, Parse1InPieces
<1>10. ParsePiece(rb, Newline) = [Obey(rb) EXCEPT !.text = <<>>]
  BY DEF ParsePiece
<1> QED BY <1>9, <1>10 DEF rb, text, r

(* The same for client 2. *)

\* Client 2 reads the first n pieces: what it does not read yet still
\* completes its text, and has the same end.
LEMMA Read2 ==
    ASSUME NEW s \in State2, NEW w \in Seq(Sent), Pending(s.text, w),
           NEW n \in 1..Len(w)
    PROVE  LET r == Parse2(s, SubSeq(w, 1, n))
               rest == SubSeq(w, n + 1, Len(w))
           IN  /\ r \in State2
               /\ rest \in Seq(Sent)
               /\ Pending(r.text, rest)
               /\ Parse2(r, rest) = Parse2(s, w)
<1> DEFINE v(i) == SubSeq(w, 1, i)
           t == [i \in 0..n |-> Parse2(s, v(i)).text]
           rest == SubSeq(w, n + 1, Len(w))
<1>0. n \in Nat /\ Len(w) \in Nat /\ n # 0 /\ n <= Len(w) /\ w \in Seq(Piece)
  BY SentIsPiece
<1>1. \A i \in 0..n : v(i) \in Seq(Sent) /\ v(i) \in Seq(Piece)
  <2>1. TAKE i \in 0..n
  <2>2. v(i) \in Seq(Sent)
    BY <1>0
  <2> QED BY <2>2, SentIsPiece
<1>2. rest \in Seq(Sent) /\ rest \in Seq(Piece)
  <2>1. rest \in Seq(Sent)
    BY <1>0
  <2> QED BY <2>1, SentIsPiece
<1>3. v(0) = <<>>
  BY SubSeqEmpty
<1>4. \A i \in 1..n : v(i) = v(i - 1) \o <<w[i]>>
  <2>1. TAKE i \in 1..n
  <2>2. 1 \in 1..Len(w) /\ i \in 1..Len(w)
    BY <1>0
  <2> QED BY <1>0, <2>2, SubSeqRecursiveSecond
<1>5. w = v(n) \o rest
  <2>1. /\ 1 \in 1..Len(w) + 1 /\ n \in 1 - 1..Len(w)
        /\ Len(w) \in n..Len(w)
    BY <1>0
  <2>2. v(n) \o rest = SubSeq(w, 1, Len(w))
    BY <1>0, <2>1, ConcatAdjacentSubSeq
  <2> QED BY <1>0, <2>2, SubSeqFull
<1> HIDE DEF v
<1>6. \A i \in 0..n : Parse2(s, v(i)) \in State2
  BY <1>1, Parse2InPieces
<1>7. t[0] = s.text
  BY <1>0, <1>3, Parse2InPieces
<1>8. \A i \in 1..n : t[i] = TextStep(t[i - 1], w[i])
  <2>1. TAKE i \in 1..n
  <2> DEFINE r == Parse2(s, v(i - 1))
  <2>2. i \in 0..n /\ i - 1 \in 0..n /\ w[i] \in Piece
    BY <1>0
  <2>3. r \in State2 /\ v(i - 1) \in Seq(Piece) /\ <<w[i]>> \in Seq(Piece)
    BY <1>1, <1>6, <2>2
  <2>4. Parse2(s, v(i)) = Parse2(r, <<w[i]>>)
    <3>1. Cut2(s, v(i - 1), <<w[i]>>)
      BY <2>3, Parse2InPieces
    <3> QED BY <1>4, <3>1 DEF Cut2
  <2> HIDE DEF r
  <2>5. Parse2(s, v(i)) = MovePiece(r, w[i])
    BY <2>2, <2>3, <2>4, Parse2InPieces
  <2>6. MovePiece(r, w[i]).text = TextStep(r.text, w[i])
    <3>1. Move(r) \in State2
      BY <2>3 DEF Move, State2, Key
    <3> QED BY <2>3, <3>1 DEF MovePiece, TextStep, State2
  <2>7. t[i] = Parse2(s, v(i)).text /\ t[i - 1] = r.text
    BY <2>2 DEF r
  <2> QED BY <2>5, <2>6, <2>7
<1>9. t[n] = Parse2(s, v(n)).text
  BY <1>0
<1> HIDE DEF t
<1>10. Pending(t[n], rest)
  BY <1>7, <1>8, RestPending
<1>11. Parse2(Parse2(s, v(n)), rest) = Parse2(s, w)
  <2>1. n \in 0..n
    BY <1>0
  <2>2. Cut2(s, v(n), rest)
    BY <1>1, <1>2, <2>1, Parse2InPieces
  <2> QED BY <1>5, <2>2 DEF Cut2
<1>12. Parse2(s, v(n)) \in State2
  BY <1>0, <1>6
<1> QED BY <1>2, <1>9, <1>10, <1>11, <1>12 DEF v

\* Client 2 reads one more line.
LEMMA Line2 ==
    ASSUME NEW s \in State2, NEW w \in Seq(Sent), Parse2(s, w).text = <<>>,
           NEW k \in Key, NEW down \in BOOLEAN
    PROVE  Parse2(s, w \o Text(k, down) \o <<Newline>>) =
               [Move([Parse2(s, w) EXCEPT !.text = Text(k, down)])
                   EXCEPT !.text = <<>>]
<1> DEFINE a == <<k, down, 1>>
           b == <<k, down, 2>>
           text == Text(k, down)
           r == Parse2(s, w)
           ra == [r EXCEPT !.text = <<a>>]
           rb == [r EXCEPT !.text = text]
<1>0. w \in Seq(Piece) /\ r \in State2 /\ r.text = <<>>
  BY SentIsPiece, Parse2InPieces
<1>1. /\ a \in Halves /\ b \in Halves /\ a # Newline /\ b # Newline
      /\ a \in Piece /\ b \in Piece /\ Newline \in Piece
      /\ text = <<a, b>>
  BY PiecesDiffer DEF Halves, Piece, Text
<1> HIDE DEF a, b, text, r
<1>2. /\ <<a>> \in Seq(Piece) /\ <<b>> \in Seq(Piece) /\ <<Newline>> \in Seq(Piece)
      /\ text \in Seq(Piece) /\ w \o text \in Seq(Piece)
  BY <1>0, <1>1
<1>3. <<a>> \o <<b>> = text /\ Append(<<a>>, b) = text
  BY <1>1, Pair
<1>4. Parse2(s, w \o text) = Parse2(r, text)
  <2>1. Cut2(s, w, text)
    BY <1>0, <1>2, Parse2InPieces
  <2> QED BY <2>1 DEF r, Cut2
<1>5. ra \in State2 /\ rb \in State2 /\ rb.text = text
  <2>1. <<a>> \in Seq(Halves \cup {Stale}) /\ text \in Seq(Halves \cup {Stale})
    BY <1>1
  <2> QED BY <1>0, <2>1 DEF State2
<1>6. Parse2(r, <<a>>) = ra
  <2>1. Parse2(r, <<a>>) = MovePiece(r, a)
    BY <1>0, <1>1, Parse2InPieces
  <2>2. Append(<<>>, a) = <<a>>
    OBVIOUS
  <2> QED BY <1>0, <1>1, <2>1, <2>2 DEF MovePiece, State2
<1>7. Parse2(ra, <<b>>) = rb
  <2>1. Parse2(ra, <<b>>) = MovePiece(ra, b)
    BY <1>1, <1>5, Parse2InPieces
  <2>2. Append(<<a>>, b) = text
    BY <1>3
  <2>3. MovePiece(ra, b) = [ra EXCEPT !.text = Append(ra.text, b)]
    BY <1>1 DEF MovePiece
  <2> QED BY <1>0, <1>5, <2>1, <2>2, <2>3 DEF State2
<1> HIDE DEF ra, rb
<1>8. Parse2(r, text) = rb
  <2>1. Cut2(r, <<a>>, <<b>>)
    BY <1>0, <1>2, Parse2InPieces
  <2> QED BY <1>3, <1>6, <1>7, <2>1, Zenon DEF Cut2
<1>9. Parse2(s, w \o text \o <<Newline>>) = MovePiece(rb, Newline)
  <2>1. Parse2(s, w \o text \o <<Newline>>) = Parse2(rb, <<Newline>>)
    <3>1. Cut2(s, w \o text, <<Newline>>)
      BY <1>2, Parse2InPieces
    <3> QED BY <1>4, <1>8, <3>1, Zenon DEF Cut2
  <2> QED BY <1>1, <1>5, <2>1, Parse2InPieces
<1>10. MovePiece(rb, Newline) = [Move(rb) EXCEPT !.text = <<>>]
  BY DEF MovePiece
<1> QED BY <1>9, <1>10 DEF rb, text, r

-----------------------------------------------------------------------------
(* The inductive invariant *)

\* The state of a parser that has read all the lines that make the player
\* turn as given.
Told1(turn) == [text |-> <<>>, left |-> turn = Left, right |-> turn = Right]
Told2(turn) == [text |-> <<>>, turn |-> turn]

\* Whatever is on its way completes the text that a client holds, and once
\* it is read too the client turns as the player wants.
KeysInv ==
    /\ TypeOK
    /\ Pending(gui_comm, stream[2])
    /\ ParseGuiMsg(stream[2]) = Told2(Wanted)
    /\ ~garbled => /\ Pending(guiMessages, stream[1])
                   /\ ParseGuiMessage(stream[1]) = Told1(Wanted)

LEMMA TextsDiffer ==
    ASSUME NEW k \in Key, NEW l \in Key, NEW c \in BOOLEAN, NEW d \in BOOLEAN,
           Text(k, c) = Text(l, d)
    PROVE  k = l /\ c = d
<1>1. Text(k, c)[1] = <<k, c, 1>> /\ Text(l, d)[1] = <<l, d, 1>>
  BY DEF Text
<1> QED BY <1>1

\* A line that says the key k went down, or up.
Turned(turn, k, down) ==
    IF down THEN k ELSE IF turn = k THEN Straight ELSE turn

LEMMA FourTexts ==
    /\ Left \in Key /\ Right \in Key /\ Left # Right
    /\ Left # Straight /\ Right # Straight
    /\ \A k, l \in Key : \A c, d \in BOOLEAN :
           Text(k, c) = Text(l, d) <=> k = l /\ (c <=> d)
<1>1. /\ Left \in Key /\ Right \in Key /\ Left # Right
      /\ Left # Straight /\ Right # Straight
  BY DEF Key, Left, Right, Straight
<1>2. ASSUME NEW k \in Key, NEW l \in Key, NEW c \in BOOLEAN, NEW d \in BOOLEAN
      PROVE  Text(k, c) = Text(l, d) <=> k = l /\ (c <=> d)
  <2>1. Text(k, c) = Text(l, d) => k = l /\ (c <=> d)
    BY TextsDiffer
  <2>2. (c <=> d) => c = d
    OBVIOUS
  <2> QED BY <2>1, <2>2
<1> QED BY <1>1, <1>2

LEMMA Obeyed ==
    ASSUME NEW s \in State1, NEW k \in Key, NEW down \in BOOLEAN,
           s.text = Text(k, down)
    PROVE  /\ Obey(s) \in State1
           /\ Obey(s).left <=> (IF k = Left THEN down ELSE ~down /\ s.left)
           /\ Obey(s).right <=> (IF k = Right THEN down ELSE ~down /\ s.right)
<1>1. CASE k = Left /\ down
  <2>1. Obey(s) = [s EXCEPT !.left = TRUE, !.right = FALSE]
    BY <1>1, FourTexts DEF Obey
  <2> QED BY <1>1, <2>1, FourTexts DEF State1
<1>2. CASE k = Left /\ ~down
  <2>1. Obey(s) = [s EXCEPT !.left = FALSE]
    BY <1>2, FourTexts DEF Obey
  <2> QED BY <1>2, <2>1, FourTexts DEF State1
<1>3. CASE k = Right /\ down
  <2>1. Obey(s) = [s EXCEPT !.right = TRUE, !.left = FALSE]
    BY <1>3, FourTexts DEF Obey
  <2> QED BY <1>3, <2>1, FourTexts DEF State1
<1>4. CASE k = Right /\ ~down
  <2>1. Obey(s) = [s EXCEPT !.right = FALSE]
    BY <1>4, FourTexts DEF Obey
  <2> QED BY <1>4, <2>1, FourTexts DEF State1
<1> QED BY <1>1, <1>2, <1>3, <1>4 DEF Key

LEMMA Told1Turned ==
    ASSUME NEW turn \in Key \cup {Straight}, NEW k \in Key, NEW down \in BOOLEAN
    PROVE  [Obey([Told1(turn) EXCEPT !.text = Text(k, down)]) EXCEPT !.text = <<>>]
               = Told1(Turned(turn, k, down))
<1> DEFINE s == [Told1(turn) EXCEPT !.text = Text(k, down)]
           r == Obey(s)
<1>1. /\ s \in State1 /\ s.text = Text(k, down)
      /\ s.left <=> turn = Left
      /\ s.right <=> turn = Right
  <2>1. Text(k, down) \in Seq(Halves \cup {Stale})
    BY DEF Text, Halves
  <2> QED BY <2>1 DEF Told1, State1
<1> HIDE DEF s
<1>2. /\ r \in State1
      /\ r.left <=> (IF k = Left THEN down ELSE ~down /\ s.left)
      /\ r.right <=> (IF k = Right THEN down ELSE ~down /\ s.right)
  BY <1>1, Obeyed
<1> HIDE DEF r
<1>3. /\ r.left <=> Turned(turn, k, down) = Left
      /\ r.right <=> Turned(turn, k, down) = Right
  BY <1>1, <1>2, FourTexts DEF Turned, Key
<1>4. [r EXCEPT !.text = <<>>] = [text |-> <<>>, left |-> r.left, right |-> r.right]
  BY <1>2 DEF State1
<1>5. /\ r.left = (Turned(turn, k, down) = Left)
      /\ r.right = (Turned(turn, k, down) = Right)
  <2>1. r.left \in BOOLEAN /\ r.right \in BOOLEAN
    BY <1>2 DEF State1
  <2> QED BY <1>3, <2>1
<1> QED BY <1>4, <1>5 DEF Told1, s, r

LEMMA Told2Turned ==
    ASSUME NEW turn \in Key \cup {Straight}, NEW k \in Key, NEW down \in BOOLEAN
    PROVE  [Move([Told2(turn) EXCEPT !.text = Text(k, down)]) EXCEPT !.text = <<>>]
               = Told2(Turned(turn, k, down))
<1> DEFINE s == [Told2(turn) EXCEPT !.text = Text(k, down)]
           r == Move(s)
<1>1. /\ s \in State2 /\ s.text = Text(k, down) /\ s.turn = turn
  <2>1. Text(k, down) \in Seq(Halves \cup {Stale})
    BY DEF Text, Halves
  <2> QED BY <2>1 DEF Told2, State2
<1> HIDE DEF s
<1>2. r \in State2 /\ r.turn = Turned(turn, k, down)
  <2>1. CASE down
    <3>1. Move(s) = [s EXCEPT !.turn = k]
      BY <1>1, <2>1, FourTexts DEF Move, Key
    <3> QED BY <1>1, <2>1, <3>1 DEF State2, Turned
  <2>2. CASE ~down
    <3>1. Move(s) = IF turn = k THEN [s EXCEPT !.turn = Straight] ELSE s
      BY <1>1, <2>2, FourTexts DEF Move, Key
    <3> QED BY <1>1, <2>2, <3>1 DEF State2, Turned
  <2> QED BY <2>1, <2>2
<1> HIDE DEF r
<1>3. [r EXCEPT !.text = <<>>] = [text |-> <<>>, turn |-> r.turn]
  BY <1>2 DEF State2
<1> QED BY <1>2, <1>3 DEF Told2, s, r

LEMMA BeginningIsText == Beginnings \subseteq Seq(Halves \cup {Stale})
<1>1. ASSUME NEW k \in Key, NEW down \in BOOLEAN
      PROVE  {<<>>, SubSeq(Text(k, down), 1, 1), Text(k, down)}
                 \subseteq Seq(Halves \cup {Stale})
  <2> DEFINE x == Text(k, down)
  <2>1. x \in Seq(Halves \cup {Stale}) /\ Len(x) = 2
    BY DEF Text, Halves
  <2> HIDE DEF x
  <2>2. SubSeq(x, 1, 1) \in Seq(Halves \cup {Stale})
    BY <2>1
  <2> QED BY <2>1, <2>2, EmptyIsText DEF x
<1> DEFINE Of(k, down) == {<<>>, SubSeq(Text(k, down), 1, 1), Text(k, down)}
           All == {Of(k, down) : k \in Key, down \in BOOLEAN}
<1>2. Beginnings = UNION All
  BY DEF Beginnings
<1>3. \A k \in Key, down \in BOOLEAN : Of(k, down) \subseteq Seq(Halves \cup {Stale})
  BY <1>1
<1> HIDE DEF Of
<1>4. \A b \in All : b \subseteq Seq(Halves \cup {Stale})
  BY <1>3
<1> HIDE DEF All
<1> QED BY <1>2, <1>4

Parser1 == [text |-> guiMessages, left |-> leftKey, right |-> rightKey]
Parser2 == [text |-> gui_comm, turn |-> last_turn]

LEMMA ParsersTyped ==
    ASSUME TypeOK
    PROVE  /\ Parser1 \in State1 /\ Parser2 \in State2
           /\ stream[1] \in Seq(Sent) /\ stream[2] \in Seq(Sent)
           /\ Wanted \in Key \cup {Straight}
<1>1. gui_comm \in Seq(Halves \cup {Stale})
  BY BeginningIsText DEF TypeOK
<1> QED BY <1>1 DEF TypeOK, State1, State2, Parser1, Parser2, Sent, Wanted

\* A line is sent to both clients.
LEMMA LineSent ==
    ASSUME KeysInv, NEW k \in Key, NEW down \in BOOLEAN,
           SendMessage(Text(k, down)), UNCHANGED <<client1Vars, client2Vars>>,
           last' \in Key \cup {Straight}, held' \subseteq Key,
           Wanted' = Turned(Wanted, k, down)
    PROVE  KeysInv'
<1> DEFINE line(w) == w \o Text(k, down) \o <<Newline>>
<1>1. /\ TypeOK
      /\ Parser1 \in State1 /\ Parser2 \in State2
      /\ stream[1] \in Seq(Sent) /\ stream[2] \in Seq(Sent)
      /\ Wanted \in Key \cup {Straight}
  BY ParsersTyped DEF KeysInv
<1>2. stream' = [c \in 1..2 |-> line(stream[c])]
  BY DEF SendMessage
<1>3. stream'[1] = line(stream[1]) /\ stream'[2] = line(stream[2])
  BY <1>2
<1>4. /\ Parser1' = Parser1 /\ Parser2' = Parser2
      /\ guiMessages' = guiMessages /\ gui_comm' = gui_comm /\ garbled' = garbled
      /\ bufferUsed' = bufferUsed /\ leftKey' = leftKey /\ rightKey' = rightKey
      /\ last_turn' = last_turn
  BY DEF client1Vars, client2Vars, Parser1, Parser2
<1>5. line(stream[2]) \in Seq(Sent) /\ Pending(gui_comm, line(stream[2]))
  BY <1>1, LinePending DEF KeysInv
<1>6. line(stream[1]) \in Seq(Sent)
  <2>1. /\ stream[1] \o Text(k, down) \in Seq(Sent)
        /\ <<Newline>> \in Seq(Sent)
    BY <1>1 DEF Text, Sent, Halves
  <2> QED BY <2>1
<1>7. Parse2(Parser2, line(stream[2])) = Told2(Turned(Wanted, k, down))
  <2>1. Parse2(Parser2, stream[2]) = Told2(Wanted)
    BY DEF KeysInv, ParseGuiMsg, Parser2
  <2>2. Told2(Wanted).text = <<>>
    BY DEF Told2
  <2>3. Parse2(Parser2, line(stream[2])) =
            [Move([Told2(Wanted) EXCEPT !.text = Text(k, down)]) EXCEPT !.text = <<>>]
    BY <1>1, <2>1, <2>2, Line2
  <2> HIDE DEF line
  <2> QED BY <1>1, <2>3, Told2Turned
<1>8. ASSUME ~garbled
      PROVE  /\ Pending(guiMessages, line(stream[1]))
             /\ Parse1(Parser1, line(stream[1])) = Told1(Turned(Wanted, k, down))
  <2>1. /\ Pending(guiMessages, stream[1])
        /\ Parse1(Parser1, stream[1]) = Told1(Wanted)
    BY <1>8 DEF KeysInv, ParseGuiMessage, Parser1
  <2>2. Told1(Wanted).text = <<>>
    BY DEF Told1
  <2>3. Pending(guiMessages, line(stream[1]))
    BY <1>1, <2>1, LinePending
  <2>4. Parse1(Parser1, line(stream[1])) =
            [Obey([Told1(Wanted) EXCEPT !.text = Text(k, down)]) EXCEPT !.text = <<>>]
    BY <1>1, <2>1, <2>2, Line1
  <2> HIDE DEF line
  <2> QED BY <1>1, <2>3, <2>4, Told1Turned
<1> HIDE DEF line
<1>9. stream' \in [1..2 -> Seq(Sent)]
  <2>1. \A c \in 1..2 : line(stream[c]) \in Seq(Sent)
    BY <1>5, <1>6
  <2> QED BY <1>2, <2>1
<1>10. TypeOK'
  BY <1>1, <1>4, <1>9 DEF TypeOK, Sent
<1>11. Pending(gui_comm, stream[2])'
  BY <1>3, <1>4, <1>5
<1>12. (ParseGuiMsg(stream[2]) = Told2(Wanted))'
  BY <1>3, <1>4, <1>7 DEF ParseGuiMsg, Parser2
<1>13. (~garbled => Pending(guiMessages, stream[1])
                    /\ ParseGuiMessage(stream[1]) = Told1(Wanted))'
  BY <1>3, <1>4, <1>8 DEF ParseGuiMessage, Parser1
<1> QED BY <1>10, <1>11, <1>12, <1>13 DEF KeysInv

LEMMA PressKeepsKeysInv ==
    ASSUME KeysInv, NEW k \in Key, KeyPress(k)
    PROVE  KeysInv'
<1>1. /\ held \subseteq Key /\ held' = held \cup {k} /\ last' = k
      /\ SendMessage(Text(k, TRUE)) /\ UNCHANGED <<client1Vars, client2Vars>>
  BY DEF KeysInv, TypeOK, KeyPress
<1>2. Wanted' = Turned(Wanted, k, TRUE)
  BY <1>1 DEF Wanted, Turned
<1>3. last' \in Key \cup {Straight} /\ held' \subseteq Key
  BY <1>1
<1> QED BY <1>1, <1>2, <1>3, LineSent

LEMMA ReleaseKeepsKeysInv ==
    ASSUME KeysInv, NEW k \in Key, KeyRelease(k)
    PROVE  KeysInv'
<1>1. /\ held \subseteq Key /\ held' = held \ {k} /\ last' = last
      /\ last \in Key \cup {Straight}
      /\ SendMessage(Text(k, FALSE)) /\ UNCHANGED <<client1Vars, client2Vars>>
  BY DEF KeysInv, TypeOK, KeyRelease
<1>2. Wanted' = Turned(Wanted, k, FALSE)
  BY <1>1 DEF Wanted, Turned, Key, Straight, Left, Right
<1>3. last' \in Key \cup {Straight} /\ held' \subseteq Key
  BY <1>1
<1> QED BY <1>1, <1>2, <1>3, LineSent

LEMMA PendingBegins ==
    ASSUME NEW text, NEW w, Pending(text, w)
    PROVE  text \in Beginnings
  BY TextAfterIsBeginning DEF Pending

LEMMA Read1KeepsKeysInv ==
    ASSUME KeysInv, CheckMessageFromGui
    PROVE  KeysInv'
<1>1. /\ TypeOK
      /\ Parser1 \in State1 /\ Parser2 \in State2
      /\ stream[1] \in Seq(Sent) /\ stream[2] \in Seq(Sent)
  BY ParsersTyped DEF KeysInv
<1>2. PICK n \in 1..Len(stream[1]), stale \in StaleBytes :
          LET s == ParseGuiMessage(SubSeq(stream[1], 1, n) \o stale)
          IN  /\ guiMessages' = s.text
              /\ leftKey' = s.left
              /\ rightKey' = s.right
              /\ garbled' = (garbled \/ stale # <<>>)
              /\ stream' = [stream EXCEPT ![1] = SubSeq(@, n + 1, Len(@))]
              /\ UNCHANGED <<guiVars, bufferUsed, client2Vars>>
  BY DEF CheckMessageFromGui
<1> DEFINE v == SubSeq(stream[1], 1, n)
           rest == SubSeq(stream[1], n + 1, Len(stream[1]))
           s == Parse1(Parser1, v \o stale)
<1>3. /\ guiMessages' = s.text /\ leftKey' = s.left /\ rightKey' = s.right
      /\ garbled' = (garbled \/ stale # <<>>)
      /\ stream' = [stream EXCEPT ![1] = rest]
      /\ UNCHANGED <<guiVars, bufferUsed, client2Vars>>
  BY <1>2 DEF ParseGuiMessage, Parser1
<1>4. /\ held' = held /\ last' = last /\ bufferUsed' = bufferUsed
      /\ gui_comm' = gui_comm /\ last_turn' = last_turn
      /\ Wanted' = Wanted
  BY <1>3 DEF guiVars, client2Vars, Wanted
<1>5. stale \in Seq(Piece) /\ v \in Seq(Sent) /\ v \in Seq(Piece) /\ rest \in Seq(Sent)
  <2>1. stale \in Seq(Piece)
    <3>1. Stale \in Piece /\ Newline \in Piece
      BY DEF Piece
    <3>2. /\ <<>> \in Seq(Piece) /\ <<Stale>> \in Seq(Piece)
          /\ <<Newline>> \in Seq(Piece) /\ <<Stale, Newline>> \in Seq(Piece)
          /\ <<Newline, Stale>> \in Seq(Piece)
      BY <3>1, EmptySeq
    <3> QED BY <3>2 DEF StaleBytes
  <2>2. v \in Seq(Sent) /\ rest \in Seq(Sent)
    BY <1>1
  <2> QED BY <2>1, <2>2, SentIsPiece
<1>6. v \o stale \in Seq(Piece)
  BY <1>5
<1>7. s \in State1
  BY <1>1, <1>6, Parse1InPieces
<1>8. /\ DOMAIN stream = 1..2 /\ stream \in [1..2 -> Seq(Sent)]
      /\ stream'[1] = rest /\ stream'[2] = stream[2]
      /\ stream' \in [1..2 -> Seq(Sent)]
  <2>1. stream \in [1..2 -> Seq(Sent)]
    BY <1>1 DEF TypeOK, Sent
  <2> QED BY <1>3, <1>5, <2>1
<1>9. ASSUME ~garbled'
      PROVE  /\ Pending(guiMessages', rest)
             /\ Parse1(s, rest) = Told1(Wanted)
  <2>1. ~garbled /\ stale = <<>>
    BY <1>3, <1>9
  <2>2. v \o stale = v
    BY <1>5, <2>1, ConcatEmptySeq
  <2>3. /\ Pending(Parser1.text, stream[1])
        /\ Parse1(Parser1, stream[1]) = Told1(Wanted)
    BY <2>1 DEF KeysInv, ParseGuiMessage, Parser1
  <2>4. /\ Pending(Parse1(Parser1, v).text, rest)
        /\ Parse1(Parse1(Parser1, v), rest) = Parse1(Parser1, stream[1])
    BY <1>1, <2>3, Read1
  <2> QED BY <1>3, <2>2, <2>3, <2>4
<1> HIDE DEF s, rest, v
<1>10. Parser1' = s
  BY <1>3, <1>7 DEF Parser1, State1
<1>11. TypeOK'
  <2>1. garbled' \in BOOLEAN
    BY <1>3
  <2>2. /\ guiMessages' \in Seq(Halves \cup {Stale})
        /\ leftKey' \in BOOLEAN /\ rightKey' \in BOOLEAN
    BY <1>3, <1>7 DEF State1
  <2>3. ~garbled' => guiMessages' \in Beginnings
    BY <1>9, PendingBegins
  <2> QED BY <1>1, <1>4, <1>8, <2>1, <2>2, <2>3 DEF TypeOK, Sent
<1>12. Pending(gui_comm, stream[2])'
  BY <1>4, <1>8 DEF KeysInv
<1>13. (ParseGuiMsg(stream[2]) = Told2(Wanted))'
  BY <1>4, <1>8 DEF KeysInv, ParseGuiMsg
<1>14. (~garbled => Pending(guiMessages, stream[1])
                    /\ ParseGuiMessage(stream[1]) = Told1(Wanted))'
  BY <1>4, <1>8, <1>9, <1>10 DEF ParseGuiMessage, Parser1
<1> QED BY <1>11, <1>12, <1>13, <1>14 DEF KeysInv

LEMMA Read2KeepsKeysInv ==
    ASSUME KeysInv, ReceiveFromGui
    PROVE  KeysInv'
<1>1. /\ TypeOK
      /\ Parser1 \in State1 /\ Parser2 \in State2
      /\ stream[1] \in Seq(Sent) /\ stream[2] \in Seq(Sent)
  BY ParsersTyped DEF KeysInv
<1>2. PICK n \in 1..Len(stream[2]) :
          LET s == ParseGuiMsg(SubSeq(stream[2], 1, n))
          IN  /\ gui_comm' = s.text
              /\ last_turn' = s.turn
              /\ stream' = [stream EXCEPT ![2] = SubSeq(@, n + 1, Len(@))]
              /\ UNCHANGED <<guiVars, client1Vars>>
  BY DEF ReceiveFromGui
<1> DEFINE v == SubSeq(stream[2], 1, n)
           rest == SubSeq(stream[2], n + 1, Len(stream[2]))
           s == Parse2(Parser2, v)
<1>3. /\ gui_comm' = s.text /\ last_turn' = s.turn
      /\ stream' = [stream EXCEPT ![2] = rest]
      /\ UNCHANGED <<guiVars, client1Vars>>
  BY <1>2 DEF ParseGuiMsg, Parser2
<1>4. /\ held' = held /\ last' = last /\ bufferUsed' = bufferUsed
      /\ garbled' = garbled /\ guiMessages' = guiMessages
      /\ leftKey' = leftKey /\ rightKey' = rightKey
      /\ Wanted' = Wanted
  BY <1>3 DEF guiVars, client1Vars, Wanted
<1>5. /\ Pending(Parser2.text, stream[2])
      /\ Parse2(Parser2, stream[2]) = Told2(Wanted)
  BY DEF KeysInv, ParseGuiMsg, Parser2
<1>6. /\ s \in State2 /\ rest \in Seq(Sent)
      /\ Pending(s.text, rest)
      /\ Parse2(s, rest) = Told2(Wanted)
  BY <1>1, <1>5, Read2
<1> HIDE DEF s, rest, v
<1>7. /\ stream'[2] = rest /\ stream'[1] = stream[1]
      /\ stream' \in [1..2 -> Seq(Sent)]
  <2>1. stream \in [1..2 -> Seq(Sent)]
    BY <1>1 DEF TypeOK, Sent
  <2> QED BY <1>3, <1>6, <2>1
<1>8. Parser2' = s
  BY <1>3, <1>6 DEF Parser2, State2
<1>9. TypeOK'
  <2>1. gui_comm' \in Beginnings
    BY <1>3, <1>6, PendingBegins
  <2>2. last_turn' \in Key \cup {Straight}
    BY <1>3, <1>6 DEF State2
  <2> QED BY <1>1, <1>4, <1>7, <2>1, <2>2 DEF TypeOK, Sent
<1>10. Pending(gui_comm, stream[2])'
  BY <1>3, <1>6, <1>7
<1>11. (ParseGuiMsg(stream[2]) = Told2(Wanted))'
  BY <1>4, <1>6, <1>7, <1>8 DEF ParseGuiMsg, Parser2
<1>12. (~garbled => Pending(guiMessages, stream[1])
                    /\ ParseGuiMessage(stream[1]) = Told1(Wanted))'
  BY <1>4, <1>7 DEF KeysInv, ParseGuiMessage
<1> QED BY <1>9, <1>10, <1>11, <1>12 DEF KeysInv

LEMMA KeysInvInit == Init => KeysInv
<1> SUFFICES ASSUME Init PROVE KeysInv
  OBVIOUS
<1>1. <<>> \in Beginnings
  <2>1. Newline \in Sent /\ TextAfter(Newline) = <<>>
    BY DEF Sent, TextAfter
  <2> QED BY <2>1, TextAfterIsBeginning
<1>2. stream = [c \in 1..2 |-> <<>>] /\ stream[1] = <<>> /\ stream[2] = <<>>
  BY DEF Init
<1>3. stream \in [1..2 -> Seq(Halves \cup {Newline})]
  BY <1>2, EmptySeq
<1>4. TypeOK
  BY <1>1, <1>3, EmptyIsText DEF Init, TypeOK
<1>5. Wanted = Straight
  BY DEF Init, Wanted
<1>6. Pending(<<>>, <<>>)
  <2>1. Newline \in Sent /\ <<>> = TextAfter(Newline)
    BY DEF Sent, TextAfter
  <2>2. Completes(Newline, <<>>)
    BY DEF Completes, PieceAt
  <2> QED BY <2>1, <2>2 DEF Pending
<1>7. Parser1 = Told1(Straight) /\ Parser2 = Told2(Straight)
  <2>1. (Straight = Left) = FALSE /\ (Straight = Right) = FALSE
    BY DEF Straight, Left, Right
  <2> QED BY <2>1 DEF Init, Parser1, Parser2, Told1, Told2
<1>8. /\ ParseGuiMsg(<<>>) = Told2(Straight)
      /\ ParseGuiMessage(<<>>) = Told1(Straight)
  BY <1>4, <1>7, ParsersTyped, Parse1InPieces, Parse2InPieces
     DEF ParseGuiMsg, ParseGuiMessage, Parser1, Parser2
<1>9. gui_comm = <<>> /\ guiMessages = <<>>
  BY DEF Init
<1> QED BY <1>2, <1>4, <1>5, <1>6, <1>8, <1>9 DEF KeysInv

LEMMA KeysInvStep == KeysInv /\ [Next]_vars => KeysInv'
<1> SUFFICES ASSUME KeysInv, [Next]_vars PROVE KeysInv'
  OBVIOUS
<1>1. ASSUME NEW k \in Key, KeyPress(k) PROVE KeysInv'
  BY <1>1, PressKeepsKeysInv
<1>2. ASSUME NEW k \in Key, KeyRelease(k) PROVE KeysInv'
  BY <1>2, ReleaseKeepsKeysInv
<1>3. CASE CheckMessageFromGui
  BY <1>3, Read1KeepsKeysInv
<1>4. CASE CheckMessageFromGameServer
  BY <1>4 DEF CheckMessageFromGameServer, KeysInv, TypeOK, Wanted, guiVars,
              client2Vars, ParseGuiMsg, ParseGuiMessage
<1>5. CASE ReceiveFromGui
  BY <1>5, Read2KeepsKeysInv
<1>6. CASE UNCHANGED vars
  BY <1>6 DEF vars, guiVars, client1Vars, client2Vars, KeysInv, TypeOK, Wanted,
              ParseGuiMsg, ParseGuiMessage
<1> QED BY <1>1, <1>2, <1>3, <1>4, <1>5, <1>6 DEF Next

LEMMA KeysInvAlways == Spec => []KeysInv
<1> QED BY KeysInvInit, KeysInvStep, PTL DEF Spec

-----------------------------------------------------------------------------
(* The theorems *)

\* Every variable keeps its type, and between two reads client 2, and client 1
\* until a stale byte came in, hold the beginning of one line.
THEOREM TypeCorrect == Spec => []TypeOK
<1>1. KeysInv => TypeOK
  BY DEF KeysInv
<1> QED BY <1>1, KeysInvAlways, PTL

\* Once client 1 has read all lines it turns as the player wants, unless it
\* took a stale byte for text.
THEOREM Client1Correct == Spec => []Client1FollowsKeys
<1>1. ASSUME KeysInv PROVE Client1FollowsKeys
  <2> SUFFICES ASSUME stream[1] = <<>>, ~garbled PROVE SetTurnDirection = Wanted
    BY DEF Client1FollowsKeys
  <2>1. Parser1 \in State1 /\ Wanted \in Key \cup {Straight}
    BY <1>1, ParsersTyped DEF KeysInv
  <2>2. Parse1(Parser1, <<>>) = Told1(Wanted)
    BY <1>1 DEF KeysInv, ParseGuiMessage, Parser1
  <2>3. Parser1 = Told1(Wanted)
    BY <2>1, <2>2, Parse1InPieces
  <2>4. leftKey = (Wanted = Left) /\ rightKey = (Wanted = Right)
    BY <2>3 DEF Parser1, Told1
  <2>5. Left # Right /\ Left # Straight /\ Right # Straight
    BY FourTexts
  <2>6. CASE Wanted = Left
    <3>1. leftKey = TRUE /\ rightKey = FALSE
      BY <2>4, <2>5, <2>6
    <3> QED BY <2>6, <3>1 DEF SetTurnDirection
  <2>7. CASE Wanted = Right
    <3>1. leftKey = FALSE /\ rightKey = TRUE
      BY <2>4, <2>5, <2>7
    <3> QED BY <2>7, <3>1 DEF SetTurnDirection
  <2>8. CASE Wanted = Straight
    <3>1. leftKey = FALSE /\ rightKey = FALSE
      BY <2>4, <2>5, <2>8
    <3> QED BY <2>8, <3>1 DEF SetTurnDirection
  <2> QED BY <2>1, <2>6, <2>7, <2>8 DEF Key
<1> QED BY <1>1, KeysInvAlways, PTL

\* Once client 2 has read all lines it turns as the player wants, however TCP
\* cut them.
THEOREM Client2Correct == Spec => []Client2FollowsKeys
<1>1. ASSUME KeysInv PROVE Client2FollowsKeys
  <2> SUFFICES ASSUME stream[2] = <<>> PROVE last_turn = Wanted
    BY DEF Client2FollowsKeys
  <2>1. Parser2 \in State2
    BY <1>1, ParsersTyped DEF KeysInv
  <2>2. Parse2(Parser2, <<>>) = Told2(Wanted)
    BY <1>1 DEF KeysInv, ParseGuiMsg, Parser2
  <2>3. Parser2 = Told2(Wanted)
    BY <2>1, <2>2, Parse2InPieces
  <2> QED BY <2>3 DEF Parser2, Told2
<1> QED BY <1>1, KeysInvAlways, PTL
=============================================================================
