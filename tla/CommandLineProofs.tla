------------------------- MODULE CommandLineProofs -------------------------
(***************************************************************************)
(* The three parsers, for command lines of any length and integers of any  *)
(* width.                                                                  *)
(***************************************************************************)
EXTENDS CommandLine, TLAPS

-----------------------------------------------------------------------------
(* Numbers *)

LEMMA ModSmall ==
    ASSUME NEW m \in Nat, NEW a \in Int, 0 <= a, a < m
    PROVE  a % m = a
OBVIOUS

LEMMA ModRange ==
    ASSUME NEW m \in Nat \ {0}, NEW a \in Int
    PROVE  a % m \in 0..(m - 1)
OBVIOUS

\* Arithmetic is exact as long as nothing overflows.
LEMMA WrapExact ==
    ASSUME NEW n \in (-Wide)..(Wide - 1)
    PROVE  Wrap(n) = n
<1>1. (n + Wide) % (2 * Wide) = n + Wide
  <2>1. 2 * Wide \in Nat /\ n + Wide \in Int /\ 0 <= n + Wide /\ n + Wide < 2 * Wide
    BY WideAssumption
  <2> QED BY <2>1, ModSmall
<1> QED BY <1>1, WideAssumption DEF Wrap

LEMMA WrapType ==
    ASSUME NEW n \in Int
    PROVE  Wrap(n) \in Int
<1>1. 2 * Wide \in Nat \ {0} /\ n + Wide \in Int
  BY WideAssumption
<1>2. (n + Wide) % (2 * Wide) \in 0..(2 * Wide - 1)
  BY <1>1, ModRange
<1> QED BY <1>2, WideAssumption DEF Wrap

LEMMA NumberType ==
    ASSUME NEW t \in Text
    PROVE  Number(t) \in Int /\ Wrap(t.digits) \in Int
<1>1. t.digits \in Int
  BY DEF Text, None
<1>2. Wrap(t.digits) \in Int
  BY <1>1, WrapType
<1>3. -Wrap(t.digits) \in Int
  BY <1>2
<1> QED BY <1>2, <1>3, WrapType DEF Number

LEMMA NumberExact ==
    ASSUME NEW t \in Text, t.digits # None, ~IsHuge(t)
    PROVE  Number(t) = Written(t) /\ Wrap(t.digits) = t.digits
<1>1. t.digits \in 0..(Wide - 1)
  BY WideAssumption DEF Text, IsHuge
<1>2. Wrap(t.digits) = t.digits
  BY <1>1, WrapExact, WideAssumption
<1>3. Wrap(-t.digits) = -t.digits
  BY <1>1, WrapExact, WideAssumption
<1> QED BY <1>2, <1>3 DEF Number, Written

\* numFromArg() takes nothing outside the limits, and what it takes is the
\* number that is written, unless its digits do not fit.
THEOREM NumFromArgCorrect ==
    ASSUME NEW t \in Text, NEW lo \in Int, NEW hi \in Int,
           ~IsHuge(t), NumFromArg(t, Limit(lo, hi))
    PROVE  /\ Number(t) = Written(t)
           /\ lo <= Number(t) /\ Number(t) <= hi
<1>1. t.digits # None /\ Wrap(t.digits) <= hi /\ Number(t) >= lo
  BY DEF NumFromArg, Limit
<1>2. Number(t) = Written(t) /\ Wrap(t.digits) = t.digits
  BY <1>1, NumberExact
<1>3. t.digits \in Nat
  BY <1>1 DEF Text
<1>4. Written(t) <= t.digits /\ Written(t) \in Int
  BY <1>3 DEF Written
<1> QED BY <1>1, <1>2, <1>3, <1>4

\* The parsers of the two clients take the same texts for a port, but for
\* white space before it.
THEOREM ParsersAgree ==
    ASSUME NEW t \in Text, NEW lo \in Nat \ {0}, NEW hi \in Nat,
           ~IsHuge(t)
    PROVE  ValidateParameter(t, Limit(lo, hi)) <=>
               NumFromArg(t, Limit(lo, hi)) /\ ~t.space
<1>0. t.space \in BOOLEAN /\ t.minus \in BOOLEAN /\ t.clean \in BOOLEAN
  BY DEF Text
<1>1. CASE t.digits = None
  <2>1. ~(0 \in lo..hi)
    OBVIOUS
  <2> QED BY <1>1, <2>1 DEF ValidateParameter, NumFromArg, Limit
<1>2. CASE t.digits # None
  <2>1. Number(t) = Written(t) /\ Wrap(t.digits) = t.digits /\ t.digits \in Nat
    BY <1>2, NumberExact DEF Text
  <2>2. Number(t) \in Int /\ Number(t) <= t.digits
    BY <2>1 DEF Written
  <2>3. Number(t) \in lo..hi <=> Number(t) >= lo /\ t.digits <= hi
    <3>1. CASE t.minus
      BY <2>1, <3>1 DEF Written
    <3>2. CASE ~t.minus
      BY <2>1, <3>2 DEF Written
    <3> QED BY <3>1, <3>2
  <2> QED BY <1>0, <1>2, <2>1, <2>3 DEF ValidateParameter, NumFromArg, Limit
<1> QED BY <1>1, <1>2

-----------------------------------------------------------------------------
(* The inductive invariant *)

Letters(prog) == DOMAIN Defaults[prog]

Opt(k) == line.options[k]

\* The program does not end over option o.
Accepts(prog, o) ==
    \/ o.letter \in Numeric(prog) /\ NumberIsAccepted(prog, o)
    \/ o.letter = "n" /\ prog # "server" /\ NameIsAccepted(prog, o.text)
    \/ o.letter = "i" /\ prog # "server"

\* What it keeps of option o.
Value(prog, o) ==
    IF o.letter \in Numeric(prog) THEN Narrow(o.letter, Number(o.text))
    ELSE <<o.text>>

\* Option k is the last of the first n with letter l.
IsLastAmong(l, n, k) ==
    /\ k \in 1..n
    /\ Opt(k).letter = l
    /\ \A j \in (k + 1)..n : Opt(j).letter # l

\* The parameter for l after n options.
Holds(prog, l, n) ==
    \/ /\ \A k \in 1..n : Opt(k).letter # l
       /\ setting[prog][l] = Defaults[prog][l]
    \/ \E k \in 1..n :
           /\ IsLastAmong(l, n, k)
           /\ setting[prog][l] = Value(prog, Opt(k))

\* The reasons to refuse a command line.
IsRefusable(prog) ==
    \/ prog # "server" /\ Argc = 1
    \/ \E k \in 1..Len(line.options) : ~Accepts(prog, Opt(k))
    \/ ~OperandsAreRight(prog)

Shape ==
    /\ line \in CommandLines
    /\ status \in [Programs -> {"waits", "parses", "refused", "started", "failed"}]
    /\ taken \in [Programs -> Nat]
    /\ setting = [p \in Programs |-> [l \in Letters(p) |-> setting[p][l]]]

Parsed(p) ==
    /\ taken[p] <= Len(line.options)
    /\ \A k \in 1..taken[p] : Accepts(p, Opt(k))
    /\ \A l \in Letters(p) : Holds(p, l, taken[p])

Decided(p) ==
    /\ IsRunning(p) => taken[p] = Len(line.options) /\ OperandsAreRight(p)
    /\ status[p] = "refused" => IsRefusable(p)

Failed ==
    status["server"] = "failed" => setting["server"].v \in {0, 1}

IInv == Shape /\ (\A p \in Programs : Parsed(p) /\ Decided(p)) /\ Failed

-----------------------------------------------------------------------------
(* Letters and lines *)

LEMMA LettersOf ==
    /\ Letters("server") = {"p", "s", "t", "v", "w", "h"}
    /\ Numeric("server") = {"p", "s", "t", "v", "w", "h"}
    /\ \A c \in {"client", "client2"} :
           Letters(c) = {"n", "p", "i", "r"} /\ Numeric(c) = {"p", "r"}
BY DEF Letters, Numeric, Defaults, ClientDefaults, Limits

LEMMA LineType ==
    ASSUME line \in CommandLines
    PROVE  /\ Len(line.options) \in Nat
           /\ line.operands \in Nat
           /\ \A k \in 1..Len(line.options) :
                  Opt(k) \in Option /\ Opt(k).text \in Text /\ Opt(k).letter \in STRING
<1>1. line.options \in Seq(Option) /\ line.operands \in Nat
  BY CommandLinesAssumption
<1>2. \A k \in 1..Len(line.options) : line.options[k] \in Option
  BY <1>1
<1> QED BY <1>1, <1>2 DEF Opt, Option

\* Each action that gets an option takes it or ends the program.
LEMMA TakesOrRefuses ==
    ASSUME NEW prog \in Programs, NEW o,
           TakeNumber(prog, o) \/ TakeName(prog, o)
           \/ TakeGuiServer(prog, o) \/ TakeUnknown(prog, o)
    PROVE  /\ Returns(prog, o)
           /\ \/ /\ Accepts(prog, o) /\ o.letter \in Letters(prog)
                 /\ Set(prog, o.letter, Value(prog, o))
              \/ ~Accepts(prog, o) /\ Ends(prog, "refused")
<1>0. Numeric(prog) \subseteq Letters(prog)
      /\ (prog = "server" => Numeric(prog) = Letters(prog))
      /\ (prog # "server" => Letters(prog) = {"n", "p", "i", "r"}
                             /\ Numeric(prog) = {"p", "r"})
  BY LettersOf DEF Programs
<1>1. CASE TakeNumber(prog, o)
  BY <1>0, <1>1 DEF TakeNumber, Accepts, Value
<1>2. CASE TakeName(prog, o)
  BY <1>0, <1>2 DEF TakeName, Accepts, Value
<1>3. CASE TakeGuiServer(prog, o)
  BY <1>0, <1>3 DEF TakeGuiServer, Accepts, Value
<1>4. CASE TakeUnknown(prog, o)
  <2>1. o.letter \notin Letters(prog)
    BY <1>4 DEF TakeUnknown, Letters
  <2> QED BY <1>0, <1>4, <2>1 DEF TakeUnknown, Accepts
<1> QED BY <1>1, <1>2, <1>3, <1>4

-----------------------------------------------------------------------------
(* Steps *)

LEMMA InitHolds == Init => IInv
<1> SUFFICES ASSUME Init PROVE IInv
  OBVIOUS
<1>1. Shape
  <2>1. Defaults = [p \in Programs |-> [l \in Letters(p) |-> Defaults[p][l]]]
    BY DEF Defaults, ClientDefaults, Programs, Letters
  <2> QED BY <2>1 DEF Init, Shape
<1>2. ASSUME NEW p \in Programs PROVE Parsed(p)
  <2>1. taken[p] = 0 /\ setting = Defaults /\ Len(line.options) \in Nat
    BY <1>1, LineType DEF Init, Shape
  <2> QED BY <2>1 DEF Parsed, Holds
<1>3. ASSUME NEW p \in Programs PROVE status[p] = "waits"
  BY DEF Init
<1>4. "server" \in Programs
  BY DEF Programs
<1> QED BY <1>1, <1>2, <1>3, <1>4 DEF IInv, Decided, Failed, IsRunning

\* A step that changes no parameter.
LEMMA EndsHolds ==
    ASSUME IInv, NEW prog \in Programs,
           NEW s \in {"parses", "refused", "started", "failed"},
           Ends(prog, s),
           s \in {"started", "failed"} =>
               taken[prog] = Len(line.options) /\ OperandsAreRight(prog),
           s = "refused" => IsRefusable(prog),
           s = "failed" => prog = "server" /\ setting["server"].v \in {0, 1}
    PROVE  IInv'
<1>1. /\ UNCHANGED <<line, taken, setting>>
      /\ status' = [status EXCEPT ![prog] = s]
  BY DEF Ends
<1>2. Shape'
  BY <1>1 DEF IInv, Shape
<1>3. ASSUME NEW p \in Programs PROVE Parsed(p)'
  BY <1>1 DEF IInv, Parsed, Holds, IsLastAmong, Opt
<1>4. ASSUME NEW p \in Programs PROVE Decided(p)'
  <2>1. OperandsAreRight(p)' = OperandsAreRight(p) /\ IsRefusable(p)' = IsRefusable(p)
    BY <1>1 DEF OperandsAreRight, IsRefusable, Opt, Argc
  <2>2. CASE p = prog
    <3>1. status'[p] = s
      BY <1>1, <2>2 DEF IInv, Shape
    <3> QED BY <1>1, <2>1, <2>2, <3>1 DEF Decided, IsRunning
  <2>3. CASE p # prog
    <3>1. status'[p] = status[p]
      BY <1>1, <2>3 DEF IInv, Shape
    <3> QED BY <1>1, <2>1, <3>1 DEF IInv, Decided, IsRunning
  <2> QED BY <2>2, <2>3
<1>5. Failed'
  BY <1>1 DEF IInv, Shape, Failed, Programs
<1> QED BY <1>2, <1>3, <1>4, <1>5 DEF IInv

\* A step that takes an option.
LEMMA SetHolds ==
    ASSUME IInv, NEW prog \in Programs, NEW o,
           Returns(prog, o), Accepts(prog, o), o.letter \in Letters(prog),
           Set(prog, o.letter, Value(prog, o))
    PROVE  IInv'
<1> DEFINE n == taken[prog] + 1
<1>0. /\ taken[prog] \in Nat /\ Len(line.options) \in Nat
      /\ taken \in [Programs -> Nat]
  BY LineType DEF IInv, Shape
<1>1. /\ status[prog] = "parses"
      /\ n \in 1..Len(line.options)
      /\ o = Opt(n)
      /\ line' = line /\ status' = status
      /\ taken' = [taken EXCEPT ![prog] = n]
  BY <1>0 DEF Returns, Set, Opt
<1>2. setting' = [setting EXCEPT ![prog] =
                      [setting[prog] EXCEPT ![o.letter] = Value(prog, o)]]
  BY DEF Set
<1>3. setting = [p \in Programs |-> [l \in Letters(p) |-> setting[p][l]]]
  BY DEF IInv, Shape
<1>4. ASSUME NEW p \in Programs, p # prog PROVE setting'[p] = setting[p]
  BY <1>2, <1>3, <1>4
<1>5. setting'[prog] = [setting[prog] EXCEPT ![o.letter] = Value(prog, o)]
  BY <1>2, <1>3
<1>6. ASSUME NEW l \in Letters(prog)
      PROVE  setting'[prog][l] =
                 IF l = o.letter THEN Value(prog, o) ELSE setting[prog][l]
  BY <1>3, <1>5
<1>7. Shape'
  <2>1. setting' = [p \in Programs |-> [l \in Letters(p) |-> setting'[p][l]]]
    <3>1. \A p \in Programs : setting'[p] = [l \in Letters(p) |-> setting'[p][l]]
      <4>1. ASSUME NEW p \in Programs, p # prog
            PROVE  setting'[p] = [l \in Letters(p) |-> setting'[p][l]]
        BY <1>3, <1>4, <4>1
      <4>2. setting'[prog] = [l \in Letters(prog) |-> setting'[prog][l]]
        BY <1>3, <1>5
      <4> QED BY <4>1, <4>2
    <3>2. setting' = [p \in Programs |-> setting'[p]]
      BY <1>2, <1>3
    <3> QED BY <3>1, <3>2
  <2>2. Letters("server") = Letters("server")' /\ taken' \in [Programs -> Nat]
    BY <1>0, <1>1
  <2> QED BY <1>1, <2>1, <2>2 DEF IInv, Shape, Letters, Defaults
<1>8. ASSUME NEW p \in Programs PROVE Parsed(p)'
  <2>1. CASE p # prog
    <3>1. taken'[p] = taken[p] /\ setting'[p] = setting[p]
      BY <1>0, <1>1, <1>4, <2>1
    <3> QED BY <1>1, <3>1 DEF IInv, Parsed, Holds, IsLastAmong, Opt
  <2>2. CASE p = prog
    <3>1. taken'[p] = n
      BY <1>0, <1>1, <2>2
    <3>2. \A k \in 1..n : Accepts(p, Opt(k))
      <4>1. \A k \in 1..taken[prog] : Accepts(prog, Opt(k))
        BY DEF IInv, Parsed
      <4> QED BY <1>0, <1>1, <2>2, <4>1
    <3>3. ASSUME NEW l \in Letters(prog)
          PROVE  \/ /\ \A k \in 1..n : Opt(k).letter # l
                    /\ setting'[prog][l] = Defaults[prog][l]
                 \/ \E k \in 1..n :
                        /\ IsLastAmong(l, n, k)
                        /\ setting'[prog][l] = Value(prog, Opt(k))
      <4>1. CASE l = o.letter
        <5>1. IsLastAmong(l, n, n)
          BY <1>0, <1>1, <4>1 DEF IsLastAmong
        <5> QED BY <1>0, <1>1, <1>6, <4>1, <5>1
      <4>2. CASE l # o.letter
        <5>1. setting'[prog][l] = setting[prog][l]
          BY <1>6, <4>2
        <5>2. Holds(prog, l, taken[prog])
          BY DEF IInv, Parsed
        <5>3. Opt(n).letter # l
          BY <1>1, <4>2
        <5>4. CASE /\ \A k \in 1..taken[prog] : Opt(k).letter # l
                   /\ setting[prog][l] = Defaults[prog][l]
          BY <1>0, <5>1, <5>3, <5>4
        <5>5. CASE \E k \in 1..taken[prog] :
                       /\ IsLastAmong(l, taken[prog], k)
                       /\ setting[prog][l] = Value(prog, Opt(k))
          <6>1. PICK k \in 1..taken[prog] :
                         /\ IsLastAmong(l, taken[prog], k)
                         /\ setting[prog][l] = Value(prog, Opt(k))
            BY <5>5
          <6>2. k \in 1..n /\ IsLastAmong(l, n, k)
            BY <1>0, <5>3, <6>1 DEF IsLastAmong
          <6> QED BY <5>1, <6>1, <6>2
        <5> QED BY <5>2, <5>4, <5>5 DEF Holds
      <4> QED BY <4>1, <4>2
    <3>4. n <= Len(line.options)
      BY <1>0, <1>1
    <3> HIDE DEF n
    <3>5. (\A k \in 1..taken[p] : Accepts(p, Opt(k)))'
      BY <1>1, <3>1, <3>2 DEF Opt
    <3>6. ASSUME NEW l \in Letters(prog) PROVE Holds(prog, l, taken[prog])'
      BY <1>1, <2>2, <3>1, <3>3 DEF Holds, IsLastAmong, Opt
    <3> QED BY <1>1, <2>2, <3>1, <3>4, <3>5, <3>6 DEF Parsed, Letters
  <2> QED BY <2>1, <2>2
<1>9. ASSUME NEW p \in Programs PROVE Decided(p)'
  <2>1. CASE p = prog
    BY <1>1, <2>1 DEF Decided, IsRunning
  <2>2. CASE p # prog
    <3>1. taken'[p] = taken[p]
      BY <1>0, <1>1, <2>2
    <3> QED BY <1>1, <3>1 DEF IInv, Decided, IsRunning, IsRefusable,
                               OperandsAreRight, Argc, Opt, Accepts
  <2> QED BY <2>1, <2>2
<1>10. Failed'
  BY <1>1, <1>4 DEF IInv, Failed, Programs
<1> QED BY <1>7, <1>8, <1>9, <1>10 DEF IInv

\* The limits lie within the variables; a client's exclude 0.
LEMMA LimitsOf ==
    ASSUME NEW prog \in Programs, NEW l \in Numeric(prog)
    PROVE  \E lo, hi \in Nat :
               /\ Limits[prog][l] = Limit(lo, hi)
               /\ hi < Width(l)
               /\ Width(l) \in Nat
               /\ prog # "server" \/ l = "v" => lo # 0
<1>1. CASE prog = "server" /\ l = "s"
  <2>1. Limits[prog][l] = Limit(0, MaxSeed) /\ Width(l) = Wide
    BY <1>1 DEF Limits, Width
  <2> QED BY <1>1, <2>1, WideAssumption
<1>2. CASE prog = "server" /\ l = "p"
  <2>1. Limits[prog][l] = Limit(1, 65535) /\ Width(l) = 65536
    BY <1>2 DEF Limits, Width, Port
  <2> QED BY <1>2, <2>1
<1>3. CASE prog = "server" /\ l = "t"
  <2>1. Limits[prog][l] = Limit(1, 90) /\ Width(l) = 256
    BY <1>3 DEF Limits, Width
  <2> QED BY <1>3, <2>1
<1>4. CASE prog = "server" /\ l = "v"
  <2>1. Limits[prog][l] = Limit(1, 250) /\ Width(l) = 256
    BY <1>4 DEF Limits, Width
  <2> QED BY <1>4, <2>1
<1>5. CASE prog = "server" /\ l \in {"w", "h"}
  <2>1. Limits[prog][l] = Limit(16, 4096) /\ Width(l) = 65536
    BY <1>5 DEF Limits, Width
  <2> QED BY <1>5, <2>1
<1>6. CASE prog \in {"client", "client2"}
  <2>1. l \in {"p", "r"}
    BY <1>6, LettersOf
  <2>2. Limits[prog][l] = Limit(1, 65535) /\ Width(l) = 65536
    BY <1>6, <2>1 DEF Limits, Width, Port
  <2> QED BY <2>1, <2>2
<1> QED
  BY <1>1, <1>2, <1>3, <1>4, <1>5, <1>6, LettersOf DEF Programs

LEMMA NarrowRange ==
    ASSUME NEW t \in Text, NEW prog \in Programs, NEW l \in Numeric(prog)
    PROVE  Narrow(l, Number(t)) \in 0..(Width(l) - 1)
<1>1. Width(l) \in Nat \ {0}
  BY LimitsOf
<1> QED BY <1>1, NumberType, ModRange DEF Narrow

\* A number that is accepted and fits is kept as it is written.
LEMMA KeptNumber ==
    ASSUME NEW prog \in Programs, NEW l \in Numeric(prog), NEW t \in Text,
           NumberIsAccepted(prog, [letter |-> l, text |-> t]), ~IsHuge(t)
    PROVE  /\ Narrow(l, Number(t)) = Written(t)
           /\ Written(t) >= Limits[prog][l].lo
           /\ Written(t) <= Limits[prog][l].hi
<1>1. PICK lo \in Nat, hi \in Nat :
          /\ Limits[prog][l] = Limit(lo, hi)
          /\ hi < Width(l)
          /\ Width(l) \in Nat
          /\ prog # "server" \/ l = "v" => lo # 0
  BY LimitsOf
<1>2. NumFromArg(t, Limit(lo, hi))
  <2>1. CASE prog = "client2"
    <3>1. ValidateParameter(t, Limit(lo, hi)) /\ lo \in Nat \ {0}
      BY <1>1, <2>1 DEF NumberIsAccepted
    <3> QED BY <3>1, ParsersAgree
  <2>2. CASE prog # "client2"
    BY <1>1, <2>2 DEF NumberIsAccepted
  <2> QED BY <2>1, <2>2
<1>3. Number(t) = Written(t) /\ lo <= Number(t) /\ Number(t) <= hi
  BY <1>2, NumFromArgCorrect
<1>4. Number(t) \in Int
  BY NumberType
<1>5. Narrow(l, Number(t)) = Number(t)
  BY <1>1, <1>3, <1>4, ModSmall DEF Narrow
<1> QED BY <1>1, <1>3, <1>4, <1>5 DEF Limit

\* What is known of a numeric parameter while the command line is read.
LEMMA NumericSetting ==
    ASSUME IInv, NEW prog \in Programs, NEW l \in Numeric(prog)
    PROVE  \/ setting[prog][l] = Defaults[prog][l]
           \/ \E k \in 1..taken[prog] :
                  /\ Opt(k).letter = l
                  /\ NumberIsAccepted(prog, [letter |-> l, text |-> Opt(k).text])
                  /\ Opt(k).text \in Text
                  /\ setting[prog][l] = Narrow(l, Number(Opt(k).text))
<1>1. l \in Letters(prog) /\ l \notin {"n", "i"}
  BY LettersOf DEF Programs
<1>2. Holds(prog, l, taken[prog])
  BY <1>1 DEF IInv, Parsed
<1>3. SUFFICES ASSUME NEW k \in 1..taken[prog], Opt(k).letter = l,
                      setting[prog][l] = Value(prog, Opt(k))
               PROVE  /\ NumberIsAccepted(prog, [letter |-> l, text |-> Opt(k).text])
                      /\ Opt(k).text \in Text
                      /\ setting[prog][l] = Narrow(l, Number(Opt(k).text))
  BY <1>2 DEF Holds, IsLastAmong
<1>4. Accepts(prog, Opt(k)) /\ k \in 1..Len(line.options)
  BY LineType DEF IInv, Shape, Parsed
<1>5. Opt(k).text \in Text
  BY <1>4, LineType DEF IInv, Shape
<1>6. NumberIsAccepted(prog, [letter |-> l, text |-> Opt(k).text])
  BY <1>1, <1>3, <1>4 DEF Accepts, NumberIsAccepted
<1> QED BY <1>3, <1>5, <1>6 DEF Value

LEMMA NumbersInWidth ==
    ASSUME IInv, NEW prog \in Programs, NEW l \in Numeric(prog)
    PROVE  setting[prog][l] \in 0..(Width(l) - 1)
<1>1. CASE setting[prog][l] = Defaults[prog][l]
  <2>1. CASE prog = "server" /\ l = "s"
    BY <1>1, <2>1, WideAssumption DEF Defaults, Width
  <2>2. CASE prog = "server" /\ l # "s"
    <3>1. l \in {"p", "t", "v", "w", "h"}
      BY <2>2, LettersOf
    <3> QED BY <1>1, <2>2, <3>1 DEF Defaults, Width
  <2>3. CASE prog # "server"
    <3>1. l \in {"p", "r"} /\ Defaults[prog] = ClientDefaults
      BY <2>3, LettersOf DEF Programs, Defaults
    <3> QED BY <1>1, <3>1 DEF ClientDefaults, Width
  <2> QED BY <2>1, <2>2, <2>3
<1>2. CASE setting[prog][l] # Defaults[prog][l]
  BY <1>2, NumericSetting, NarrowRange
<1> QED BY <1>1, <1>2

LEMMA QuotientIsLess ==
    ASSUME NEW a \in Nat \ {0}, NEW b \in Nat, b >= 2
    PROVE  a \div b < a
<1>1. a \div b \in Nat /\ b * (a \div b) <= a
  OBVIOUS
<1>2. ASSUME NEW q \in Nat, b * q <= a PROVE q < a
  <2>1. 2 * q <= b * q
    OBVIOUS
  <2> QED BY <1>2, <2>1
<1> QED BY <1>1, <1>2

LEMMA NextHolds == IInv /\ [Next]_vars => IInv'
<1> SUFFICES ASSUME IInv, [Next]_vars PROVE IInv'
  OBVIOUS
<1>0. "server" \in Programs
  BY DEF Programs
<1>1. ASSUME NEW prog \in Programs, Begin(prog) PROVE IInv'
  <2>1. CASE prog # "server" /\ Argc = 1
    <3>1. Ends(prog, "refused") /\ IsRefusable(prog)
      BY <1>1, <2>1 DEF Begin, IsRefusable
    <3> QED BY <3>1, EndsHolds
  <2>2. CASE ~(prog # "server" /\ Argc = 1)
    <3>1. Ends(prog, "parses")
      BY <1>1, <2>2 DEF Begin
    <3> QED BY <3>1, EndsHolds
  <2> QED BY <2>1, <2>2
<1>2. ASSUME NEW prog \in Programs, NEW o,
             TakeNumber(prog, o) \/ TakeName(prog, o)
             \/ TakeGuiServer(prog, o) \/ TakeUnknown(prog, o)
      PROVE  IInv'
  <2>1. CASE /\ Accepts(prog, o) /\ o.letter \in Letters(prog)
             /\ Set(prog, o.letter, Value(prog, o))
    BY <1>2, <2>1, TakesOrRefuses, SetHolds
  <2>2. CASE ~Accepts(prog, o) /\ Ends(prog, "refused")
    <3>1. Returns(prog, o)
      BY <1>2, TakesOrRefuses
    <3>2. taken[prog] + 1 \in 1..Len(line.options) /\ o = Opt(taken[prog] + 1)
      BY <3>1, LineType DEF Returns, Opt, IInv, Shape
    <3>3. IsRefusable(prog)
      BY <2>2, <3>2 DEF IsRefusable
    <3> QED BY <2>2, <3>3, EndsHolds
  <2> QED BY <1>2, <2>1, <2>2, TakesOrRefuses
<1>3. ASSUME NEW prog \in Programs, Finish(prog) PROVE IInv'
  <2>1. CASE OperandsAreRight(prog)
    <3>1. Ends(prog, "started") /\ taken[prog] = Len(line.options)
      BY <1>3, <2>1 DEF Finish
    <3> QED BY <2>1, <3>1, EndsHolds
  <2>2. CASE ~OperandsAreRight(prog)
    <3>1. Ends(prog, "refused") /\ IsRefusable(prog)
      BY <1>3, <2>2 DEF Finish, IsRefusable
    <3> QED BY <3>1, EndsHolds
  <2> QED BY <2>1, <2>2
<1>4. CASE StartFirstGame
  <2>1. taken["server"] = Len(line.options) /\ OperandsAreRight("server")
    BY <1>0, <1>4 DEF StartFirstGame, IInv, Decided, IsRunning
  <2>2. setting["server"].v \in 0..255
    <3>1. "v" \in Numeric("server") /\ Width("v") = 256
      BY LettersOf DEF Width
    <3>2. setting["server"]["v"] \in 0..(256 - 1)
      BY <1>0, <3>1, NumbersInWidth
    <3> QED BY <3>2
  <2>3. setting["server"].v \in {0, 1}
    <3>1. SUFFICES ASSUME setting["server"].v >= 2 PROVE FALSE
      BY <2>2
    <3>2. NanoSec \div setting["server"].v < NanoSec
      BY <2>2, <3>1, QuotientIsLess DEF NanoSec
    <3>3. NanoSec \div setting["server"].v >= NanoSec
      BY <1>4, <3>1 DEF StartFirstGame
    <3>4. NanoSec \div setting["server"].v \in Int /\ NanoSec \in Int
      BY <2>2, <3>1 DEF NanoSec
    <3> QED BY <3>2, <3>3, <3>4
  <2>4. Ends("server", "failed")
    BY <1>4 DEF StartFirstGame
  <2> QED BY <1>0, <2>1, <2>3, <2>4, EndsHolds
<1>5. CASE UNCHANGED vars
  <2>1. UNCHANGED <<line, taken, setting, status>>
    BY <1>5 DEF vars
  <2>2. \A p \in Programs : Parsed(p)' /\ Decided(p)'
    BY <2>1 DEF IInv, Parsed, Decided, Holds, IsLastAmong, Opt, IsRunning,
                IsRefusable, OperandsAreRight, Argc
  <2> QED BY <2>1, <2>2 DEF IInv, Shape, Failed
<1> QED BY <1>1, <1>2, <1>3, <1>4, <1>5 DEF Next

LEMMA IInvAlways == Spec => []IInv
BY InitHolds, NextHolds, PTL DEF Spec

-----------------------------------------------------------------------------
(* The properties *)

\* The parameters stay in the range of their variables, whatever is given.
THEOREM TypeCorrect == Spec => []TypeOK
<1>1. IInv => TypeOK
  <2> SUFFICES ASSUME IInv PROVE TypeOK
    OBVIOUS
  <2>1. ASSUME NEW prog \in Programs
        PROVE  taken[prog] \in 0..Len(line.options)
    BY LineType DEF IInv, Shape, Parsed
  <2> QED BY <2>1, NumbersInWidth DEF TypeOK, IInv, Shape
<1> QED BY <1>1, IInvAlways, PTL

\* A program that runs has the last number that was given, as it is written.
THEOREM NumbersCorrect == Spec => []NumbersAreAsWritten
<1>1. IInv => NumbersAreAsWritten
  <2> SUFFICES ASSUME IInv, NEW prog \in Programs, IsRunning(prog),
                      NEW l \in Numeric(prog)
               PROVE  LET given == {k \in DOMAIN line.options :
                                        line.options[k].letter = l}
                      IN  /\ given = {} => setting[prog][l] = Defaults[prog][l]
                          /\ \A k \in given :
                                 LET t == line.options[k].text
                                 IN  IsLast(k) /\ ~IsHuge(t)
                                     => /\ setting[prog][l] = Written(t)
                                        /\ setting[prog][l] >= Limits[prog][l].lo
                                        /\ setting[prog][l] <= Limits[prog][l].hi
    BY DEF NumbersAreAsWritten
  <2> DEFINE n == Len(line.options)
  <2>1. taken[prog] = n /\ n \in Nat /\ DOMAIN line.options = 1..n
    <3>1. line.options \in Seq(Option)
      BY CommandLinesAssumption DEF IInv, Shape
    <3> QED BY <3>1 DEF IInv, Decided
  <2>2. l \in Letters(prog) /\ l \notin {"n", "i"}
    BY LettersOf DEF Programs
  <2>3. Holds(prog, l, n) /\ \A k \in 1..n : Accepts(prog, Opt(k))
    BY <2>1, <2>2 DEF IInv, Parsed
  <2>4. (\A k \in 1..n : Opt(k).letter # l) => setting[prog][l] = Defaults[prog][l]
    BY <2>3 DEF Holds, IsLastAmong
  <2>5. ASSUME NEW k \in 1..n, Opt(k).letter = l, IsLast(k), ~IsHuge(Opt(k).text)
        PROVE  /\ setting[prog][l] = Written(Opt(k).text)
               /\ setting[prog][l] >= Limits[prog][l].lo
               /\ setting[prog][l] <= Limits[prog][l].hi
    <3>1. PICK m \in 1..n : IsLastAmong(l, n, m)
                            /\ setting[prog][l] = Value(prog, Opt(m))
      BY <2>3, <2>5 DEF Holds
    <3>2. m = k
      BY <2>1, <2>5, <3>1 DEF IsLastAmong, IsLast, Opt
    <3>3. setting[prog][l] = Narrow(l, Number(Opt(k).text))
      BY <2>5, <3>1, <3>2 DEF Value
    <3>4. Opt(k).text \in Text
      BY LineType DEF IInv, Shape
    <3>5. NumberIsAccepted(prog, [letter |-> l, text |-> Opt(k).text])
      BY <2>2, <2>3, <2>5 DEF Accepts, NumberIsAccepted
    <3> QED BY <2>5, <3>3, <3>4, <3>5, KeptNumber
  <2> QED BY <2>1, <2>4, <2>5 DEF Opt
<1> QED BY <1>1, IInvAlways, PTL

\* What client 1 accepts and client 2 does not.
LEMMA AcceptsAgree ==
    ASSUME NEW o \in Option, ~IsHuge(o.text)
    PROVE  Accepts("client2", o) <=>
               /\ Accepts("client", o)
               /\ ~(o.letter \in {"p", "r"} /\ o.text.space)
               /\ ~(o.letter = "n" /\ o.text.length > 20)
<1>1. o.text \in Text
  BY DEF Option
<1>2. Numeric("client") = {"p", "r"} /\ Numeric("client2") = {"p", "r"}
  BY LettersOf
<1>3. CASE o.letter \in {"p", "r"}
  <2>1. /\ Limits["client"][o.letter] = Limit(1, 65535)
        /\ Limits["client2"][o.letter] = Limit(1, 65535)
    BY <1>3 DEF Limits, Port
  <2>2. /\ Accepts("client2", o) <=> ValidateParameter(o.text, Limit(1, 65535))
        /\ Accepts("client", o) <=> NumFromArg(o.text, Limit(1, 65535))
    BY <1>2, <1>3, <2>1 DEF Accepts, NumberIsAccepted
  <2>3. ValidateParameter(o.text, Limit(1, 65535)) <=>
            NumFromArg(o.text, Limit(1, 65535)) /\ ~o.text.space
    BY <1>1, ParsersAgree
  <2> QED BY <1>3, <2>2, <2>3
<1>4. CASE o.letter = "n"
  <2>1. o.text.length \in Nat
    BY <1>1 DEF Text
  <2> QED BY <1>2, <1>4, <2>1
          DEF Accepts, NameIsAccepted, ValidatePlayerName, CheckNameCorrectness
<1>5. CASE o.letter \notin {"p", "r", "n"}
  BY <1>2, <1>5 DEF Accepts
<1> QED BY <1>3, <1>4, <1>5

\* A client that is done has started unless an option was wrong.
LEMMA RunsIfAccepted ==
    ASSUME IInv, NEW c \in {"client", "client2"}, IsDone(c), line.operands = 1
    PROVE  /\ IsRunning(c) <=> \A k \in 1..Len(line.options) : Accepts(c, Opt(k))
           /\ IsRunning(c) => taken[c] = Len(line.options)
<1>1. c \in Programs /\ OperandsAreRight(c)
  BY DEF Programs, OperandsAreRight
<1>2. Argc # 1
  BY LineType DEF Argc, IInv, Shape
<1>3. status[c] \in {"refused", "started", "failed"}
  BY <1>1 DEF IsDone, IInv, Shape
<1>4. Parsed(c) /\ Decided(c)
  BY <1>1 DEF IInv
<1> QED BY <1>1, <1>2, <1>3, <1>4 DEF Parsed, Decided, IsRunning, IsRefusable

\* The two clients start on the same command lines, except for white space
\* before ports and long names, and with the same parameters.
THEOREM ClientsAgreeAlways == Spec => []ClientsAgree
<1>1. IInv => ClientsAgree
  <2> SUFFICES ASSUME IInv, IsDone("client"), IsDone("client2"),
                      line.operands = 1,
                      \A o \in ToSet(line.options) : ~IsHuge(o.text)
               PROVE  /\ IsRunning("client2") <=>
                             IsRunning("client") /\ ~IsOnlyForClient1
                      /\ IsRunning("client2") =>
                             setting["client2"] = setting["client"]
    BY DEF ClientsAgree
  <2> DEFINE n == Len(line.options)
  <2>1. /\ n \in Nat
        /\ ToSet(line.options) = {Opt(k) : k \in 1..n}
        /\ \A k \in 1..n : Opt(k) \in Option
    <3>1. line.options \in Seq(Option)
      BY CommandLinesAssumption DEF IInv, Shape
    <3> QED BY <3>1, LineType DEF IInv, Shape, ToSet, Opt
  <2>2. \A k \in 1..n :
            Accepts("client2", Opt(k)) <=>
                /\ Accepts("client", Opt(k))
                /\ ~(Opt(k).letter \in {"p", "r"} /\ Opt(k).text.space)
                /\ ~(Opt(k).letter = "n" /\ Opt(k).text.length > 20)
    BY <2>1, AcceptsAgree
  <2>3. IsOnlyForClient1 <=>
            \E k \in 1..n :
                \/ Opt(k).letter \in {"p", "r"} /\ Opt(k).text.space
                \/ Opt(k).letter = "n" /\ Opt(k).text.length > 20
    BY <2>1 DEF IsOnlyForClient1
  <2>4. /\ IsRunning("client") <=> \A k \in 1..n : Accepts("client", Opt(k))
        /\ IsRunning("client2") <=> \A k \in 1..n : Accepts("client2", Opt(k))
        /\ IsRunning("client") => taken["client"] = n
        /\ IsRunning("client2") => taken["client2"] = n
    BY RunsIfAccepted
  <2>5. IsRunning("client2") <=> IsRunning("client") /\ ~IsOnlyForClient1
    BY <2>2, <2>3, <2>4
  <2>6. ASSUME IsRunning("client2") PROVE setting["client2"] = setting["client"]
    <3>1. /\ Letters("client") = Letters("client2")
          /\ Numeric("client") = Numeric("client2")
          /\ Defaults["client"] = Defaults["client2"]
          /\ "client" \in Programs /\ "client2" \in Programs
      BY LettersOf DEF Programs, Defaults
    <3>2. ASSUME NEW l \in Letters("client")
          PROVE  setting["client2"][l] = setting["client"][l]
      <4>1. Holds("client", l, n) /\ Holds("client2", l, n)
        BY <2>4, <2>5, <2>6, <3>1 DEF IInv, Parsed
      <4>2. CASE \A k \in 1..n : Opt(k).letter # l
        BY <3>1, <4>1, <4>2 DEF Holds, IsLastAmong
      <4>3. CASE \E k \in 1..n : Opt(k).letter = l
        <5>1. PICK k \in 1..n : IsLastAmong(l, n, k)
                                /\ setting["client"][l] = Value("client", Opt(k))
          BY <4>1, <4>3 DEF Holds
        <5>2. PICK m \in 1..n : IsLastAmong(l, n, m)
                                /\ setting["client2"][l] = Value("client2", Opt(m))
          BY <4>1, <4>3 DEF Holds
        <5>3. m = k
          BY <2>1, <5>1, <5>2 DEF IsLastAmong
        <5> QED BY <3>1, <5>1, <5>2, <5>3 DEF Value
      <4> QED BY <4>2, <4>3
    <3>3. /\ setting["client"] = [l \in Letters("client") |-> setting["client"][l]]
          /\ setting["client2"] = [l \in Letters("client2") |-> setting["client2"][l]]
      BY <3>1 DEF IInv, Shape
    <3> QED BY <3>1, <3>2, <3>3
  <2> QED BY <2>5, <2>6
<1> QED BY <1>1, IInvAlways, PTL

\* Only client 1 runs on unheard, and only with a long name.
THEOREM IgnoredCorrect == Spec => []IgnoredNamesAreLong
<1>1. IInv => IgnoredNamesAreLong
  <2> SUFFICES ASSUME IInv, NEW c \in {"client", "client2"}, IsRunning(c),
                      NEW name \in ToSet(setting[c].n), ~IsHeard(name)
               PROVE  c = "client" /\ name.length > 20
    BY DEF IgnoredNamesAreLong
  <2>1. /\ c \in Programs /\ "n" \in Letters(c) /\ "n" \notin Numeric(c)
        /\ Defaults[c]["n"] = <<>>
    BY LettersOf DEF Programs, Defaults, ClientDefaults
  <2>2. Holds(c, "n", taken[c])
    BY <2>1 DEF IInv, Parsed
  <2>3. setting[c]["n"] # <<>>
    BY DEF ToSet
  <2>4. PICK k \in 1..taken[c] : Opt(k).letter = "n"
                                 /\ setting[c]["n"] = Value(c, Opt(k))
    BY <2>1, <2>2, <2>3 DEF Holds, IsLastAmong
  <2>5. name = Opt(k).text
    <3>1. setting[c]["n"] = <<Opt(k).text>>
      BY <2>1, <2>4 DEF Value
    <3> QED BY <3>1 DEF ToSet
  <2>6. Accepts(c, Opt(k)) /\ k \in 1..Len(line.options)
    BY <2>1, LineType DEF IInv, Shape, Parsed
  <2>7. Opt(k).text.length \in Nat
    BY <2>6, LineType DEF IInv, Shape, Text
  <2>8. Opt(k).text.length > 20
    BY <2>5, <2>7 DEF IsHeard
  <2>9. c # "client2"
    BY <2>1, <2>4, <2>6, <2>7, <2>8
       DEF Accepts, NameIsAccepted, ValidatePlayerName
  <2> QED BY <2>5, <2>8, <2>9
<1> QED BY <1>1, IInvAlways, PTL

\* A rate above 1 that fits never ends the server.
THEOREM FailsCorrect == Spec => []FailsOnlyAtOne
<1>1. IInv => FailsOnlyAtOne
  <2> SUFFICES ASSUME IInv, status["server"] = "failed",
                      setting["server"].v # 1
               PROVE  \E o \in ToSet(line.options) : o.letter = "v" /\ IsHuge(o.text)
    BY DEF FailsOnlyAtOne
  <2>1. setting["server"]["v"] = 0
    BY DEF IInv, Failed
  <2>2. "server" \in Programs /\ "v" \in Numeric("server")
    BY LettersOf DEF Programs
  <2>3. Defaults["server"]["v"] = 50
    BY DEF Defaults
  <2>4. PICK k \in 1..taken["server"] :
            /\ Opt(k).letter = "v"
            /\ NumberIsAccepted("server", [letter |-> "v", text |-> Opt(k).text])
            /\ Opt(k).text \in Text
            /\ setting["server"]["v"] = Narrow("v", Number(Opt(k).text))
    BY <2>1, <2>2, <2>3, NumericSetting
  <2>5. IsHuge(Opt(k).text)
    <3>1. SUFFICES ASSUME ~IsHuge(Opt(k).text) PROVE FALSE
      OBVIOUS
    <3>2. /\ Narrow("v", Number(Opt(k).text)) = Written(Opt(k).text)
          /\ Written(Opt(k).text) >= Limits["server"]["v"].lo
      BY <2>2, <2>4, <3>1, KeptNumber
    <3>3. Limits["server"]["v"].lo = 1
      BY DEF Limits, Limit
    <3> QED BY <2>1, <2>4, <3>2, <3>3
  <2>6. Opt(k) \in ToSet(line.options)
    <3>1. line.options \in Seq(Option) /\ k \in 1..Len(line.options)
      BY <2>2, LineType, CommandLinesAssumption DEF IInv, Shape, Parsed
    <3> QED BY <3>1 DEF ToSet, Opt
  <2> QED BY <2>4, <2>5, <2>6
<1> QED BY <1>1, IInvAlways, PTL
=============================================================================
